---------------------------- MODULE ParserProofs ----------------------------
(***************************************************************************)
(* Proofs about the two stateless halves of src/parser.c: the header tests *)
(* of extract_headers() (L2L4), and the extraction of the HTTP Host and    *)
(* URL and of the TLS server name (L7Extract, L7Stream), for every         *)
(* stream, every alphabet and every capacity of scan_buf.                  *)
(***************************************************************************)
EXTENDS L2L4, L7Stream, SumProofs, TLAPS

-----------------------------------------------------------------------------
(* Headers: the sum of their lengths, without wrap-around. *)
Headers(f) == 14 + 4 * f.ihl + 4 * f.doff

(* None of the narrow variables of extract_headers() wraps. *)
LEMMA Offsets ==
    ASSUME NEW f \in Frame
    PROVE  /\ IhlBytes(f) = 4 * f.ihl
           /\ DoffBytes(f) = 4 * f.doff
           /\ L4Off(f) = 14 + 4 * f.ihl
           /\ f.proto = IPPROTO_TCP => DataOff(f) = Headers(f)
<1>1. f.ihl \in 0 .. 15 /\ f.doff \in 0 .. 15
  BY DEF Frame
<1>2. IhlBytes(f) = 4 * f.ihl /\ DoffBytes(f) = 4 * f.doff
  BY <1>1 DEF IhlBytes, DoffBytes, U8
<1>3. L4Off(f) = 14 + 4 * f.ihl
  BY <1>1, <1>2 DEF L4Off, EtherHdr, U16
<1>4. f.proto = IPPROTO_TCP => DataOff(f) = Headers(f)
  BY <1>1, <1>2, <1>3 DEF DataOff, Headers, U16
<1> QED  BY <1>2, <1>3, <1>4

(* The proofs below need no more of 2^16. *)
LEMMA U16Positive == U16 \in Nat \ {0}
  BY DEF U16

(* A frame's numbers. *)
LEMMA FrameFields ==
    ASSUME NEW f \in Frame
    PROVE  f.ihl \in 0 .. 15 /\ f.doff \in 0 .. 15 /\ f.data_len \in 0 .. U16 - 1
  BY DEF Frame

(* A difference of 16-bit numbers does not wrap if it is not negative. *)
LEMMA NoWrap ==
    ASSUME NEW m \in Nat \ {0}, NEW n \in 0 .. m - 1, NEW h \in Nat, h <= n
    PROVE  (n - h) % m = n - h /\ n - h \in Nat /\ h + (n - h) = n
  OBVIOUS

(* The arithmetic of the two theorems, on numbers. *)
LEMMA Sums ==
    ASSUME NEW i \in 0 .. 15, NEW d \in 0 .. 15, NEW n \in Nat
    PROVE  /\ (n >= 14 /\ n >= 34 /\ 4 * i >= 20 /\ n >= 14 + 4 * i) <=> (i >= 5 /\ n >= 14 + 4 * i)
           /\ (n >= 14 + 4 * i + 20 /\ 4 * d >= 20) <=> (n >= 34 + 4 * i /\ d >= 5)
           /\ ~(14 + 4 * i + 4 * d > n) <=> 14 + 4 * i + 4 * d <= n
           /\ d >= 5 /\ 14 + 4 * i + 4 * d <= n => n >= 34 + 4 * i
           /\ n >= 34 + 4 * i => n >= 14 + 4 * i
  OBVIOUS

(* The tests that extract_headers() makes one after the other, each at the *)
(* width of its variable, come to this: a frame is accepted exactly if it  *)
(* is TCP over IPv4 to one of the two ports and both headers, with their   *)
(* options, are complete.                                                  *)
THEOREM AcceptedExact ==
    ASSUME NEW f \in Frame
    PROVE  Accepted(f) <=> /\ f.ether_type = ETHER_TYPE_IPV4
                           /\ f.proto = IPPROTO_TCP
                           /\ f.dst_port \in {HTTP_PORT, HTTPS_PORT}
                           /\ f.ihl >= 5 /\ f.doff >= 5
                           /\ Headers(f) <= f.data_len
<1> DEFINE i == f.ihl
           d == f.doff
           n == f.data_len
<1>1. i \in 0 .. 15 /\ d \in 0 .. 15 /\ n \in Nat
  BY FrameFields, U16Positive
<1>2. IhlBytes(f) = 4 * i /\ DoffBytes(f) = 4 * d /\ L4Off(f) = 14 + 4 * i
  BY Offsets
<1>3. f.proto = IPPROTO_TCP => DataOff(f) = 14 + 4 * i + 4 * d
  BY Offsets DEF Headers
<1>4. L3Ok(f) <=> f.ether_type = ETHER_TYPE_IPV4 /\ i >= 5 /\ n >= 14 + 4 * i
  <2>1. L3Ok(f) <=> /\ n >= 14 /\ f.ether_type = ETHER_TYPE_IPV4 /\ n >= 34
                    /\ 4 * i >= 20 /\ n >= 14 + 4 * i
    BY <1>2 DEF L3Ok, EtherHdr, Ipv4Hdr
  <2> HIDE DEF i, d, n
  <2> QED  BY <1>1, <2>1, Sums
<1>5. f.proto = IPPROTO_TCP => (L4Ok(f) <=> n >= 34 + 4 * i /\ d >= 5)
  <2>1. f.proto = IPPROTO_TCP => (L4Ok(f) <=> n >= 14 + 4 * i + 20 /\ 4 * d >= 20)
    BY <1>2 DEF L4Ok, IPPROTO_TCP, IPPROTO_UDP, TcpHdr
  <2> HIDE DEF i, d, n
  <2> QED  BY <1>1, <2>1, Sums
<1>6. f.proto = IPPROTO_TCP => (~(DataOff(f) > n) <=> 14 + 4 * i + 4 * d <= n)
  <2> HIDE DEF i, d, n
  <2> QED  BY <1>1, <1>3, Sums
<1>7. Accepted(f) <=> /\ f.ether_type = ETHER_TYPE_IPV4
                      /\ f.proto = IPPROTO_TCP
                      /\ f.dst_port \in {HTTP_PORT, HTTPS_PORT}
                      /\ i >= 5 /\ d >= 5
                      /\ 14 + 4 * i + 4 * d <= n
  <2>1. Accepted(f) <=> /\ L3Ok(f) /\ L4Ok(f) /\ f.proto = IPPROTO_TCP
                        /\ f.dst_port \in {HTTP_PORT, HTTPS_PORT}
                        /\ ~(DataOff(f) > n)
    BY DEF Accepted
  <2> HIDE DEF i, d, n
  <2> QED  BY <1>1, <1>4, <1>5, <1>6, <2>1, Sums
<1> QED  BY <1>7 DEF Headers

(* The payload of an accepted frame is exactly what lies behind its        *)
(* headers: it begins and ends inside of the frame, and its unsigned       *)
(* 16-bit length never wraps.                                              *)
THEOREM PayloadInside ==
    ASSUME NEW f \in Frame, Accepted(f)
    PROVE  /\ Parsed(f).payload = Headers(f)
           /\ Parsed(f).payload_len \in Nat
           /\ Parsed(f).payload + Parsed(f).payload_len = f.data_len
<1> DEFINE h == Headers(f)
           n == f.data_len
<1>1. h \in Nat /\ n \in 0 .. U16 - 1
  BY FrameFields DEF Headers
<1>2. DataOff(f) = h /\ h <= n
  BY Offsets, AcceptedExact DEF Accepted
<1>3. Parsed(f).payload = h /\ Parsed(f).payload_len = (n - h) % U16
  BY <1>2 DEF Parsed
<1>4. (n - h) % U16 = n - h /\ n - h \in Nat /\ h + (n - h) = n
  <2> HIDE DEF h, n
  <2> QED  BY <1>1, <1>2, U16Positive, NoWrap
<1> QED  BY <1>3, <1>4

-----------------------------------------------------------------------------
(* Minima and sequences *)

LEMMA MinNat ==
    ASSUME NEW S \in SUBSET Nat, S # {}
    PROVE  Min(S) \in S /\ \A y \in S : Min(S) <= y
<1>1. \E x \in S : \A y \in S : x <= y
    BY LeastNat
<1> QED BY <1>1, Zenon DEF Min

LEMMA MinIs ==
    ASSUME NEW S \in SUBSET Nat, NEW x \in S, \A y \in S : x <= y
    PROVE  Min(S) = x
<1>1. Min(S) \in S /\ \A y \in S : Min(S) <= y
    BY MinNat
<1>2. Min(S) <= x /\ x <= Min(S) /\ x \in Nat /\ Min(S) \in Nat
    BY <1>1
<1> QED BY <1>2

(* t is s with more of the stream behind it. *)
Extends(s, t) == /\ s \in Seq(Nat) /\ t \in Seq(Nat)
                 /\ Len(s) <= Len(t)
                 /\ \A i \in 1 .. Len(s) : t[i] = s[i]

LEMMA SubSeqSame ==
    ASSUME NEW s, NEW t, Extends(s, t), NEW a \in Nat \ {0}, NEW b \in Nat, b <= Len(s)
    PROVE  SubSeq(t, a, b) = SubSeq(s, a, b)
<1>1. s \in Seq(Nat) /\ t \in Seq(Nat) /\ Len(s) \in Nat /\ Len(s) <= Len(t) /\ Len(t) \in Nat
    BY DEF Extends
<1>2. ASSUME NEW i \in 1 .. b - a + 1 PROVE t[i + a - 1] = s[i + a - 1]
    BY <1>1, <1>2 DEF Extends
<1> DEFINE n == b - a + 1
<1>3. SubSeq(t, a, b) = [i \in 1 .. n |-> t[i + a - 1]]
    BY <1>1
<1>4. SubSeq(s, a, b) = [i \in 1 .. n |-> s[i + a - 1]]
    BY <1>1
<1> QED BY <1>2, <1>3, <1>4

LEMMA SubSeqNat ==
    ASSUME NEW s \in Seq(Nat), NEW a \in Nat \ {0}, NEW b \in Nat, b <= Len(s)
    PROVE  /\ SubSeq(s, a, b) \in Seq(Nat)
           /\ Len(SubSeq(s, a, b)) = IF b >= a THEN b - a + 1 ELSE 0
           /\ \A i \in 1 .. b - a + 1 : SubSeq(s, a, b)[i] = s[a + i - 1]
    OBVIOUS

LEMMA FirstCells ==
    ASSUME NEW s \in Seq(Nat), NEW m \in 0 .. Len(s)
    PROVE  /\ SubSeq(s, 1, m) \in Seq(Nat) /\ Len(SubSeq(s, 1, m)) = m
           /\ \A i \in 1 .. m : SubSeq(s, 1, m)[i] = s[i]
    OBVIOUS

LEMMA Pair ==
    ASSUME NEW u \in Seq(Nat), Len(u) = 2, NEW a \in Nat, NEW b \in Nat
    PROVE  u = <<a, b>> <=> u[1] = a /\ u[2] = b
<1>1. DOMAIN u = 1 .. 2 /\ DOMAIN <<a, b>> = 1 .. 2
    OBVIOUS
<1>2. <<a, b>>[1] = a /\ <<a, b>>[2] = b /\ <<a, b>> \in Seq(Nat)
    OBVIOUS
<1>3. ASSUME u[1] = a, u[2] = b PROVE u = <<a, b>>
  <2>1. \A i \in 1 .. 2 : u[i] = <<a, b>>[i]
      BY <1>2, <1>3
  <2> QED BY <1>1, <1>2, <2>1
<1> QED BY <1>2, <1>3

-----------------------------------------------------------------------------
(* HTTP *)

(* The position of the first zero byte, or the one behind the last. *)
ZeroAt(s) == Min({i \in 1 .. Len(s) : s[i] = ZERO} \cup {Len(s) + 1})

LEMMA ZeroAtIs ==
    ASSUME NEW s \in Seq(Nat)
    PROVE  /\ ZeroAt(s) \in 1 .. Len(s) + 1
           /\ ZeroAt(s) <= Len(s) => s[ZeroAt(s)] = ZERO
           /\ \A i \in 1 .. ZeroAt(s) - 1 : s[i] # ZERO
<1> DEFINE S == {i \in 1 .. Len(s) : s[i] = ZERO} \cup {Len(s) + 1}
<1>1. S \in SUBSET Nat /\ S # {}
    OBVIOUS
<1>2. Min(S) \in S /\ \A y \in S : Min(S) <= y
    BY <1>1, MinNat
<1>3. ZeroAt(s) = Min(S)
    BY DEF ZeroAt
<1> DEFINE z == Min(S)
<1>4. z \in 1 .. Len(s) + 1 /\ (z <= Len(s) => s[z] = ZERO)
    BY <1>2
<1>5. ASSUME NEW i \in 1 .. z - 1, s[i] = ZERO PROVE FALSE
  <2>1. i \in 1 .. Len(s)
      BY <1>4
  <2>2. i \in S
      BY <1>5, <2>1
  <2>3. z <= i
      BY <1>2, <2>2
  <2> HIDE DEF z
  <2> QED BY <1>4, <2>3
<1> QED BY <1>3, <1>4, <1>5

(* More of the stream leaves the C string alone or makes it longer. *)
LEMMA CStringExtends ==
    ASSUME NEW s, NEW t, Extends(s, t)
    PROVE  Extends(CString(s), CString(t))
<1>1. s \in Seq(Nat) /\ t \in Seq(Nat) /\ Len(s) \in Nat /\ Len(s) <= Len(t) /\ Len(t) \in Nat
    BY DEF Extends
<1>2. PICK y \in Nat : y = ZeroAt(s) /\ y \in 1 .. Len(s) + 1 /\ (y <= Len(s) => s[y] = ZERO)
                       /\ \A i \in 1 .. y - 1 : s[i] # ZERO
  <2>1. ZeroAt(s) \in Nat
      BY <1>1, ZeroAtIs
  <2> QED BY <1>1, <2>1, ZeroAtIs, Zenon
<1>3. PICK z \in Nat : z = ZeroAt(t) /\ z \in 1 .. Len(t) + 1 /\ (z <= Len(t) => t[z] = ZERO)
                       /\ \A i \in 1 .. z - 1 : t[i] # ZERO
  <2>1. ZeroAt(t) \in Nat
      BY <1>1, ZeroAtIs
  <2> QED BY <1>1, <2>1, ZeroAtIs, Zenon
<1>4. CString(s) = SubSeq(s, 1, y - 1) /\ CString(t) = SubSeq(t, 1, z - 1)
    BY <1>2, <1>3 DEF CString, ZeroAt
<1>5. y <= z
  <2> SUFFICES ASSUME z < y PROVE FALSE
      BY <1>2, <1>3
  <2>1. z \in 1 .. y - 1 /\ z \in 1 .. Len(s) /\ z <= Len(t)
      BY <1>1, <1>2, <1>3
  <2>2. t[z] = s[z]
      BY <2>1 DEF Extends
  <2> QED BY <1>2, <1>3, <2>1, <2>2
<1>6. /\ SubSeq(s, 1, y - 1) \in Seq(Nat) /\ Len(SubSeq(s, 1, y - 1)) = y - 1
      /\ \A i \in 1 .. y - 1 : SubSeq(s, 1, y - 1)[i] = s[i]
  <2>1. y - 1 \in 0 .. Len(s)
      BY <1>1, <1>2
  <2> QED BY <1>1, <2>1, FirstCells
<1>7. /\ SubSeq(t, 1, z - 1) \in Seq(Nat) /\ Len(SubSeq(t, 1, z - 1)) = z - 1
      /\ \A i \in 1 .. z - 1 : SubSeq(t, 1, z - 1)[i] = t[i]
  <2>1. z - 1 \in 0 .. Len(t)
      BY <1>1, <1>3
  <2> QED BY <1>1, <2>1, FirstCells
<1>8. \A i \in 1 .. y - 1 : i \in 1 .. Len(s) /\ i \in 1 .. z - 1
  <2>1. PICK n \in Nat : n = Len(s)
      BY <1>1
  <2>2. \A i \in 1 .. y - 1 : i \in 1 .. n /\ i \in 1 .. z - 1
      BY <1>2, <1>5, <2>1
  <2> QED BY <2>1, <2>2
<1>9. \A i \in 1 .. y - 1 : t[i] = s[i]
    BY <1>8 DEF Extends
<1> QED BY <1>4, <1>5, <1>6, <1>7, <1>8, <1>9 DEF Extends

(* What is found stays found, at its place. *)
LEMMA FirstInSame ==
    ASSUME NEW s, NEW t, Extends(s, t), NEW lo \in Nat \ {0}, NEW S, FirstIn(s, lo, S) # 0
    PROVE  FirstIn(t, lo, S) = FirstIn(s, lo, S) /\ FirstIn(s, lo, S) \in lo .. Len(s)
<1>1. s \in Seq(Nat) /\ t \in Seq(Nat) /\ Len(s) \in Nat /\ Len(s) <= Len(t) /\ Len(t) \in Nat
    BY DEF Extends
<1> DEFINE H == {i \in lo .. Len(s) : s[i] \in S}
           K == {i \in lo .. Len(t) : t[i] \in S}
<1>2. H # {} /\ FirstIn(s, lo, S) = Min(H)
    BY DEF FirstIn
<1>3. PICK x : x = Min(H)
    OBVIOUS
<1>4. x \in H /\ \A y \in H : x <= y
  <2>1. H \in SUBSET Nat
      BY <1>1
  <2> HIDE DEF H
  <2> QED BY <1>2, <1>3, <2>1, MinNat
<1>5. \A i \in lo .. Len(s) : i \in 1 .. Len(s)
    BY <1>1
<1>6. \A i \in lo .. Len(s) : t[i] = s[i]
    BY <1>5 DEF Extends
<1>7. x \in K
    BY <1>1, <1>4, <1>6
<1>0. x \in Nat /\ x <= Len(s)
    BY <1>1, <1>4
<1>8. \A y \in K : x <= y
  <2>0. K \subseteq Int
      OBVIOUS
  <2> SUFFICES ASSUME NEW y \in K, y < x PROVE FALSE
      BY <1>0, <2>0
  <2>1. y \in lo .. Len(s)
      BY <1>0, <1>1
  <2>2. y \in H
    <3>1. t[y] \in S
        OBVIOUS
    <3> QED BY <1>6, <2>1, <3>1
  <2>3. x <= y
      BY <1>4, <2>2, Zenon
  <2> QED BY <1>0, <1>1, <2>1, <2>3
<1>9. K \in SUBSET Nat
    BY <1>1
<1>10. Min(K) = x
    BY <1>7, <1>8, <1>9, MinIs
<1>11. FirstIn(t, lo, S) = Min(K)
    BY <1>7 DEF FirstIn
<1> QED BY <1>2, <1>3, <1>4, <1>10, <1>11

LEMMA SkipSpacesSame ==
    ASSUME NEW s, NEW t, Extends(s, t), NEW lo \in Nat \ {0}, lo <= Len(s) + 1
    PROVE  /\ SkipSpaces(s, lo) \in lo .. Len(s) + 1
           /\ SkipSpaces(s, lo) <= Len(s) => SkipSpaces(t, lo) = SkipSpaces(s, lo)
<1>1. s \in Seq(Nat) /\ t \in Seq(Nat) /\ Len(s) \in Nat /\ Len(s) <= Len(t) /\ Len(t) \in Nat
    BY DEF Extends
<1> DEFINE H == {i \in lo .. Len(s) : s[i] # SP} \cup {Len(s) + 1}
           K == {i \in lo .. Len(t) : t[i] # SP} \cup {Len(t) + 1}
<1>2. SkipSpaces(s, lo) = Min(H) /\ SkipSpaces(t, lo) = Min(K)
    BY DEF SkipSpaces
<1>3. PICK x : x = Min(H)
    OBVIOUS
<1>4. x \in H /\ \A y \in H : x <= y
  <2>1. H \in SUBSET Nat /\ H # {}
      BY <1>1
  <2> QED BY <1>3, <2>1, MinNat
<1>5. \A i \in lo .. Len(s) : i \in 1 .. Len(s)
    BY <1>1
<1>6. \A i \in lo .. Len(s) : t[i] = s[i]
    BY <1>5 DEF Extends
<1>7. ASSUME x <= Len(s) PROVE Min(K) = x
  <2>1. x \in lo .. Len(s) /\ s[x] # SP
      BY <1>1, <1>4, <1>7
  <2>2. x \in K
      BY <1>1, <1>6, <2>1
  <2>3. \A y \in K : x <= y
    <3> SUFFICES ASSUME NEW y \in K, y < x PROVE FALSE
        BY <1>1, <2>1
    <3>1. y \in lo .. Len(s)
        BY <1>1, <2>1
    <3>2. y \in H
      <4>1. t[y] # SP
          BY <1>1, <2>1
      <4> QED BY <1>6, <3>1, <4>1
    <3> QED BY <1>1, <1>4, <3>2
  <2>4. K \in SUBSET Nat
      BY <1>1
  <2> QED BY <2>2, <2>3, <2>4, MinIs
<1>8. x \in lo .. Len(s) + 1
    BY <1>1, <1>4
<1> QED BY <1>2, <1>3, <1>7, <1>8

(* try_extract_http() on the C string. *)
HttpOf(str) ==
    LET method   == Len(str) >= 2 /\ str[1] = METHOD /\ str[2] = SP
        sp2      == FirstIn(str, 3, {SP})
        host_hdr == FirstIn(str, 1, {HOST})
        host_val == SkipSpaces(str, host_hdr + 1)
        host_end == FirstIn(str, host_val, {EOL, HOST})
    IN  IF ~method \/ sp2 = 0 \/ host_hdr = 0 \/ host_end = 0 THEN Pending
        ELSE Found(ScanBuf(SubSeq(str, host_val, host_end - 1)
                           \o SubSeq(str, 3, sp2 - 1)))

LEMMA HttpOfSame ==
    ASSUME NEW p, NEW q, Extends(p, q), HttpOf(p) # Pending
    PROVE  HttpOf(q) = HttpOf(p)
<1>1. p \in Seq(Nat) /\ q \in Seq(Nat) /\ Len(p) \in Nat /\ Len(p) <= Len(q) /\ Len(q) \in Nat
    BY DEF Extends
<1>2. /\ Len(p) >= 2 /\ p[1] = METHOD /\ p[2] = SP
      /\ FirstIn(p, 3, {SP}) # 0 /\ FirstIn(p, 1, {HOST}) # 0
      /\ FirstIn(p, SkipSpaces(p, FirstIn(p, 1, {HOST}) + 1), {EOL, HOST}) # 0
    BY DEF HttpOf
<1>3. Len(q) >= 2 /\ q[1] = METHOD /\ q[2] = SP
  <2>1. 1 \in 1 .. Len(p) /\ 2 \in 1 .. Len(p) /\ Len(q) >= 2
      BY <1>1, <1>2
  <2>2. q[1] = p[1] /\ q[2] = p[2]
      BY <2>1, Zenon DEF Extends
  <2> QED BY <1>2, <2>1, <2>2, Zenon
<1>4. PICK sp2 \in Nat : sp2 = FirstIn(p, 3, {SP}) /\ sp2 = FirstIn(q, 3, {SP}) /\ sp2 \in 3 .. Len(p)
  <2>1. FirstIn(q, 3, {SP}) = FirstIn(p, 3, {SP}) /\ FirstIn(p, 3, {SP}) \in 3 .. Len(p)
      BY <1>2, FirstInSame
  <2> QED BY <1>1, <2>1
<1>5. PICK hdr \in Nat : /\ hdr = FirstIn(p, 1, {HOST}) /\ hdr = FirstIn(q, 1, {HOST})
                         /\ hdr \in 1 .. Len(p)
  <2>1. FirstIn(q, 1, {HOST}) = FirstIn(p, 1, {HOST}) /\ FirstIn(p, 1, {HOST}) \in 1 .. Len(p)
      BY <1>2, FirstInSame
  <2> QED BY <1>1, <2>1
<1>6. PICK val \in Nat : /\ val = SkipSpaces(p, hdr + 1) /\ val \in hdr + 1 .. Len(p) + 1
                         /\ val <= Len(p) => val = SkipSpaces(q, hdr + 1)
  <2>1. hdr + 1 \in Nat \ {0} /\ hdr + 1 <= Len(p) + 1
      BY <1>1, <1>5
  <2>2. /\ SkipSpaces(p, hdr + 1) \in hdr + 1 .. Len(p) + 1
        /\ SkipSpaces(p, hdr + 1) <= Len(p) => SkipSpaces(q, hdr + 1) = SkipSpaces(p, hdr + 1)
      BY <2>1, SkipSpacesSame
  <2> QED BY <1>1, <1>5, <2>2
<1>7. PICK end \in Nat : /\ end = FirstIn(p, val, {EOL, HOST}) /\ end = FirstIn(q, val, {EOL, HOST})
                         /\ end \in val .. Len(p)
  <2>1. val \in Nat \ {0}
      BY <1>5, <1>6
  <2>2. FirstIn(p, val, {EOL, HOST}) # 0
      BY <1>2, <1>5, <1>6
  <2>3. /\ FirstIn(q, val, {EOL, HOST}) = FirstIn(p, val, {EOL, HOST})
        /\ FirstIn(p, val, {EOL, HOST}) \in val .. Len(p)
      BY <2>1, <2>2, FirstInSame
  <2> QED BY <1>1, <2>3
<1>8. val = SkipSpaces(q, hdr + 1)
    BY <1>1, <1>6, <1>7
<1>9. /\ SubSeq(q, val, end - 1) = SubSeq(p, val, end - 1)
      /\ SubSeq(q, 3, sp2 - 1) = SubSeq(p, 3, sp2 - 1)
  <2>1. val >= hdr + 1 /\ hdr >= 1 /\ end >= val /\ end <= Len(p) /\ sp2 >= 3 /\ sp2 <= Len(p)
      BY <1>4, <1>5, <1>6, <1>7
  <2>2. /\ val \in Nat \ {0} /\ end - 1 \in Nat /\ end - 1 <= Len(p)
        /\ sp2 - 1 \in Nat /\ sp2 - 1 <= Len(p)
      BY <1>1, <2>1
  <2> QED BY <2>2, SubSeqSame
<1>10. HttpOf(p) = Found(ScanBuf(SubSeq(p, val, end - 1) \o SubSeq(p, 3, sp2 - 1)))
    BY <1>2, <1>4, <1>5, <1>6, <1>7 DEF HttpOf
<1>11. end # 0 /\ sp2 # 0 /\ hdr # 0
    BY <1>2, <1>4, <1>5, <1>6, <1>7
<1>12. HttpOf(q) = Found(ScanBuf(SubSeq(q, val, end - 1) \o SubSeq(q, 3, sp2 - 1)))
    BY <1>3, <1>4, <1>5, <1>7, <1>8, <1>11 DEF HttpOf
<1> QED BY <1>9, <1>10, <1>12

(* Host and URL, once found, stay what they are. *)
LEMMA HttpFinal ==
    ASSUME NEW s, NEW t, Extends(s, t), try_extract_http(s) # Pending
    PROVE  try_extract_http(t) = try_extract_http(s)
<1>1. try_extract_http(s) = HttpOf(CString(s)) /\ try_extract_http(t) = HttpOf(CString(t))
    BY Zenon DEF try_extract_http, HttpOf
<1> QED BY <1>1, CStringExtends, HttpOfSame

-----------------------------------------------------------------------------
(* TLS *)

(* One turn of the loop over the extensions, at offset o; f has the        *)
(* answers at the offsets behind it.                                       *)
Turn(s, e, f, o) ==
    IF o + 2 > e THEN NotPresent
    ELSE IF o + 2 + s[o + 1 + 1] > e THEN Pending
    ELSE IF s[o + 1] = ServerName THEN ServerNameAt(s, o + 2)
    ELSE f[o + 2 + s[o + 1 + 1]]

LEMMA TurnIs ==
    ASSUME NEW s, NEW e, NEW f, NEW o \in Nat
    PROVE  Turn(s, e, f, o) = IF o + 2 > e THEN NotPresent
                              ELSE IF o + 2 + s[o + 2] > e THEN Pending
                              ELSE IF s[o + 1] = ServerName THEN ServerNameAt(s, o + 2)
                              ELSE f[o + 2 + s[o + 2]]
<1>1. o + 1 + 1 = o + 2
    OBVIOUS
<1> QED BY <1>1, Zenon DEF Turn

(* f has the answers at d, ..., e. *)
Walk(s, e, d, f) == f = [o \in d .. e |-> Turn(s, e, f, o)]

LEMMA TurnLocal ==
    ASSUME NEW s \in Seq(Nat), NEW e \in Nat, e <= Len(s), NEW o \in 0 .. e, NEW f, NEW g,
           \A i \in o + 1 .. e : f[i] = g[i]
    PROVE  Turn(s, e, f, o) = Turn(s, e, g, o)
<1>1. CASE o + 2 > e
    BY <1>1 DEF Turn
<1>2. CASE ~(o + 2 > e)
  <2>1. o + 2 \in 1 .. Len(s)
      BY <1>2
  <2>2. PICK c \in Nat : c = s[o + 2]
      BY <2>1
  <2>3. o + 2 + c > e \/ o + 2 + c \in o + 1 .. e
      BY <1>2
  <2>4. o + 2 + c > e \/ f[o + 2 + c] = g[o + 2 + c]
      BY <2>3
  <2>8. o + 1 + 1 = o + 2
      OBVIOUS
  <2>6. CASE o + 2 + c > e
    <3>1. Turn(s, e, f, o) = Pending /\ Turn(s, e, g, o) = Pending
        BY <1>2, <2>2, <2>6, <2>8, Zenon DEF Turn
    <3> QED BY <3>1
  <2>7. CASE ~(o + 2 + c > e)
    <3>1. f[o + 2 + c] = g[o + 2 + c]
        BY <2>4, <2>7
    <3>2. CASE s[o + 1] = ServerName
      <4>1. Turn(s, e, f, o) = ServerNameAt(s, o + 2)
          BY <1>2, <2>2, <2>7, <2>8, <3>2, Zenon DEF Turn
      <4>2. Turn(s, e, g, o) = ServerNameAt(s, o + 2)
          BY <1>2, <2>2, <2>7, <2>8, <3>2, Zenon DEF Turn
      <4> QED BY <4>1, <4>2
    <3>3. CASE s[o + 1] # ServerName
      <4>1. Turn(s, e, f, o) = f[o + 2 + c]
          BY <1>2, <2>2, <2>7, <2>8, <3>3, Zenon DEF Turn
      <4>2. Turn(s, e, g, o) = g[o + 2 + c]
          BY <1>2, <2>2, <2>7, <2>8, <3>3, Zenon DEF Turn
      <4> QED BY <3>1, <4>1, <4>2
    <3> QED BY <3>2, <3>3
  <2> QED BY <2>6, <2>7
<1> QED BY <1>1, <1>2

(* The loop ends: the answers exist. *)
LEMMA WalkExists ==
    ASSUME NEW s \in Seq(Nat), NEW e \in Nat, e <= Len(s)
    PROVE  \E f : Walk(s, e, 0, f)
<1> DEFINE G == {k \in 0 .. e : \E f : Walk(s, e, e - k, f)}
<1>1. 0 \in G
  <2> DEFINE f == [o \in e - 0 .. e |-> NotPresent]
  <2>1. \A o \in e - 0 .. e : o \in Int /\ o = e /\ o + 2 > e
      OBVIOUS
  <2>2. \A o \in e - 0 .. e : Turn(s, e, f, o) = NotPresent
      BY <2>1 DEF Turn
  <2>3. Walk(s, e, e - 0, f)
      BY <2>2 DEF Walk
  <2> QED BY <2>3
<1>2. ASSUME NEW k \in 0 .. e - 1, k \in G PROVE k + 1 \in G
  <2>1. PICK f : Walk(s, e, e - k, f)
      BY <1>2
  <2>2. PICK d \in 0 .. e : d = e - (k + 1) /\ d + 1 = e - k
      OBVIOUS
  <2> DEFINE g == [o \in d .. e |-> IF o = d THEN Turn(s, e, f, d) ELSE f[o]]
  <2>3. \A i \in d + 1 .. e : f[i] = g[i]
      BY <2>2
  <2>4. ASSUME NEW o \in d .. e PROVE g[o] = Turn(s, e, g, o)
    <3>1. o \in 0 .. e /\ \A i \in o + 1 .. e : i \in d + 1 .. e
        BY <2>2, <2>4
    <3>2. Turn(s, e, f, o) = Turn(s, e, g, o)
        BY <2>3, <3>1, TurnLocal
    <3>3. CASE o = d
        BY <3>2, <3>3
    <3>4. CASE o # d
      <4>1. o \in e - k .. e
          BY <2>2, <2>4, <3>4
      <4>2. f[o] = Turn(s, e, f, o)
          BY <2>1, <4>1 DEF Walk
      <4> QED BY <3>2, <3>4, <4>2
    <3> QED BY <3>3, <3>4
  <2>5. Walk(s, e, d, g)
      BY <2>4 DEF Walk
  <2>6. Walk(s, e, e - (k + 1), g)
      BY <2>2, <2>5
  <2>7. k + 1 \in 0 .. e
      OBVIOUS
  <2> QED BY <2>6, <2>7
<1>3. e \in G
  <2>1. \A k \in 0 .. e : k \in G
      BY <1>1, <1>2, UpTo
  <2>2. e \in 0 .. e
      OBVIOUS
  <2> QED BY <2>1, <2>2, Zenon
<1>4. e - e = 0
    OBVIOUS
<1> QED BY <1>3, <1>4

(* WalkExtensions() is the answer at its start. *)
LEMMA WalkIs ==
    ASSUME NEW s \in Seq(Nat), NEW e \in Nat, e <= Len(s), NEW start
    PROVE  \E f : Walk(s, e, 0, f) /\ WalkExtensions(s, start, e) = f[start]
<1> DEFINE f == CHOOSE f : Walk(s, e, 0, f)
<1>1. Walk(s, e, 0, f)
    BY WalkExists
<1>2. WalkExtensions(s, start, e) = f[start]
    BY Zenon DEF WalkExtensions, Walk, Turn
<1> QED BY <1>1, <1>2

(* Induction from e down to 0. *)
LEMMA Downwards ==
    ASSUME NEW e \in Nat, NEW G, \A o \in 0 .. e : (\A i \in o + 1 .. e : i \in G) => o \in G
    PROVE  \A o \in 0 .. e : o \in G
<1> SUFFICES ASSUME NEW o \in 0 .. e, o \notin G PROVE FALSE
    OBVIOUS
<1> DEFINE B == {k \in 0 .. e : e - k \notin G}
<1>1. e - o \in 0 .. e /\ e - (e - o) = o
    OBVIOUS
<1>2. B \in SUBSET Nat /\ B # {}
  <2>1. e - o \in B
      BY <1>1
  <2>2. B \in SUBSET Nat
      OBVIOUS
  <2> HIDE DEF B
  <2> QED BY <2>1, <2>2
<1>3. PICK x \in B : \A y \in B : x <= y
    BY <1>2, LeastNat
<1>4. ASSUME NEW i \in (e - x) + 1 .. e, i \notin G PROVE FALSE
  <2>1. e - i \in 0 .. e /\ e - (e - i) = i /\ e - i < x
      BY <1>3, <1>4
  <2>2. e - i \in B
      BY <1>4, <2>1
  <2> QED BY <1>3, <2>1, <2>2
<1>5. e - x \in 0 .. e /\ e - x \notin G
    BY <1>3
<1> QED BY <1>4, <1>5

(* A name that has arrived stays; it is never "not present". *)
LEMMA ServerNameSame ==
    ASSUME NEW s, NEW t, Extends(s, t), NEW p \in Nat
    PROVE  /\ ServerNameAt(s, p) # Pending => ServerNameAt(t, p) = ServerNameAt(s, p)
           /\ ServerNameAt(s, p).res # "NOT_PRESENT"
<1>1. s \in Seq(Nat) /\ t \in Seq(Nat) /\ Len(s) \in Nat /\ Len(s) <= Len(t) /\ Len(t) \in Nat
    BY DEF Extends
<1>2. ServerNameAt(s, p).res # "NOT_PRESENT"
    BY DEF ServerNameAt, Pending, Found
<1>3. ASSUME ServerNameAt(s, p) # Pending PROVE ServerNameAt(t, p) = ServerNameAt(s, p)
  <2>0. ServerNameAt(s, p) = Found(ScanBuf(CString(SubSeq(s, p + 4, p + 3 + s[p + 2 + 1]))))
      BY <1>3, Zenon DEF ServerNameAt
  <2>1. ~(p + 3 > Len(s)) /\ ~(s[p + 1 + 1] # HostName) /\ ~(p + 3 + s[p + 2 + 1] > Len(s))
      BY <1>3, Zenon DEF ServerNameAt
  <2>2. p + 1 + 1 \in 1 .. Len(s) /\ p + 2 + 1 \in 1 .. Len(s)
    <3>1. PICK n \in Nat : n = Len(s)
        BY <1>1
    <3>2. ~(p + 3 > n)
        BY <2>1, <3>1
    <3>3. p + 1 + 1 \in 1 .. n /\ p + 2 + 1 \in 1 .. n
        BY <3>2
    <3> QED BY <3>1, <3>3
  <2>3. t[p + 1 + 1] = s[p + 1 + 1] /\ t[p + 2 + 1] = s[p + 2 + 1]
      BY <2>2 DEF Extends
  <2>4. PICK c \in Nat : c = s[p + 2 + 1]
      BY <1>1, <2>2
  <2>5. ~(p + 3 > Len(t)) /\ p + 3 + c <= Len(s) /\ ~(p + 3 + c > Len(t))
    <3>1. PICK n \in Nat, m \in Nat : n = Len(s) /\ m = Len(t) /\ n <= m
        BY <1>1
    <3>2. ~(p + 3 > n) /\ ~(p + 3 + c > n)
        BY <2>1, <2>4, <3>1
    <3>3. ~(p + 3 > m) /\ p + 3 + c <= n /\ ~(p + 3 + c > m)
        BY <3>1, <3>2
    <3> QED BY <3>1, <3>3
  <2>6. SubSeq(t, p + 4, p + 3 + c) = SubSeq(s, p + 4, p + 3 + c)
    <3>1. p + 4 \in Nat \ {0} /\ p + 3 + c \in Nat
        OBVIOUS
    <3> QED BY <2>5, <3>1, SubSeqSame
  <2>7. ServerNameAt(t, p) = Found(ScanBuf(CString(SubSeq(t, p + 4, p + 3 + t[p + 2 + 1]))))
      BY <2>1, <2>3, <2>4, <2>5, Zenon DEF ServerNameAt
  <2> QED BY <2>0, <2>3, <2>4, <2>6, <2>7
<1> QED BY <1>2, <1>3

(* What the loop has decided, it decides on a longer stream too. *)
LEMMA WalkSame ==
    ASSUME NEW s, NEW t, Extends(s, t), NEW e \in Nat, e <= Len(s), NEW start \in 0 .. e,
           WalkExtensions(s, start, e) # Pending
    PROVE  WalkExtensions(t, start, e) = WalkExtensions(s, start, e)
<1>1. s \in Seq(Nat) /\ t \in Seq(Nat) /\ Len(s) \in Nat /\ Len(s) <= Len(t) /\ Len(t) \in Nat
      /\ e <= Len(t)
    BY DEF Extends
<1>2. PICK f : Walk(s, e, 0, f) /\ WalkExtensions(s, start, e) = f[start]
    BY <1>1, WalkIs
<1>3. PICK g : Walk(t, e, 0, g) /\ WalkExtensions(t, start, e) = g[start]
    BY <1>1, WalkIs
<1> DEFINE Same(o) == f[o] # Pending => g[o] = f[o]
           G == {o \in 0 .. e : Same(o)}
<1>4. ASSUME NEW o \in 0 .. e, \A i \in o + 1 .. e : Same(i) PROVE Same(o)
  <2> SUFFICES ASSUME f[o] # Pending PROVE g[o] = f[o]
      OBVIOUS
  <2>0. o \in Nat
      OBVIOUS
  <2>1. f[o] = IF o + 2 > e THEN NotPresent
               ELSE IF o + 2 + s[o + 2] > e THEN Pending
               ELSE IF s[o + 1] = ServerName THEN ServerNameAt(s, o + 2)
               ELSE f[o + 2 + s[o + 2]]
    <3>1. f[o] = Turn(s, e, f, o)
        BY <1>2 DEF Walk
    <3> QED BY <2>0, <3>1, TurnIs
  <2>2. g[o] = IF o + 2 > e THEN NotPresent
               ELSE IF o + 2 + t[o + 2] > e THEN Pending
               ELSE IF t[o + 1] = ServerName THEN ServerNameAt(t, o + 2)
               ELSE g[o + 2 + t[o + 2]]
    <3>1. g[o] = Turn(t, e, g, o)
        BY <1>3 DEF Walk
    <3> QED BY <2>0, <3>1, TurnIs
  <2>3. CASE o + 2 > e
      BY <2>1, <2>2, <2>3
  <2>4. CASE ~(o + 2 > e)
    <3>1. o + 1 \in 1 .. Len(s) /\ o + 2 \in 1 .. Len(s) /\ o + 2 \in Nat
        BY <1>1, <2>4
    <3>2. t[o + 1] = s[o + 1] /\ t[o + 2] = s[o + 2]
        BY <3>1 DEF Extends
    <3>3. PICK c \in Nat : c = s[o + 2]
      <4>1. s \in Seq(Nat)
          BY <1>1
      <4>2. s[o + 2] \in Nat
          BY <3>1, <4>1
      <4> QED BY <4>2
    <3>4. ~(o + 2 + c > e)
        BY <2>1, <2>4, <3>3
    <3>5. o + 2 + c \in o + 1 .. e
        BY <3>4
    <3>6. Same(o + 2 + c)
        BY <1>4, <3>5
    <3>7. CASE s[o + 1] = ServerName
      <4>1. f[o] = ServerNameAt(s, o + 2) /\ g[o] = ServerNameAt(t, o + 2)
          BY <2>1, <2>2, <2>4, <3>2, <3>3, <3>4, <3>7
      <4> QED BY <3>1, <4>1, ServerNameSame
    <3>8. CASE s[o + 1] # ServerName
      <4>1. f[o] = f[o + 2 + c] /\ g[o] = g[o + 2 + c]
          BY <2>1, <2>2, <2>4, <3>2, <3>3, <3>4, <3>8
      <4> QED BY <3>6, <4>1
    <3> QED BY <3>7, <3>8
  <2> QED BY <2>3, <2>4
<1> HIDE DEF Same
<1>5. ASSUME NEW o \in 0 .. e, \A i \in o + 1 .. e : i \in G PROVE o \in G
    BY <1>4, <1>5
<1>6. \A o \in 0 .. e : o \in G
    BY <1>5, Downwards
<1>7. Same(start)
    BY <1>6
<1> QED BY <1>2, <1>3, <1>7 DEF Same

(* A field that has arrived is skipped in the same way. *)
LEMMA SkipFieldIs ==
    ASSUME NEW s, NEW t, Extends(s, t), NEW o \in Int, SkipField(s, o) # -1
    PROVE  /\ o \in Nat /\ SkipField(s, o) \in Nat
           /\ o + 1 <= SkipField(s, o) /\ SkipField(s, o) <= Len(s)
           /\ SkipField(t, o) = SkipField(s, o)
<1>1. s \in Seq(Nat) /\ t \in Seq(Nat)
    BY DEF Extends
<1>2. PICK n \in Nat, m \in Nat : n = Len(s) /\ m = Len(t) /\ n <= m
    BY <1>1 DEF Extends
<1>3. o >= 0 /\ o + 1 <= n
    BY <1>2 DEF SkipField
<1>4. o + 1 \in 1 .. Len(s)
    BY <1>2, <1>3
<1>5. PICK c \in Nat : c = s[o + 1] /\ c = t[o + 1]
  <2>1. s[o + 1] \in Nat
      BY <1>1, <1>4
  <2>2. t[o + 1] = s[o + 1]
      BY <1>4, Zenon DEF Extends
  <2> QED BY <2>1, <2>2
<1>6. o + 1 + c <= n /\ SkipField(s, o) = o + 1 + c
    BY <1>2, <1>3, <1>5 DEF SkipField
<1>7. o \in Nat /\ o + 1 + c \in Nat /\ o + 1 <= o + 1 + c /\ o + 1 + c <= n
    BY <1>3, <1>6
<1>8. ~(o < 0 \/ o + 1 > m) /\ ~(o + 1 + c > m)
    BY <1>2, <1>3, <1>6
<1>9. SkipField(t, o) = o + 1 + c
    BY <1>2, <1>5, <1>8 DEF SkipField
<1> QED BY <1>2, <1>6, <1>7, <1>9

LEMMA SkipFieldInt ==
    ASSUME NEW s, NEW t, Extends(s, t), NEW o \in Int
    PROVE  SkipField(s, o) \in Int /\ (SkipField(s, o) # -1 => o # -1)
<1>1. SkipField(s, o) = -1 \/ SkipField(s, o) # -1
    OBVIOUS
<1> QED BY <1>1, SkipFieldIs

(* The three fields in front of the extensions, and the extensions. *)
LEMMA ExtsIs ==
    ASSUME NEW s, NEW t, Extends(s, t), ExtEnd(s) # -1
    PROVE  /\ Exts(s) \in Nat /\ ExtEnd(s) \in Nat
           /\ 4 <= Exts(s) /\ Exts(s) <= ExtEnd(s) /\ ExtEnd(s) <= Len(s)
           /\ Exts(t) = Exts(s) /\ ExtEnd(t) = ExtEnd(s)
<1> DEFINE a == SkipField(s, 2)
           b == SkipField(s, a)
           c == SkipField(s, b)
<1>0. c \in Int /\ Exts(s) = c + 1
  <2>1. a \in Int
      BY SkipFieldInt
  <2>2. b \in Int
      BY <2>1, SkipFieldInt
  <2>3. c \in Int
      BY <2>2, SkipFieldInt
  <2> QED BY <2>3 DEF Exts
<1>1. c + 1 - 1 = c
    BY <1>0
<1>2. ExtEnd(s) = SkipField(s, c)
    BY <1>0, <1>1 DEF ExtEnd
<1>3. a \in Int /\ b \in Int
  <2>1. a \in Int
      BY SkipFieldInt
  <2> QED BY <2>1, SkipFieldInt
<1>4. c # -1
    BY <1>0, <1>2, SkipFieldInt
<1>5. b # -1
    BY <1>3, <1>4, SkipFieldInt
<1>6. a # -1
    BY <1>3, <1>5, SkipFieldInt
<1>7. 2 + 1 <= a /\ a \in Nat /\ SkipField(t, 2) = a
    BY <1>6, SkipFieldIs
<1>8. a + 1 <= b /\ b \in Nat /\ SkipField(t, a) = b
    BY <1>3, <1>5, SkipFieldIs
<1>9. b + 1 <= c /\ c \in Nat /\ SkipField(t, b) = c
    BY <1>3, <1>4, SkipFieldIs
<1>10. /\ c + 1 <= ExtEnd(s) /\ ExtEnd(s) <= Len(s) /\ ExtEnd(s) \in Nat
       /\ SkipField(t, c) = ExtEnd(s)
    BY <1>0, <1>2, SkipFieldIs
<1>11. Exts(t) = c + 1
    BY <1>7, <1>8, <1>9 DEF Exts
<1>12. ExtEnd(t) = ExtEnd(s)
  <2>1. ExtEnd(t) = SkipField(t, Exts(t) - 1)
      BY DEF ExtEnd
  <2>2. Exts(t) - 1 = c
      BY <1>0, <1>11
  <2> QED BY <1>10, <2>1, <2>2, Zenon
<1> HIDE DEF a, b, c
<1>13. 4 <= c + 1
    BY <1>7, <1>8, <1>9
<1> QED BY <1>0, <1>9, <1>10, <1>11, <1>12, <1>13

(* try_extract_tls_sni() in these terms. *)
IsClientHello(s) == ~(Len(s) < 2 \/ s[1] # HandshakeRecord \/ s[2] # ClientHello)

LEMMA SniIs ==
    ASSUME NEW s \in Seq(Nat)
    PROVE  try_extract_tls_sni(s) =
               IF ~IsClientHello(s) \/ ExtEnd(s) = -1 THEN Pending
               ELSE WalkExtensions(s, Exts(s), ExtEnd(s))
<1> DEFINE c == SkipField(s, SkipField(s, SkipField(s, 2)))
<1>0. Extends(s, s)
    BY DEF Extends
<1>1. c \in Int
  <2>1. SkipField(s, 2) \in Int
      BY <1>0, SkipFieldInt
  <2>2. SkipField(s, SkipField(s, 2)) \in Int
      BY <1>0, <2>1, SkipFieldInt
  <2> QED BY <1>0, <2>2, SkipFieldInt
<1>2. c + 1 - 1 = c
    BY <1>1
<1>3. Exts(s) = c + 1 /\ ExtEnd(s) = SkipField(s, c)
  <2>1. Exts(s) = c + 1
      BY DEF Exts
  <2>2. ExtEnd(s) = SkipField(s, Exts(s) - 1)
      BY DEF ExtEnd
  <2>3. Exts(s) - 1 = c
      BY <1>1, <2>1
  <2> QED BY <2>1, <2>2, <2>3, Zenon
<1>4. try_extract_tls_sni(s) =
          IF Len(s) < 2 \/ s[1] # HandshakeRecord \/ s[2] # ClientHello \/ SkipField(s, c) = -1
          THEN Pending ELSE WalkExtensions(s, c + 1, SkipField(s, c))
    BY Zenon DEF try_extract_tls_sni
<1> QED BY <1>3, <1>4, Zenon DEF IsClientHello

(* A server name, once found or known to be absent, stays so. *)
LEMMA SniFinal ==
    ASSUME NEW s, NEW t, Extends(s, t), try_extract_tls_sni(s) # Pending
    PROVE  try_extract_tls_sni(t) = try_extract_tls_sni(s)
<1>1. s \in Seq(Nat) /\ t \in Seq(Nat) /\ Len(s) \in Nat /\ Len(s) <= Len(t) /\ Len(t) \in Nat
    BY DEF Extends
<1>2. /\ IsClientHello(s) /\ ExtEnd(s) # -1
      /\ try_extract_tls_sni(s) = WalkExtensions(s, Exts(s), ExtEnd(s))
    BY <1>1, SniIs, Zenon
<1>3. PICK e \in Nat, x \in Nat :
          /\ e = ExtEnd(s) /\ e = ExtEnd(t) /\ e <= Len(s)
          /\ x = Exts(s) /\ x = Exts(t) /\ x <= e
    BY <1>2, ExtsIs
<1>4. IsClientHello(t)
  <2>1. Len(s) >= 2 /\ s[1] = HandshakeRecord /\ s[2] = ClientHello
      BY <1>1, <1>2 DEF IsClientHello
  <2>2. 1 \in 1 .. Len(s) /\ 2 \in 1 .. Len(s) /\ Len(t) >= 2
      BY <1>1, <2>1
  <2>3. t[1] = s[1] /\ t[2] = s[2]
      BY <2>2, Zenon DEF Extends
  <2> QED BY <1>1, <2>1, <2>2, <2>3 DEF IsClientHello
<1>5. e # -1 /\ x \in 0 .. e
    BY <1>3
<1>6. try_extract_tls_sni(t) = WalkExtensions(t, x, e)
    BY <1>1, <1>3, <1>4, <1>5, SniIs, Zenon
<1>7. WalkExtensions(s, x, e) # Pending
    BY <1>2, <1>3
<1> QED BY <1>2, <1>3, <1>5, <1>6, <1>7, WalkSame

(* The loop says "not present" exactly of a block without a server_name. *)
LEMMA WalkNameless ==
    ASSUME NEW s \in Seq(Nat), ExtEnd(s) # -1
    PROVE  WalkExtensions(s, Exts(s), ExtEnd(s)).res = "NOT_PRESENT" <=> Nameless(s)
<1>0. Extends(s, s) /\ Len(s) \in Nat
    BY DEF Extends
<1>1. PICK e \in Nat, x \in Nat : e = ExtEnd(s) /\ e <= Len(s) /\ x = Exts(s) /\ x <= e
    BY <1>0, ExtsIs
<1>2. PICK f : Walk(s, e, 0, f) /\ WalkExtensions(s, x, e) = f[x]
    BY <1>1, WalkIs
<1> DEFINE No(o) == f[o].res = "NOT_PRESENT"
<1>3. ASSUME NEW o \in 0 .. e
      PROVE  /\ o + 2 > e => No(o)
             /\ o + 2 <= e =>
                  (No(o) <=> /\ s[o + 1] # ServerName /\ o + 2 + s[o + 2] \in o + 1 .. e
                             /\ No(o + 2 + s[o + 2]))
  <2>1. f[o] = IF o + 2 > e THEN NotPresent
               ELSE IF o + 2 + s[o + 2] > e THEN Pending
               ELSE IF s[o + 1] = ServerName THEN ServerNameAt(s, o + 2)
               ELSE f[o + 2 + s[o + 2]]
    <3>1. f[o] = Turn(s, e, f, o)
        BY <1>2 DEF Walk
    <3> QED BY <3>1, TurnIs
  <2>2. CASE o + 2 > e
      BY <2>1, <2>2 DEF NotPresent
  <2>3. CASE o + 2 <= e
    <3>1. o + 2 \in 1 .. Len(s) /\ o + 2 \in Nat
        BY <1>0, <1>1, <2>3
    <3>2. PICK c \in Nat : c = s[o + 2]
        BY <3>1
    <3>3. ServerNameAt(s, o + 2).res # "NOT_PRESENT"
        BY <1>0, <3>1, ServerNameSame
    <3>4. Pending.res # "NOT_PRESENT"
        BY DEF Pending
    <3>5. (o + 2 + c \in o + 1 .. e) <=> ~(o + 2 + c > e)
        OBVIOUS
    <3>6. ~(o + 2 > e)
        BY <2>3
    <3>7. f[o] = IF o + 2 + c > e THEN Pending
                 ELSE IF s[o + 1] = ServerName THEN ServerNameAt(s, o + 2)
                 ELSE f[o + 2 + c]
        BY <2>1, <3>2, <3>6
    <3>8. No(o) <=> s[o + 1] # ServerName /\ o + 2 + c \in o + 1 .. e /\ No(o + 2 + c)
        BY <3>3, <3>4, <3>5, <3>7, Zenon
    <3> QED BY <3>2, <3>6, <3>8, Zenon
  <2> QED BY <2>2, <2>3
<1> HIDE DEF No
<1>4. ASSUME No(x) PROVE Nameless(s)
  <2> DEFINE C == {o \in x .. e : No(o)}
  <2>1. C \in SUBSET (x .. e) /\ x \in C
      BY <1>1, <1>4
  <2>2. ASSUME NEW o \in C, o + 2 <= e PROVE s[o + 1] # ServerName /\ o + 2 + s[o + 2] \in C
    <3>1. o \in 0 .. e
        BY <1>1
    <3>2. /\ s[o + 1] # ServerName /\ o + 2 + s[o + 2] \in o + 1 .. e
          /\ No(o + 2 + s[o + 2])
        BY <1>3, <2>2, <3>1
    <3>3. \A n \in o + 1 .. e : n \in x .. e
        BY <1>1, <3>1
    <3> QED BY <3>2, <3>3
  <2> HIDE DEF C
  <2> QED BY <1>1, <2>1, <2>2, Zenon DEF Nameless
<1>5. ASSUME Nameless(s) PROVE No(x)
  <2>1. PICK C \in SUBSET (x .. e) :
            /\ x \in C
            /\ \A o \in C : o + 2 <= e => s[o + 1] # ServerName /\ o + 2 + s[o + 2] \in C
      BY <1>1, <1>5, Zenon DEF Nameless
  <2> DEFINE G == {o \in 0 .. e : o \in C => No(o)}
  <2>2. ASSUME NEW o \in 0 .. e, \A i \in o + 1 .. e : i \in G PROVE o \in G
    <3> SUFFICES ASSUME o \in C PROVE No(o)
        OBVIOUS
    <3>1. CASE o + 2 > e
        BY <1>3, <3>1
    <3>2. CASE o + 2 <= e
      <4>1. s[o + 1] # ServerName /\ o + 2 + s[o + 2] \in C
          BY <2>1, <3>2
      <4>2. o + 2 \in 1 .. Len(s)
          BY <1>0, <1>1, <3>2
      <4>3. PICK c \in Nat : c = s[o + 2]
          BY <4>2
      <4>4. o + 2 + c \in x .. e
          BY <4>1, <4>3
      <4>5. o + 2 + c \in o + 1 .. e
          BY <4>4
      <4>6. No(o + 2 + c)
          BY <2>2, <4>1, <4>3, <4>5
      <4> QED BY <1>3, <3>2, <4>1, <4>3, <4>5, <4>6
    <3> QED BY <3>1, <3>2
  <2>3. \A o \in 0 .. e : o \in G
      BY <2>2, Downwards
  <2>4. x \in 0 .. e
      BY <1>1
  <2> QED BY <2>1, <2>3, <2>4
<1>6. WalkExtensions(s, Exts(s), ExtEnd(s)) = f[x]
    BY <1>1, <1>2
<1> QED BY <1>4, <1>5, <1>6 DEF No

-----------------------------------------------------------------------------
(* The results *)

(* A decision of either extractor holds for every longer stream, however   *)
(* many cells have arrived in between: the verdict that is cached after    *)
(* one segment is that of any other way to cut the stream.                 *)
THEOREM ExtractionFinal ==
    ASSUME NEW k, NEW s, NEW t, Extends(s, t), Extraction(k, s).res # "PENDING"
    PROVE  Extraction(k, t) = Extraction(k, s)
<1>1. Extraction(k, s) # Pending
    BY DEF Pending
<1>2. CASE k = "http"
    BY <1>1, <1>2, HttpFinal DEF Extraction
<1>3. CASE k # "http"
    BY <1>1, <1>3, SniFinal DEF Extraction
<1> QED BY <1>2, <1>3

(* "Not present" is said by try_extract_tls_sni() alone, and exactly of a  *)
(* complete ClientHello without a server_name.                             *)
LEMMA ExtractionNotPresent ==
    ASSUME NEW k \in {"http", "tls"}, NEW s \in Seq(Nat)
    PROVE  Extraction(k, s).res = "NOT_PRESENT" <=>
               /\ k = "tls" /\ SubSeq(s, 1, 2) = <<HandshakeRecord, ClientHello>>
               /\ ExtEnd(s) # -1
               /\ Nameless(s)
<1>1. CASE k = "http"
  <2>1. try_extract_http(s).res # "NOT_PRESENT"
      BY DEF try_extract_http, Pending, Found
  <2> QED BY <1>1, <2>1 DEF Extraction
<1>2. CASE k = "tls"
  <2>1. Extraction(k, s) = IF ~IsClientHello(s) \/ ExtEnd(s) = -1 THEN Pending
                           ELSE WalkExtensions(s, Exts(s), ExtEnd(s))
      BY <1>2, SniIs DEF Extraction
  <2>2. Pending.res # "NOT_PRESENT"
      BY DEF Pending
  <2>3. ASSUME ExtEnd(s) # -1
        PROVE  IsClientHello(s) <=> SubSeq(s, 1, 2) = <<HandshakeRecord, ClientHello>>
    <3>1. Extends(s, s)
        BY DEF Extends
    <3>2. 4 <= Len(s) /\ Len(s) \in Nat
      <4>1. PICK e \in Nat, x \in Nat : e <= Len(s) /\ x <= e /\ 4 <= x
          BY <2>3, <3>1, ExtsIs
      <4> QED BY <4>1
    <3>3. 2 \in 0 .. Len(s)
        BY <3>2
    <3>4. PICK u : u = SubSeq(s, 1, 2) /\ u \in Seq(Nat) /\ Len(u) = 2 /\ \A i \in 1 .. 2 : u[i] = s[i]
      <4>1. /\ SubSeq(s, 1, 2) \in Seq(Nat) /\ Len(SubSeq(s, 1, 2)) = 2
            /\ \A i \in 1 .. 2 : SubSeq(s, 1, 2)[i] = s[i]
          BY <3>3, FirstCells
      <4> QED BY <4>1, Zenon
    <3>5. u[1] = s[1] /\ u[2] = s[2]
        BY <3>4
    <3>6. u = <<HandshakeRecord, ClientHello>> <=> u[1] = HandshakeRecord /\ u[2] = ClientHello
      <4>1. HandshakeRecord \in Nat /\ ClientHello \in Nat
          BY DEF HandshakeRecord, ClientHello
      <4>2. u \in Seq(Nat) /\ Len(u) = 2
          BY <3>4
      <4> QED BY <4>1, <4>2, Pair
    <3> QED BY <3>2, <3>4, <3>5, <3>6 DEF IsClientHello
  <2>4. ExtEnd(s) # -1 =>
            (WalkExtensions(s, Exts(s), ExtEnd(s)).res = "NOT_PRESENT" <=> Nameless(s))
      BY WalkNameless
  <2> QED BY <1>2, <2>1, <2>2, <2>3, <2>4, Zenon
<1> QED BY <1>1, <1>2

(* The prefix is a sequence of cells, and the result is that of the        *)
(* extractor on it.                                                        *)
StreamInv == /\ kind \in Kind /\ prefix \in Seq(Nat)
             /\ result = Extraction(kind, prefix)

LEMMA StreamInvHolds == StreamSpec => []StreamInv
<1>1. StreamInit => StreamInv
    BY StreamAssumption DEF StreamInit, StreamInv
<1>2. StreamInv /\ [StreamNext]_streamVars => StreamInv'
  <2> SUFFICES ASSUME StreamInv, [StreamNext]_streamVars PROVE StreamInv'
      OBVIOUS
  <2>1. CASE UNCHANGED streamVars
      BY <2>1 DEF StreamInv, streamVars
  <2>2. ASSUME NEW c \in Alphabet[kind], Arrive(c) PROVE StreamInv'
    <3>1. c \in Nat
        BY <2>2, StreamAssumption DEF StreamInv
    <3>2. kind' = kind /\ prefix' = Append(prefix, c) /\ result' = Extraction(kind, prefix')
        BY <2>2 DEF Arrive
    <3>3. prefix' \in Seq(Nat)
        BY <3>1, <3>2 DEF StreamInv
    <3> QED BY <3>2, <3>3 DEF StreamInv
  <2> QED BY <2>1, <2>2 DEF StreamNext
<1> QED BY <1>1, <1>2, PTL DEF StreamSpec

(* The extractor run after every cell never takes back or changes a        *)
(* decision, whatever the stream.                                          *)
THEOREM DecisionFinalHolds == StreamSpec => DecisionFinal
<1>1. StreamInv /\ [StreamNext]_streamVars => [result.res # "PENDING" => result' = result]_streamVars
  <2> SUFFICES ASSUME StreamInv, [StreamNext]_streamVars, result.res # "PENDING"
               PROVE  result' = result \/ UNCHANGED streamVars
      OBVIOUS
  <2>1. ASSUME NEW c \in Alphabet[kind], Arrive(c) PROVE result' = result
    <3>1. c \in Nat /\ prefix \in Seq(Nat)
        BY <2>1, StreamAssumption DEF StreamInv
    <3>2. PICK p, q : p = prefix /\ q = prefix'
        OBVIOUS
    <3>3. q = Append(p, c) /\ result' = Extraction(kind, q) /\ result = Extraction(kind, p)
        BY <2>1, <3>2 DEF Arrive, StreamInv
    <3>4. Extends(p, q)
        BY <3>1, <3>2, <3>3 DEF Extends
    <3> QED BY <3>3, <3>4, ExtractionFinal
  <2> QED BY <2>1 DEF StreamNext
<1> QED BY <1>1, StreamInvHolds, PTL DEF StreamSpec, DecisionFinal

(* "No server name", after which the flow is not looked at again, is said  *)
(* exactly of a ClientHello whose extensions have all arrived, fit their   *)
(* block and hold no server_name, whatever the stream.                     *)
THEOREM NotPresentExactHolds == StreamSpec => []NotPresentExact
<1>1. StreamInv => NotPresentExact
  <2> SUFFICES ASSUME StreamInv PROVE NotPresentExact
      OBVIOUS
  <2>1. PICK k, s, r : k = kind /\ s = prefix /\ r = result
      OBVIOUS
  <2>2. k \in {"http", "tls"} /\ s \in Seq(Nat) /\ r = Extraction(k, s)
      BY <2>1, StreamAssumption DEF StreamInv
  <2>3. r.res = "NOT_PRESENT" <=>
            /\ k = "tls" /\ SubSeq(s, 1, 2) = <<HandshakeRecord, ClientHello>>
            /\ ExtEnd(s) # -1
            /\ Nameless(s)
      BY <2>2, ExtractionNotPresent
  <2> QED BY <2>1, <2>3, Zenon DEF NotPresentExact
<1> QED BY <1>1, StreamInvHolds, PTL
=============================================================================
