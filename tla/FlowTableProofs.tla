-------------------------- MODULE FlowTableProofs ---------------------------
(***************************************************************************)
(* Proofs about FlowState and FlowTable, for any buffer size, any set of   *)
(* flows, any packets, any table capacity, timeout and sweep interval.     *)
(* First what the placement block of parser_flow_update() does to one      *)
(* flow state, for every sequence number and every payload; then the       *)
(* table.                                                                  *)
(***************************************************************************)
EXTENDS FlowRefinement, ParserProofs

(* No cell at or above the high-water mark is filled, and a flow without   *)
(* first_seq has none at all.                                              *)
BelowHwm(st) == /\ \A i \in Offset : st.filled[i] => i < st.hwm
                /\ ~st.first_seq_set => st.hwm = 0

(* contig_len counts only filled cells, and (Exact) all of them up to the  *)
(* first gap.                                                              *)
Prefixed(st) == /\ st.contig_len <= st.hwm
                /\ \A i \in 0 .. st.contig_len - 1 : st.filled[i]

Exact(st) == Prefixed(st) /\ ~st.filled[st.contig_len]

(* t knows every byte that st knows, at the same sequence number. *)
Keeps(st, t) == \A s \in SeqNum :
                   Has(st, s) => Has(t, s) /\ ByteAt(t, s) = ByteAt(st, s)

(* Whether a segment at seq carries the byte of sequence number s. *)
Within(s, seq, payload) == SeqSub(s, seq) < Len(payload)

(* What t knows and st does not, the segment brought. *)
Learns(st, t, seq, payload) ==
    \A s \in SeqNum : Has(t, s) =>
        \/ Has(st, s) /\ ByteAt(t, s) = ByteAt(st, s)
        \/ /\ ~Has(st, s) /\ Within(s, seq, payload)
           /\ payload[SeqSub(s, seq) + 1] = ByteAt(t, s)

(* The high-water mark is one past a filled cell, and an anchored flow has *)
(* one.                                                                    *)
Tight(st) == /\ st.first_seq_set => st.hwm > 0
             /\ st.hwm > 0 => st.filled[st.hwm - 1]

-----------------------------------------------------------------------------
(* Minima and maxima *)
(* The minimum of two numbers: write_end, clipped to the window. *)
LEMMA MinPair ==
    ASSUME NEW a \in Int, NEW b \in Int
    PROVE  Min({a, b}) = IF a <= b THEN a ELSE b
BY DEF Min

(* The maximum of two numbers: hwm after a write. *)
LEMMA MaxPair ==
    ASSUME NEW a \in Int, NEW b \in Int
    PROVE  Max({a, b}) = IF a >= b THEN a ELSE b
BY DEF Max

(* GapFrom() stops at the first gap. *)
LEMMA GapFromStops ==
    ASSUME NEW filled, NEW lo \in Nat, NEW hwm \in Nat, lo <= hwm
    PROVE  LET g == GapFrom(filled, lo, hwm)
           IN  /\ g \in lo .. hwm
               /\ g = hwm \/ ~filled[g]
               /\ \A n \in lo .. g - 1 : filled[n]
<1> DEFINE S == {n \in lo .. hwm : n = hwm \/ ~filled[n]}
<1>1. S \in SUBSET Nat /\ S # {}
  <2>1. hwm \in S
      OBVIOUS
  <2> QED BY <2>1
<1>2. Min(S) \in S /\ \A y \in S : Min(S) <= y
    BY <1>1, MinNat
<1> HIDE DEF S
<1>3. Min(S) \in lo .. hwm /\ (Min(S) = hwm \/ ~filled[Min(S)])
    BY <1>2 DEF S
<1>4. \A n \in lo .. Min(S) - 1 : filled[n]
  <2> SUFFICES ASSUME NEW n \in lo .. Min(S) - 1, ~filled[n] PROVE FALSE
      OBVIOUS
  <2>1. n \in S
      BY <1>3 DEF S
  <2> QED BY <2>1, <1>2, <1>3
<1>5. GapFrom(filled, lo, hwm) = Min(S)
    BY DEF GapFrom, S
<1> QED BY <1>3, <1>4, <1>5

-----------------------------------------------------------------------------
(* The while loop over contig_len ends with the exact prefix. *)
LEMMA AdvanceContigExact ==
    ASSUME NEW st \in State, BelowHwm(st), Prefixed(st)
    PROVE  LET t == AdvanceContig(st)
           IN  t \in State /\ BelowHwm(t) /\ Exact(t) /\ Keeps(st, t)
<1> DEFINE g == GapFrom(st.filled, st.contig_len, st.hwm)
           t == AdvanceContig(st)
<1>0. st.contig_len \in Nat /\ st.hwm \in Offset /\ st.hwm \in Nat
    BY SizeAssumption DEF State, Offset
<1>1. /\ g \in st.contig_len .. st.hwm
      /\ g = st.hwm \/ ~st.filled[g]
      /\ \A n \in st.contig_len .. g - 1 : st.filled[n]
    BY <1>0, GapFromStops DEF Prefixed
<1> HIDE DEF g
<1>2. t = [st EXCEPT !.contig_len = g]
    BY DEF AdvanceContig, g
<1>3. g \in Offset
    BY <1>0, <1>1, SizeAssumption DEF Offset
<1>4. /\ t.filled = st.filled /\ t.buf = st.buf /\ t.hwm = st.hwm /\ t.contig_len = g
      /\ t.first_seq = st.first_seq /\ t.first_seq_set = st.first_seq_set
    BY <1>2 DEF State
<1>5. t \in State
    BY <1>2, <1>3 DEF State
<1>6. BelowHwm(t)
    BY <1>4 DEF BelowHwm
<1>7. ~st.filled[g]
    BY <1>1, <1>3, <1>0 DEF BelowHwm, Offset
<1>8. Prefixed(t)
    BY <1>0, <1>1, <1>4 DEF Prefixed
<1>9. Keeps(st, t)
    BY <1>4 DEF Keeps, Has, ByteAt
<1> QED BY <1>4, <1>5, <1>6, <1>7, <1>8, <1>9 DEF Exact

(* Writing a segment fills cells inside the window only, and changes no    *)
(* cell that was filled.                                                   *)
LEMMA FillCellsKeeps ==
    ASSUME NEW st \in State, BelowHwm(st), Prefixed(st), st.first_seq_set,
           NEW rel \in 0 .. Window - 1, NEW payload \in Seq(Byte), payload # << >>
    PROVE  LET t == FillCells(st, rel, payload)
           IN  t \in State /\ BelowHwm(t) /\ Prefixed(t) /\ Keeps(st, t)
<1> DEFINE end == WriteEnd(rel, payload)
           t == FillCells(st, rel, payload)
           top == Max({st.hwm, end})
<1>0. st.contig_len \in Offset /\ st.hwm \in Offset /\ st.hwm \in Nat
    BY SizeAssumption DEF State, Offset
<1>1. Len(payload) \in Nat /\ \A i \in 1 .. Len(payload) : payload[i] \in Byte
    OBVIOUS
<1>2. end \in rel .. Window /\ end - rel <= Len(payload)
  <2>1. rel + Len(payload) \in Int /\ Window \in Int
      BY <1>1, SizeAssumption DEF Window
  <2>2. end = IF rel + Len(payload) <= Window THEN rel + Len(payload) ELSE Window
      BY <2>1, MinPair DEF WriteEnd
  <2> QED BY <2>2, <1>1, SizeAssumption DEF Window
<1>3. top = IF st.hwm >= end THEN st.hwm ELSE end
    BY <1>0, <1>2, MaxPair, SizeAssumption DEF Window
<1> HIDE DEF end
<1>4. top \in Offset
    BY <1>0, <1>2, <1>3, SizeAssumption DEF Offset, Window
<1> HIDE DEF top
<1> DEFINE newbuf == [i \in Offset |-> IF i \in rel .. end - 1 /\ ~st.filled[i]
                                       THEN payload[i - rel + 1] ELSE st.buf[i]]
           newfilled == [i \in Offset |-> i \in rel .. end - 1 \/ st.filled[i]]
<1>5. t = [st EXCEPT !.buf = newbuf, !.filled = newfilled, !.hwm = top]
    BY DEF FillCells, end, top
<1>6. newbuf \in [Offset -> Byte]
  <2> SUFFICES ASSUME NEW i \in Offset PROVE newbuf[i] \in Byte
      OBVIOUS
  <2>1. CASE i \in rel .. end - 1
    <3>1. i - rel + 1 \in 1 .. Len(payload)
        BY <2>1, <1>1, <1>2, SizeAssumption DEF Window
    <3> QED BY <3>1, <1>1 DEF State
  <2>2. CASE i \notin rel .. end - 1
      BY <2>2 DEF State
  <2> QED BY <2>1, <2>2
<1>7. newfilled \in [Offset -> BOOLEAN]
    BY Zenon
<1>8. /\ t.filled = newfilled /\ t.buf = newbuf /\ t.hwm = top
      /\ t.contig_len = st.contig_len
      /\ t.first_seq = st.first_seq /\ t.first_seq_set = st.first_seq_set
    BY <1>5 DEF State
<1>9. t \in State
    BY <1>4, <1>5, <1>6, <1>7 DEF State
<1> HIDE DEF t
<1>10. BelowHwm(t)
  <2> SUFFICES ASSUME NEW i \in Offset, t.filled[i] PROVE i < top
      BY <1>8 DEF BelowHwm
  <2>1. i \in rel .. end - 1 \/ st.filled[i]
      BY <1>8
  <2>2. i < end \/ i < st.hwm
      BY <2>1, <1>2, SizeAssumption DEF BelowHwm, Offset, Window
  <2> QED BY <2>2, <1>0, <1>2, <1>3, SizeAssumption DEF Offset, Window
<1>11. Prefixed(t)
  <2>1. t.contig_len <= t.hwm
      BY <1>0, <1>2, <1>3, <1>8, SizeAssumption DEF Prefixed, Offset, Window
  <2>2. ASSUME NEW i \in 0 .. t.contig_len - 1 PROVE t.filled[i]
    <3>1. i \in Offset /\ st.filled[i]
        BY <1>0, <1>8, SizeAssumption DEF Prefixed, Offset
    <3>2. newfilled[i]
        BY <3>1
    <3> QED BY <3>2, <1>8
  <2> QED BY <2>1, <2>2 DEF Prefixed
<1>12. ASSUME NEW o \in Offset, st.filled[o]
       PROVE  t.filled[o] /\ t.buf[o] = st.buf[o]
  <2>1. newfilled[o] /\ newbuf[o] = st.buf[o]
      BY <1>12
  <2> QED BY <2>1, <1>8
<1>13. Keeps(st, t)
    BY <1>8, <1>12 DEF Keeps, Has, ByteAt
<1> QED BY <1>9, <1>10, <1>11, <1>13 DEF t

-----------------------------------------------------------------------------
(* Serial-number arithmetic: re-anchoring `shift' earlier adds `shift' to  *)
(* every offset, whether or not the numbers wrap.                          *)
LEMMA SeqSubShift ==
    ASSUME NEW first \in SeqNum, NEW seq \in SeqNum, NEW s \in SeqNum,
           SeqDiff(seq, first) < 0,
           SeqSub(s, first) - SeqDiff(seq, first) < SeqSpace
    PROVE  SeqSub(s, seq) = SeqSub(s, first) - SeqDiff(seq, first)
BY SizeAssumption DEF SeqNum, SeqSpace, SeqSub, SeqDiff

(* The signed difference of two sequence numbers is an integer. *)
LEMMA SeqDiffInt ==
    ASSUME NEW a \in SeqNum, NEW b \in SeqNum
    PROVE  SeqDiff(a, b) \in Int /\ SeqSub(a, b) \in SeqNum /\ SeqSub(a, b) \in Int
BY SizeAssumption DEF SeqNum, SeqSpace, SeqSub, SeqDiff

(* The shift keeps every byte at its sequence number and claims no prefix. *)
LEMMA ShiftRightKeeps ==
    ASSUME NEW st \in State, BelowHwm(st), st.first_seq_set, NEW seq \in SeqNum,
           SeqDiff(seq, st.first_seq) < 0, ShiftFits(st, -SeqDiff(seq, st.first_seq))
    PROVE  LET t == ShiftRight(st, -SeqDiff(seq, st.first_seq), seq)
           IN  /\ t \in State /\ BelowHwm(t) /\ Prefixed(t) /\ t.first_seq_set
               /\ Keeps(st, t)
<1> DEFINE shift == -SeqDiff(seq, st.first_seq)
           t == ShiftRight(st, shift, seq)
<1>0. st.hwm \in Offset /\ st.first_seq \in SeqNum
    BY DEF State
<1>1. shift \in 1 .. Window /\ st.hwm + shift \in Offset
    BY <1>0, SeqDiffInt, SizeAssumption DEF ShiftFits, Window, Offset
<1>2. \A s \in SeqNum : SeqSub(s, st.first_seq) + shift < SeqSpace =>
          SeqSub(s, seq) = SeqSub(s, st.first_seq) + shift
  <2> TAKE s \in SeqNum
  <2>1. SeqSub(s, st.first_seq) \in Int /\ SeqDiff(seq, st.first_seq) \in Int
      BY <1>0, SeqDiffInt
  <2> QED BY <1>0, <2>1, SeqSubShift
<1> HIDE DEF shift
<1> DEFINE newbuf == [i \in Offset |-> IF i \in shift .. shift + st.hwm - 1
                                       THEN st.buf[i - shift] ELSE st.buf[i]]
           newfilled == [i \in Offset |->
                            IF i < shift THEN FALSE
                            ELSE IF i < shift + st.hwm THEN st.filled[i - shift]
                            ELSE st.filled[i]]
<1>3. t = [st EXCEPT !.buf = newbuf, !.filled = newfilled, !.hwm = st.hwm + shift,
                     !.first_seq = seq, !.contig_len = 0]
    BY DEF ShiftRight, Relocate, State
<1>4. \A i \in Offset : i >= shift => i - shift \in Offset
    BY <1>1, SizeAssumption DEF Offset, Window
<1>5. newbuf \in [Offset -> Byte]
  <2> SUFFICES ASSUME NEW i \in Offset PROVE newbuf[i] \in Byte
      OBVIOUS
  <2>1. CASE i \in shift .. shift + st.hwm - 1
    <3>1. i - shift \in Offset
        BY <2>1, <1>1, <1>4
    <3> QED BY <2>1, <3>1 DEF State
  <2>2. CASE i \notin shift .. shift + st.hwm - 1
      BY <2>2 DEF State
  <2> QED BY <2>1, <2>2
<1>6. newfilled \in [Offset -> BOOLEAN]
  <2> SUFFICES ASSUME NEW i \in Offset PROVE newfilled[i] \in BOOLEAN
      OBVIOUS
  <2>1. st.filled[i] \in BOOLEAN /\ (i >= shift => st.filled[i - shift] \in BOOLEAN)
      BY <1>4 DEF State
  <2>2. i < shift \/ i >= shift
      BY <1>1, SizeAssumption DEF Offset, Window
  <2> QED BY <2>1, <2>2
<1>7. 0 \in Offset
    BY SizeAssumption DEF Offset
<1>8. t \in State
    BY <1>1, <1>3, <1>5, <1>6, <1>7 DEF State
<1>9. /\ t.filled = newfilled /\ t.buf = newbuf /\ t.hwm = st.hwm + shift
      /\ t.contig_len = 0 /\ t.first_seq = seq
      /\ t.first_seq_set = st.first_seq_set
    BY <1>3 DEF State
<1> HIDE DEF t
<1>10. BelowHwm(t)
  <2> SUFFICES ASSUME NEW i \in Offset, t.filled[i], ~(i < st.hwm + shift) PROVE FALSE
      BY <1>9 DEF BelowHwm
  <2>0. ~(i < shift) /\ ~(i < shift + st.hwm)
      BY <1>0, <1>1, SizeAssumption DEF Offset, Window
  <2>1. newfilled[i] = st.filled[i]
      BY <2>0, Zenon
  <2>2. st.filled[i]
      BY <2>1, <1>9
  <2> QED BY <2>2, <1>0, <1>1, SizeAssumption DEF BelowHwm, Offset, Window
<1>11. Prefixed(t)
    BY <1>0, <1>1, <1>9, SizeAssumption DEF Prefixed, Offset, Window
<1>a. ASSUME NEW j \in Offset, ~(j < shift), j < shift + st.hwm,
             j \in shift .. shift + st.hwm - 1
      PROVE  newfilled[j] = st.filled[j - shift] /\ newbuf[j] = st.buf[j - shift]
    BY <1>a, Zenon
<1> HIDE DEF newfilled, newbuf
<1>12. ASSUME NEW s \in SeqNum, Has(st, s)
       PROVE  Has(t, s) /\ ByteAt(t, s) = ByteAt(st, s)
  <2> DEFINE o == SeqSub(s, st.first_seq)
  <2>1. o \in Offset /\ st.filled[o] /\ o < st.hwm
      BY <1>12 DEF Has, BelowHwm
  <2>2. o + shift \in Offset /\ o + shift < SeqSpace
      BY <2>1, <1>0, <1>1, SizeAssumption DEF Offset, Window, SeqSpace
  <2>3. SeqSub(s, seq) = o + shift
      BY <2>2, <1>2
  <2> HIDE DEF o
  <2>4. PICK j \in Offset : j = o + shift
      BY <2>2
  <2>5. /\ ~(j < shift) /\ j < shift + st.hwm /\ j - shift = o
        /\ j \in shift .. shift + st.hwm - 1
      BY <2>1, <2>4, <1>0, <1>1, SizeAssumption DEF Offset, Window
  <2>6. newfilled[j] = st.filled[j - shift] /\ newbuf[j] = st.buf[j - shift]
      BY <2>5, <1>a
  <2>7. newfilled[j] /\ newbuf[j] = st.buf[o]
      BY <2>1, <2>5, <2>6, Zenon
  <2> QED BY <2>3, <2>4, <2>7, <1>9 DEF Has, ByteAt, o
<1> QED BY <1>8, <1>9, <1>10, <1>11, <1>12 DEF t, shift, Keeps

-----------------------------------------------------------------------------
(* What two steps of a placement keep, the placement keeps. *)
LEMMA KeepsTransitive ==
    ASSUME NEW r, NEW s, NEW t, Keeps(r, s), Keeps(s, t)
    PROVE  Keeps(r, t)
BY DEF Keeps

(* The write block leaves contig_len exact and keeps what was placed. *)
LEMMA WriteSegmentExact ==
    ASSUME NEW st \in State, BelowHwm(st), Prefixed(st), st.first_seq_set,
           NEW rel \in 0 .. Window - 1, NEW payload \in Seq(Byte), payload # << >>
    PROVE  LET t == WriteSegment(st, rel, payload)
           IN  t \in State /\ BelowHwm(t) /\ Exact(t) /\ Keeps(st, t)
<1> DEFINE f == FillCells(st, rel, payload)
<1>1. f \in State /\ BelowHwm(f) /\ Prefixed(f) /\ Keeps(st, f)
    BY FillCellsKeeps
<1> HIDE DEF f
<1>2. LET t == AdvanceContig(f)
      IN  t \in State /\ BelowHwm(t) /\ Exact(t) /\ Keeps(f, t)
    BY <1>1, AdvanceContigExact
<1>3. WriteSegment(st, rel, payload) = AdvanceContig(f)
    BY DEF WriteSegment, f
<1> QED BY <1>1, <1>2, <1>3, KeepsTransitive

(* Anchoring moves no byte, since nothing is filled yet. *)
LEMMA AnchorKeeps ==
    ASSUME NEW st \in State, BelowHwm(st), Exact(st), NEW seq \in SeqNum
    PROVE  LET a == Anchor(st, seq)
           IN  a \in State /\ BelowHwm(a) /\ Exact(a) /\ a.first_seq_set /\ Keeps(st, a)
<1>1. CASE st.first_seq_set
    BY <1>1 DEF Anchor, Keeps
<1>2. CASE ~st.first_seq_set
  <2> DEFINE a == [st EXCEPT !.first_seq = seq, !.first_seq_set = TRUE]
  <2>1. Anchor(st, seq) = a
      BY <1>2 DEF Anchor
  <2>2. a \in State
      BY DEF State
  <2>3. /\ a.filled = st.filled /\ a.contig_len = st.contig_len /\ a.hwm = st.hwm
        /\ a.first_seq_set
      BY DEF State
  <2>4. \A i \in Offset : ~st.filled[i]
      BY <1>2, SizeAssumption DEF BelowHwm, Offset
  <2>5. Keeps(st, a)
      BY <2>4 DEF Keeps, Has
  <2> HIDE DEF a
  <2>6. BelowHwm(a) /\ Exact(a)
      BY <2>3 DEF BelowHwm, Exact, Prefixed
  <2> QED BY <2>1, <2>2, <2>3, <2>5, <2>6
<1> QED BY <1>1, <1>2

(* The placement block as a whole: the gap-free prefix is exact again, and *)
(* no byte already placed is changed, moved or lost.                       *)
THEOREM PlaceExact ==
    ASSUME NEW st \in State, BelowHwm(st), Exact(st),
           NEW seq \in SeqNum, NEW payload \in Seq(Byte)
    PROVE  LET t == Place(st, seq, payload)
           IN  t \in State /\ BelowHwm(t) /\ Exact(t) /\ Keeps(st, t)
<1>1. CASE payload = << >>
    BY <1>1 DEF Place, Keeps
<1>2. CASE payload # << >>
  <2> DEFINE a == Anchor(st, seq)
             diff == SeqDiff(seq, a.first_seq)
             t == PlaceAt(a, diff, seq, payload)
  <2>1. a \in State /\ BelowHwm(a) /\ Exact(a) /\ a.first_seq_set /\ Keeps(st, a)
      BY AnchorKeeps
  <2>2. Place(st, seq, payload) = t
      BY <1>2 DEF Place
  <2> HIDE DEF a
  <2>3. diff \in Int
      BY <2>1, SeqDiffInt DEF State
  <2>4. t \in State /\ BelowHwm(t) /\ Exact(t) /\ Keeps(a, t)
    <3>1. CASE diff < 0 /\ ShiftFits(a, -diff)
      <4> DEFINE r == ShiftRight(a, -diff, seq)
      <4>1. r \in State /\ BelowHwm(r) /\ Prefixed(r) /\ r.first_seq_set /\ Keeps(a, r)
          BY <2>1, <3>1, ShiftRightKeeps
      <4> HIDE DEF r
      <4>2. 0 \in 0 .. Window - 1
          BY SizeAssumption DEF Window
      <4>3. LET w == WriteSegment(r, 0, payload)
            IN  w \in State /\ BelowHwm(w) /\ Exact(w) /\ Keeps(r, w)
          BY <1>2, <4>1, <4>2, WriteSegmentExact
      <4>4. ~(diff \in 0 .. Window - 1)
          BY <3>1, <2>3
      <4> HIDE DEF diff
      <4>5. t = WriteSegment(r, 0, payload)
          BY <3>1, <4>4 DEF PlaceAt, r
      <4> QED BY <4>1, <4>3, <4>5, KeepsTransitive
    <3>2. CASE diff \in 0 .. Window - 1
      <4> HIDE DEF diff
      <4>1. t = WriteSegment(a, diff, payload)
          BY <3>2, SizeAssumption DEF PlaceAt, Window
      <4> QED BY <1>2, <2>1, <3>2, <4>1, WriteSegmentExact DEF Exact
    <3>3. CASE ~(diff < 0 /\ ShiftFits(a, -diff)) /\ ~(diff \in 0 .. Window - 1)
      <4> HIDE DEF diff
      <4>1. t = a
          BY <3>3 DEF PlaceAt
      <4> QED BY <2>1, <4>1 DEF Keeps
    <3> QED BY <3>1, <3>2, <3>3
  <2> HIDE DEF t
  <2> QED BY <2>1, <2>2, <2>4, KeepsTransitive
<1> QED BY <1>1, <1>2
-----------------------------------------------------------------------------
(* Offsets of a later sequence number, counted from two anchors. *)
LEMMA SeqSubBehind ==
    ASSUME NEW first \in SeqNum, NEW seq \in SeqNum, NEW s \in SeqNum,
           SeqSub(s, first) >= SeqSub(seq, first)
    PROVE  SeqSub(s, seq) = SeqSub(s, first) - SeqSub(seq, first)
BY SizeAssumption DEF SeqNum, SeqSpace, SeqSub

(* Offsets add up as long as they do not wrap. *)
LEMMA SeqSubSum ==
    ASSUME NEW first \in SeqNum, NEW seq \in SeqNum, NEW s \in SeqNum,
           SeqSub(seq, first) + SeqSub(s, seq) < SeqSpace
    PROVE  SeqSub(s, first) = SeqSub(seq, first) + SeqSub(s, seq)
BY SizeAssumption DEF SeqNum, SeqSpace, SeqSub

(* An offset is a natural number. *)
LEMMA SeqSubNat == ASSUME NEW a \in SeqNum, NEW b \in SeqNum PROVE SeqSub(a, b) \in Nat
BY SizeAssumption DEF SeqNum, SeqSpace, SeqSub

(* A difference that is not negative is the offset itself; a negative one  *)
(* counts backwards from the whole space.                                  *)
LEMMA SeqDiffSub ==
    ASSUME NEW a \in SeqNum, NEW b \in SeqNum
    PROVE  /\ SeqDiff(a, b) >= 0 => SeqSub(a, b) = SeqDiff(a, b)
           /\ SeqDiff(a, b) < 0 => SeqSub(a, b) = SeqDiff(a, b) + SeqSpace
           /\ SeqDiff(a, b) < 0 => SeqSub(b, a) = -SeqDiff(a, b)
           /\ SeqDiff(a, b) >= -HalfSpace /\ SeqDiff(a, b) < HalfSpace
BY SizeAssumption DEF SeqNum, SeqSpace, SeqSub, SeqDiff

(* A number has offset zero from itself only. *)
LEMMA SeqSubSelf == ASSUME NEW a \in SeqNum PROVE SeqSub(a, a) = 0 /\ SeqDiff(a, a) = 0
BY SizeAssumption DEF SeqNum, SeqSpace, SeqSub, SeqDiff

(* What FillCells() does to each cell. *)
LEMMA FillCellsCells ==
    ASSUME NEW st \in State, NEW rel \in 0 .. Window - 1,
           NEW payload \in Seq(Byte), payload # << >>
    PROVE  LET t == FillCells(st, rel, payload)
               end == WriteEnd(rel, payload)
           IN  /\ end \in rel + 1 .. Window /\ end - rel <= Len(payload)
               /\ rel + Len(payload) <= Window => end = rel + Len(payload)
               /\ t.hwm = IF st.hwm >= end THEN st.hwm ELSE end
               /\ t.first_seq = st.first_seq /\ t.first_seq_set = st.first_seq_set
               /\ t.contig_len = st.contig_len
               /\ \A o \in Offset : t.filled[o] <=> (o \in rel .. end - 1 \/ st.filled[o])
               /\ \A o \in Offset : st.filled[o] => t.buf[o] = st.buf[o]
               /\ \A o \in Offset : o \in rel .. end - 1 /\ ~st.filled[o]
                                     => t.buf[o] = payload[o - rel + 1]
<1> DEFINE end == WriteEnd(rel, payload)
           t == FillCells(st, rel, payload)
           top == Max({st.hwm, end})
<1>0. st.hwm \in Nat
    BY SizeAssumption DEF State, Offset
<1>1. Len(payload) \in Nat \ {0}
    OBVIOUS
<1>2. /\ end \in rel + 1 .. Window /\ end - rel <= Len(payload)
      /\ rel + Len(payload) <= Window => end = rel + Len(payload)
  <2>1. rel + Len(payload) \in Int /\ Window \in Int
      BY <1>1, SizeAssumption DEF Window
  <2>2. end = IF rel + Len(payload) <= Window THEN rel + Len(payload) ELSE Window
      BY <2>1, MinPair DEF WriteEnd
  <2> QED BY <2>2, <1>1, SizeAssumption DEF Window
<1>3. top = IF st.hwm >= end THEN st.hwm ELSE end
    BY <1>0, <1>2, MaxPair, SizeAssumption DEF Window
<1> HIDE DEF end
<1> HIDE DEF top
<1> DEFINE newbuf == [i \in Offset |-> IF i \in rel .. end - 1 /\ ~st.filled[i]
                                       THEN payload[i - rel + 1] ELSE st.buf[i]]
           newfilled == [i \in Offset |-> i \in rel .. end - 1 \/ st.filled[i]]
<1>5. t = [st EXCEPT !.buf = newbuf, !.filled = newfilled, !.hwm = top]
    BY DEF FillCells, end, top
<1>8. /\ t.filled = newfilled /\ t.buf = newbuf /\ t.hwm = top
      /\ t.contig_len = st.contig_len
      /\ t.first_seq = st.first_seq /\ t.first_seq_set = st.first_seq_set
    BY <1>5 DEF State
<1> HIDE DEF t
<1>9. \A o \in Offset : newfilled[o] <=> (o \in rel .. end - 1 \/ st.filled[o])
    BY Zenon
<1>10. \A o \in Offset : st.filled[o] => newbuf[o] = st.buf[o]
    BY Zenon
<1>11. \A o \in Offset : o \in rel .. end - 1 /\ ~st.filled[o]
                            => newbuf[o] = payload[o - rel + 1]
    BY Zenon
<1> HIDE DEF newbuf, newfilled
<1> QED BY <1>2, <1>3, <1>8, <1>9, <1>10, <1>11, Zenon DEF t, end

(* The write block: the bytes it adds are the segment's, each at its own   *)
(* sequence number; the high-water mark stays tight.                       *)
LEMMA WriteSegmentLearns ==
    ASSUME NEW st \in State, NEW seq \in SeqNum,
           NEW payload \in Seq(Byte), payload # << >>,
           SeqSub(seq, st.first_seq) \in 0 .. Window - 1,
           st.hwm > 0 => st.filled[st.hwm - 1]
    PROVE  LET t == WriteSegment(st, SeqSub(seq, st.first_seq), payload)
           IN  /\ Learns(st, t, seq, payload) /\ Tight(t) /\ Has(t, seq)
               /\ t.first_seq = st.first_seq /\ t.first_seq_set = st.first_seq_set
               /\ SeqSub(seq, st.first_seq) + Len(payload) <= Window =>
                     \A s \in SeqNum : Within(s, seq, payload) => Has(t, s)
<1> DEFINE rel == SeqSub(seq, st.first_seq)
           f == FillCells(st, rel, payload)
           t == AdvanceContig(f)
           end == WriteEnd(rel, payload)
<1>0. st.first_seq \in SeqNum /\ st.hwm \in Offset /\ st.filled \in [Offset -> BOOLEAN]
    BY DEF State
<1>1. /\ end \in rel + 1 .. Window /\ end - rel <= Len(payload)
      /\ rel + Len(payload) <= Window => end = rel + Len(payload)
      /\ f.hwm = IF st.hwm >= end THEN st.hwm ELSE end
      /\ f.first_seq = st.first_seq /\ f.first_seq_set = st.first_seq_set
      /\ \A o \in Offset : f.filled[o] <=> (o \in rel .. end - 1 \/ st.filled[o])
      /\ \A o \in Offset : st.filled[o] => f.buf[o] = st.buf[o]
      /\ \A o \in Offset : o \in rel .. end - 1 /\ ~st.filled[o]
                            => f.buf[o] = payload[o - rel + 1]
    BY FillCellsCells
<1>2. WriteSegment(st, rel, payload) = t
    BY DEF WriteSegment
<1>3. /\ t.filled = f.filled /\ t.buf = f.buf /\ t.hwm = f.hwm
      /\ t.first_seq = f.first_seq /\ t.first_seq_set = f.first_seq_set
    BY DEF AdvanceContig, FillCells
<1> HIDE DEF f, t, end
<1>4. /\ rel \in 0 .. Window - 1 /\ Len(payload) \in Nat \ {0}
      /\ Window \in Nat /\ BufCap \in Nat /\ Window = BufCap - 1
    BY SizeAssumption DEF Window
<1>5. \A s \in SeqNum : SeqSub(s, st.first_seq) >= rel =>
                             SeqSub(s, seq) = SeqSub(s, st.first_seq) - rel
    BY <1>0, SeqSubBehind
<1>6. \A s \in SeqNum : SeqSub(s, st.first_seq) \in Int
    BY <1>0, SeqDiffInt
<1> HIDE DEF rel
<1>7. ASSUME NEW s \in SeqNum, Has(t, s)
      PROVE  \/ Has(st, s) /\ ByteAt(t, s) = ByteAt(st, s)
             \/ /\ ~Has(st, s) /\ Within(s, seq, payload)
                /\ payload[SeqSub(s, seq) + 1] = ByteAt(t, s)
  <2> DEFINE o == SeqSub(s, st.first_seq)
  <2>1. o \in Offset /\ f.filled[o]
      BY <1>7, <1>1, <1>3 DEF Has
  <2>2. CASE st.filled[o]
      BY <2>1, <2>2, <1>1, <1>3 DEF Has, ByteAt
  <2>3. CASE ~st.filled[o]
    <3>1. o \in rel .. end - 1 /\ f.buf[o] = payload[o - rel + 1]
        BY <2>1, <2>3, <1>1
    <3>2. SeqSub(s, seq) = o - rel
        BY <3>1, <1>1, <1>4, <1>5
    <3>3. o - rel < Len(payload)
        BY <3>1, <1>1, <1>4
    <3> QED BY <2>3, <3>1, <3>2, <3>3, <1>1, <1>3 DEF Has, ByteAt, Within
  <2> QED BY <2>2, <2>3
<1>8. Tight(t)
  <2>1. CASE st.hwm >= end
    <3>1. st.hwm > 0 /\ st.hwm - 1 \in Offset
      <4>1. end \in rel + 1 .. Window
          BY <1>1
      <4>2. st.hwm \in 0 .. BufCap - 1
          BY <1>0 DEF Offset
      <4>3. st.hwm > 0
          BY <2>1, <1>4, <4>1, <4>2
      <4> QED BY <1>4, <4>2, <4>3 DEF Offset
    <3> QED BY <2>1, <3>1, <1>1, <1>3 DEF Tight
  <2>2. CASE ~(st.hwm >= end)
    <3>1. end > 0 /\ end - 1 \in Offset /\ end - 1 \in rel .. end - 1
        BY <1>1, <1>4 DEF Offset
    <3> QED BY <2>2, <3>1, <1>1, <1>3 DEF Tight
  <2> QED BY <2>1, <2>2
<1>9. Has(t, seq)
  <2>1. rel \in Offset /\ rel \in rel .. end - 1
      BY <1>1, <1>4 DEF Offset
  <2> QED BY <2>1, <1>1, <1>3 DEF Has, rel
<1>10. ASSUME rel + Len(payload) <= Window, NEW s \in SeqNum, Within(s, seq, payload)
       PROVE  Has(t, s)
  <2>1. SeqSub(s, seq) < Len(payload) /\ SeqSub(s, seq) \in SeqNum
      BY <1>10, SeqDiffInt DEF Within
  <2>2. SeqSub(s, st.first_seq) = SeqSub(s, seq) + rel
    <3>1. rel + SeqSub(s, seq) < SeqSpace
        BY <2>1, <1>4, <1>10, SizeAssumption DEF SeqNum, SeqSpace
    <3>2. SeqSub(s, st.first_seq) = rel + SeqSub(s, seq)
        BY <3>1, <1>0, SeqSubSum DEF rel
    <3> QED BY <3>2, <2>1, <1>4, SizeAssumption DEF SeqNum, SeqSpace
  <2>3. /\ SeqSub(s, st.first_seq) \in rel .. end - 1
        /\ SeqSub(s, st.first_seq) \in Offset
    <3>1. end = rel + Len(payload)
        BY <1>1, <1>10
    <3>2. SeqSub(s, seq) \in Nat
        BY <2>1, SizeAssumption DEF SeqNum, SeqSpace
    <3> QED BY <2>1, <2>2, <3>1, <3>2, <1>4, <1>10 DEF Offset
  <2> QED BY <2>3, <1>1, <1>3 DEF Has
<1> QED BY <1>1, <1>2, <1>3, <1>7, <1>8, <1>9, <1>10 DEF Learns, rel
(* What ShiftRight() does to each cell that the high-water mark allows to  *)
(* be filled.                                                              *)
LEMMA ShiftRightCells ==
    ASSUME NEW st \in State, BelowHwm(st), NEW shift \in 1 .. Window, NEW seq \in SeqNum,
           st.hwm + shift <= Window
    PROVE  LET t == ShiftRight(st, shift, seq)
           IN  /\ t.hwm = st.hwm + shift /\ t.contig_len = 0
               /\ t.first_seq = seq /\ t.first_seq_set = st.first_seq_set
               /\ \A o \in Offset : t.filled[o] =>
                     /\ o - shift \in Offset /\ st.filled[o - shift]
                     /\ t.buf[o] = st.buf[o - shift]
               /\ \A o \in Offset : st.filled[o] => o + shift \in Offset /\ t.filled[o + shift]
<1> DEFINE t == ShiftRight(st, shift, seq)
           newbuf == [i \in Offset |-> IF i \in shift .. shift + st.hwm - 1
                                       THEN st.buf[i - shift] ELSE st.buf[i]]
           newfilled == [i \in Offset |->
                            IF i < shift THEN FALSE
                            ELSE IF i < shift + st.hwm THEN st.filled[i - shift]
                            ELSE st.filled[i]]
<1>0. st.hwm \in Nat /\ Window \in Nat /\ BufCap \in Nat /\ Window = BufCap - 1
    BY SizeAssumption DEF State, Offset, Window
<1>1. t = [st EXCEPT !.buf = newbuf, !.filled = newfilled, !.hwm = st.hwm + shift,
                     !.first_seq = seq, !.contig_len = 0]
    BY DEF ShiftRight, Relocate, State
<1>2. /\ t.filled = newfilled /\ t.buf = newbuf /\ t.hwm = st.hwm + shift
      /\ t.contig_len = 0 /\ t.first_seq = seq
      /\ t.first_seq_set = st.first_seq_set
    BY <1>1 DEF State
<1> HIDE DEF t
<1>3. ASSUME NEW o \in Offset, newfilled[o]
      PROVE  /\ o - shift \in Offset /\ st.filled[o - shift]
             /\ newbuf[o] = st.buf[o - shift]
  <2>1. ~(o < shift)
      BY <1>3
  <2>2. o < shift + st.hwm
    <3> SUFFICES ASSUME ~(o < shift + st.hwm) PROVE FALSE
        OBVIOUS
    <3>1. st.filled[o]
        BY <1>3, <2>1, Zenon
    <3> QED BY <3>1, <1>0 DEF BelowHwm, Offset
  <2>3. o - shift \in Offset /\ o \in shift .. shift + st.hwm - 1
      BY <2>1, <2>2, <1>0 DEF Offset
  <2>4. newfilled[o] = st.filled[o - shift] /\ newbuf[o] = st.buf[o - shift]
      BY <2>1, <2>2, <2>3, Zenon
  <2> QED BY <2>3, <2>4, <1>3
<1>4. ASSUME NEW o \in Offset, st.filled[o]
      PROVE  o + shift \in Offset /\ newfilled[o + shift]
  <2>1. /\ o + shift \in Offset /\ ~(o + shift < shift) /\ o + shift < shift + st.hwm
        /\ (o + shift) - shift = o
      BY <1>4, <1>0 DEF BelowHwm, Offset
  <2>2. newfilled[o + shift] = st.filled[(o + shift) - shift]
      BY <2>1, Zenon
  <2> QED BY <2>1, <2>2, <1>4
<1> HIDE DEF newbuf, newfilled
<1> QED BY <1>2, <1>3, <1>4 DEF t

(* The shift invents no byte and keeps the high-water mark tight. *)
LEMMA ShiftRightLearns ==
    ASSUME NEW st \in State, BelowHwm(st), Tight(st), NEW seq \in SeqNum,
           st.first_seq_set, SeqDiff(seq, st.first_seq) < 0,
           ShiftFits(st, -SeqDiff(seq, st.first_seq))
    PROVE  LET t == ShiftRight(st, -SeqDiff(seq, st.first_seq), seq)
           IN  /\ Tight(t) /\ t.first_seq = seq /\ t.first_seq_set
               /\ \A s \in SeqNum : Has(t, s) => Has(st, s) /\ ByteAt(t, s) = ByteAt(st, s)
<1> DEFINE shift == -SeqDiff(seq, st.first_seq)
           t == ShiftRight(st, shift, seq)
<1>0. st.first_seq \in SeqNum /\ st.hwm \in Offset
    BY DEF State
<1>1. /\ Window \in Nat /\ BufCap \in Nat /\ Window = BufCap - 1
      /\ BufCap <= HalfSpace /\ HalfSpace \in Nat
    BY SizeAssumption DEF Window
<1>2. shift \in 1 .. Window /\ st.hwm + shift <= Window
    BY <1>0, <1>1, SeqDiffInt DEF ShiftFits, Offset
<1>3. SeqSub(st.first_seq, seq) = shift
    BY <1>0, SeqDiffSub
<1> HIDE DEF shift
<1>4. /\ t.hwm = st.hwm + shift /\ t.contig_len = 0
      /\ t.first_seq = seq /\ t.first_seq_set = st.first_seq_set
      /\ \A o \in Offset : t.filled[o] =>
            /\ o - shift \in Offset /\ st.filled[o - shift]
            /\ t.buf[o] = st.buf[o - shift]
      /\ \A o \in Offset : st.filled[o] => o + shift \in Offset /\ t.filled[o + shift]
    BY <1>2, ShiftRightCells, Zenon
<1> HIDE DEF t
<1>5. Tight(t)
  <2>1. st.hwm > 0 /\ st.filled[st.hwm - 1] /\ st.hwm - 1 \in Offset
      BY <1>0, <1>1 DEF Tight, Offset
  <2>2. t.filled[(st.hwm - 1) + shift]
      BY <2>1, <1>4
  <2>3. (st.hwm - 1) + shift = t.hwm - 1 /\ t.hwm > 0
      BY <2>1, <1>0, <1>1, <1>2, <1>4 DEF Offset
  <2> QED BY <2>2, <2>3 DEF Tight
<1>6. ASSUME NEW s \in SeqNum, Has(t, s)
      PROVE  Has(st, s) /\ ByteAt(t, s) = ByteAt(st, s)
  <2> DEFINE o == SeqSub(s, seq)
  <2>1. o \in Offset /\ t.filled[o]
      BY <1>6, <1>4 DEF Has
  <2>2. o - shift \in Offset /\ st.filled[o - shift] /\ t.buf[o] = st.buf[o - shift]
      BY <2>1, <1>4
  <2>3. o >= shift
      BY <2>1, <2>2, <1>1, <1>2 DEF Offset
  <2>4. SeqSub(s, st.first_seq) = o - shift
      BY <2>3, <1>0, <1>3, SeqSubBehind
  <2> QED BY <2>1, <2>2, <2>4, <1>4 DEF Has, ByteAt
<1> QED BY <1>4, <1>5, <1>6 DEF t, shift
-----------------------------------------------------------------------------
(* Every offset belongs to a sequence number. *)
LEMMA SeqAt ==
    ASSUME NEW first \in SeqNum, NEW o \in Offset
    PROVE  \E s \in SeqNum : SeqSub(s, first) = o
<1> DEFINE s == IF first + o < SeqSpace THEN first + o ELSE first + o - SeqSpace
<1>1. s \in SeqNum
    BY SizeAssumption DEF SeqNum, SeqSpace, Offset
<1>2. SeqSub(s, first) = o
    BY SizeAssumption DEF SeqNum, SeqSpace, Offset, SeqSub
<1> QED BY <1>1, <1>2

(* An exact prefix ends at the first gap, from wherever in it one looks. *)
LEMMA GapExact ==
    ASSUME NEW st \in State, Exact(st), NEW lo \in 0 .. st.contig_len
    PROVE  GapFrom(st.filled, lo, st.hwm) = st.contig_len
<1> DEFINE g == GapFrom(st.filled, lo, st.hwm)
<1>0. /\ st.contig_len \in Nat /\ st.hwm \in Nat /\ st.contig_len <= st.hwm
      /\ lo \in Nat /\ lo <= st.hwm
    BY SizeAssumption DEF State, Offset, Exact, Prefixed
<1>1. /\ g \in lo .. st.hwm
      /\ g = st.hwm \/ ~st.filled[g]
      /\ \A n \in lo .. g - 1 : st.filled[n]
    BY <1>0, GapFromStops
<1> HIDE DEF g
<1>2. ~(g < st.contig_len)
    BY <1>0, <1>1 DEF Exact, Prefixed
<1>3. ~(g > st.contig_len)
  <2> SUFFICES ASSUME g > st.contig_len PROVE FALSE
      OBVIOUS
  <2>1. st.contig_len \in lo .. g - 1
      BY <1>0, <1>1
  <2> QED BY <2>1, <1>1 DEF Exact
<1> QED BY <1>0, <1>1, <1>2, <1>3 DEF g

(* A segment written into the window either fills a cell or changes        *)
(* nothing at all.                                                         *)
LEMMA WriteSegmentNews ==
    ASSUME NEW st \in State, BelowHwm(st), Exact(st),
           NEW rel \in 0 .. Window - 1, NEW payload \in Seq(Byte), payload # << >>
    PROVE  LET t == WriteSegment(st, rel, payload)
           IN  t = st \/ \E s \in SeqNum : Has(t, s) /\ ~Has(st, s)
<1> DEFINE f == FillCells(st, rel, payload)
           t == AdvanceContig(f)
           end == WriteEnd(rel, payload)
<1>0. /\ st.first_seq \in SeqNum /\ st.hwm \in Offset /\ st.contig_len \in Offset
      /\ st.filled \in [Offset -> BOOLEAN] /\ st.buf \in [Offset -> Byte]
    BY DEF State
<1>1. /\ end \in rel + 1 .. Window /\ end - rel <= Len(payload)
      /\ rel + Len(payload) <= Window => end = rel + Len(payload)
      /\ f.hwm = IF st.hwm >= end THEN st.hwm ELSE end
      /\ f.first_seq = st.first_seq /\ f.first_seq_set = st.first_seq_set
      /\ f.contig_len = st.contig_len
      /\ \A o \in Offset : f.filled[o] <=> (o \in rel .. end - 1 \/ st.filled[o])
      /\ \A o \in Offset : st.filled[o] => f.buf[o] = st.buf[o]
      /\ \A o \in Offset : o \in rel .. end - 1 /\ ~st.filled[o]
                            => f.buf[o] = payload[o - rel + 1]
    BY FillCellsCells
<1>2. WriteSegment(st, rel, payload) = t
    BY DEF WriteSegment
<1>3. t.filled = f.filled /\ t.first_seq = f.first_seq
    BY DEF AdvanceContig, FillCells
<1>4. Window \in Nat /\ BufCap \in Nat /\ Window = BufCap - 1
    BY SizeAssumption DEF Window
<1>5. CASE \E o \in rel .. end - 1 : ~st.filled[o]
  <2>1. PICK o \in rel .. end - 1 : ~st.filled[o]
      BY <1>5
  <2> HIDE DEF f, t, end
  <2>2. o \in Offset
      BY <1>1, <1>4 DEF Offset
  <2>3. PICK s \in SeqNum : SeqSub(s, st.first_seq) = o
      BY <2>2, <1>0, SeqAt
  <2>4. ~Has(st, s)
      BY <2>1, <2>3 DEF Has
  <2>5. f.filled[o]
      BY <2>2, <1>1
  <2>6. Has(t, s)
      BY <2>2, <2>3, <2>5, <1>1, <1>3 DEF Has
  <2> QED BY <2>4, <2>6, <1>2
<1>6. CASE \A o \in rel .. end - 1 : st.filled[o]
  <2> DEFINE newbuf == [i \in Offset |-> IF i \in rel .. end - 1 /\ ~st.filled[i]
                                         THEN payload[i - rel + 1] ELSE st.buf[i]]
             newfilled == [i \in Offset |-> i \in rel .. end - 1 \/ st.filled[i]]
             top == Max({st.hwm, end})
  <2>1. f = [st EXCEPT !.buf = newbuf, !.filled = newfilled, !.hwm = top]
      BY DEF FillCells
  <2>2. newbuf = st.buf
      BY <1>6, <1>0, Zenon
  <2>3. newfilled = st.filled
    <3>1. \A i \in Offset : newfilled[i] = st.filled[i]
        BY <1>6, <1>0
    <3> QED BY <3>1, <1>0, Zenon
  <2>4. top = st.hwm
    <3> HIDE DEF end, f
    <3>1. end - 1 \in Offset /\ st.filled[end - 1]
        BY <1>1, <1>4, <1>6 DEF Offset
    <3>2. end - 1 < st.hwm
        BY <3>1 DEF BelowHwm
    <3>3. st.hwm \in Int /\ end \in Int /\ st.hwm >= end
        BY <3>2, <1>0, <1>1, <1>4 DEF Offset
    <3> QED BY <3>3, MaxPair
  <2> HIDE DEF newbuf, newfilled, top
  <2>5. f = st
      BY <2>1, <2>2, <2>3, <2>4 DEF State
  <2>6. st.contig_len \in 0 .. st.contig_len
      BY <1>0, <1>4 DEF Offset
  <2>7. GapFrom(st.filled, st.contig_len, st.hwm) = st.contig_len
      BY <2>6, GapExact
  <2>8. AdvanceContig(st) = st
      BY <2>7 DEF AdvanceContig, State
  <2> HIDE DEF f
  <2>9. t = st
      BY <2>5, <2>8
  <2> QED BY <2>9, <1>2
<1> QED BY <1>5, <1>6
(* The verdict and the time stamp are none of the placement's business. *)
SameRecord(st, t) == /\ t.verdict_cached = st.verdict_cached
                     /\ t.cached_action = st.cached_action
                     /\ t.no_sni_cached = st.no_sni_cached
                     /\ t.last_seen_tsc = st.last_seen_tsc

(* No part of the placement block writes those fields. *)
LEMMA PlaceSameRecord ==
    ASSUME NEW st \in State, NEW seq \in SeqNum, NEW payload \in Seq(Byte)
    PROVE  SameRecord(st, Place(st, seq, payload))
<1>0. /\ \A u : SameRecord(u, u)
      /\ \A u, v, w : SameRecord(u, v) /\ SameRecord(v, w) => SameRecord(u, w)
    BY DEF SameRecord
<1>1. ASSUME NEW u, NEW rel PROVE SameRecord(u, WriteSegment(u, rel, payload))
    BY DEF SameRecord, WriteSegment, AdvanceContig, FillCells
<1>2. ASSUME NEW u, NEW shift PROVE SameRecord(u, ShiftRight(u, shift, seq))
    BY DEF SameRecord, ShiftRight, Relocate
<1>3. SameRecord(st, Anchor(st, seq))
    BY DEF SameRecord, Anchor
<1>4. ASSUME NEW u, NEW diff PROVE SameRecord(u, PlaceAt(u, diff, seq, payload))
  <2>1. \/ PlaceAt(u, diff, seq, payload) = WriteSegment(ShiftRight(u, -diff, seq), 0, payload)
        \/ PlaceAt(u, diff, seq, payload) = WriteSegment(u, diff, payload)
        \/ PlaceAt(u, diff, seq, payload) = u
    <3>1. CASE diff < 0 /\ ShiftFits(u, -diff) /\ ~(diff \in 0 .. Window - 1)
        BY <3>1 DEF PlaceAt
    <3>2. CASE ~(diff < 0 /\ ShiftFits(u, -diff)) /\ diff \in 0 .. Window - 1
        BY <3>2 DEF PlaceAt
    <3>3. CASE ~(diff < 0 /\ ShiftFits(u, -diff)) /\ ~(diff \in 0 .. Window - 1)
        BY <3>3 DEF PlaceAt
    <3>4. ~(diff < 0 /\ diff \in 0 .. Window - 1)
        BY SizeAssumption DEF Window
    <3> QED BY <3>1, <3>2, <3>3, <3>4
  <2>2. /\ SameRecord(u, ShiftRight(u, -diff, seq)) /\ SameRecord(u, WriteSegment(u, diff, payload))
        /\ SameRecord(ShiftRight(u, -diff, seq),
                      WriteSegment(ShiftRight(u, -diff, seq), 0, payload))
      BY <1>1, <1>2
  <2> QED BY <2>1, <2>2, <1>0
<1>5. Place(st, seq, payload) = st \/
      Place(st, seq, payload) = PlaceAt(Anchor(st, seq), SeqDiff(seq, Anchor(st, seq).first_seq),
                                        seq, payload)
    BY DEF Place
<1>6. SameRecord(Anchor(st, seq),
                 PlaceAt(Anchor(st, seq), SeqDiff(seq, Anchor(st, seq).first_seq),
                         seq, payload))
    BY <1>4
<1> QED BY <1>0, <1>3, <1>5, <1>6

(* The three ways a segment with data can go, after the flow has an        *)
(* anchor: a shift and a write, a write, or nothing.                       *)
LEMMA PlaceCases ==
    ASSUME NEW st \in State, NEW seq \in SeqNum, NEW payload \in Seq(Byte), payload # << >>
    PROVE  LET a == Anchor(st, seq)
               diff == SeqDiff(seq, a.first_seq)
               t == Place(st, seq, payload)
           IN  /\ a.first_seq \in SeqNum /\ diff \in Int
               /\ \/ /\ diff < 0 /\ ShiftFits(a, -diff)
                     /\ t = WriteSegment(ShiftRight(a, -diff, seq), 0, payload)
                  \/ /\ diff \in 0 .. Window - 1 /\ diff = SeqSub(seq, a.first_seq)
                     /\ t = WriteSegment(a, diff, payload)
                  \/ /\ ~(diff < 0 /\ ShiftFits(a, -diff)) /\ ~(diff \in 0 .. Window - 1)
                     /\ t = a
<1> DEFINE a == Anchor(st, seq)
           diff == SeqDiff(seq, a.first_seq)
<1>1. a.first_seq \in SeqNum
    BY DEF Anchor, State
<1>2. Place(st, seq, payload) = PlaceAt(a, diff, seq, payload)
    BY DEF Place
<1> HIDE DEF a
<1>3. diff \in Int /\ (diff >= 0 => diff = SeqSub(seq, a.first_seq))
    BY <1>1, SeqDiffInt, SeqDiffSub
<1> HIDE DEF diff
<1>4. CASE diff < 0 /\ ShiftFits(a, -diff)
  <2>1. ~(diff \in 0 .. Window - 1)
      BY <1>3, <1>4
  <2> QED BY <1>1, <1>2, <1>3, <1>4, <2>1 DEF PlaceAt, a, diff
<1>5. CASE diff \in 0 .. Window - 1
  <2>1. ~(diff < 0) /\ diff >= 0
      BY <1>3, <1>5
  <2> QED BY <1>1, <1>2, <1>3, <1>5, <2>1 DEF PlaceAt, a, diff
<1>6. CASE ~(diff < 0 /\ ShiftFits(a, -diff)) /\ ~(diff \in 0 .. Window - 1)
    BY <1>1, <1>2, <1>3, <1>6 DEF PlaceAt, a, diff
<1> QED BY <1>4, <1>5, <1>6
(* Before the first segment there is nothing to know. *)
LEMMA Unanchored ==
    ASSUME NEW st \in State, BelowHwm(st), ~st.first_seq_set
    PROVE  (\A i \in Offset : ~st.filled[i]) /\ (\A s \in SeqNum : ~Has(st, s)) /\ st.hwm = 0
<1>1. \A i \in Offset : ~st.filled[i]
    BY SizeAssumption DEF BelowHwm, Offset
<1> QED BY <1>1 DEF Has, BelowHwm

(* The placement block adds bytes of the segment only, each at its own     *)
(* sequence number, and re-anchors the flow only at the segment's start.   *)
THEOREM PlaceLearns ==
    ASSUME NEW st \in State, BelowHwm(st), Exact(st), Tight(st),
           NEW seq \in SeqNum, NEW payload \in Seq(Byte)
    PROVE  LET t == Place(st, seq, payload)
           IN  /\ Learns(st, t, seq, payload) /\ Tight(t)
               /\ t.first_seq_set =>
                     \/ st.first_seq_set /\ t.first_seq = st.first_seq
                     \/ payload # << >> /\ t.first_seq = seq
               /\ t = st \/ \E s \in SeqNum : Has(t, s) /\ ~Has(st, s)
<1>1. CASE payload = << >>
    BY <1>1 DEF Place, Learns
<1>2. CASE payload # << >>
  <2> DEFINE a == Anchor(st, seq)
             diff == SeqDiff(seq, a.first_seq)
             t == Place(st, seq, payload)
             r == ShiftRight(a, -diff, seq)
  <2>1. a \in State /\ BelowHwm(a) /\ Exact(a) /\ a.first_seq_set
      BY AnchorKeeps
  <2>2. /\ a.first_seq \in SeqNum /\ diff \in Int
        /\ \/ /\ diff < 0 /\ ShiftFits(a, -diff)
              /\ t = WriteSegment(r, 0, payload)
           \/ /\ diff \in 0 .. Window - 1 /\ diff = SeqSub(seq, a.first_seq)
              /\ t = WriteSegment(a, diff, payload)
           \/ /\ ~(diff < 0 /\ ShiftFits(a, -diff)) /\ ~(diff \in 0 .. Window - 1)
              /\ t = a
      BY <1>2, PlaceCases
  <2>3. \/ st.first_seq_set /\ a = st
        \/ /\ ~st.first_seq_set /\ a.first_seq = seq /\ a.hwm = st.hwm
           /\ a.filled = st.filled /\ diff = 0
    <3>1. CASE st.first_seq_set
        BY <3>1 DEF Anchor
    <3>2. CASE ~st.first_seq_set
      <4>1. a = [st EXCEPT !.first_seq = seq, !.first_seq_set = TRUE]
          BY <3>2 DEF Anchor
      <4>2. a.first_seq = seq /\ a.hwm = st.hwm /\ a.filled = st.filled
          BY <4>1 DEF State
      <4> HIDE DEF a
      <4>3. diff = 0
          BY <4>2, SeqSubSelf
      <4> QED BY <3>2, <4>2, <4>3
    <3> QED BY <3>1, <3>2
  <2> HIDE DEF a
  <2>4. \A s \in SeqNum : Has(a, s) => Has(st, s) /\ ByteAt(a, s) = ByteAt(st, s)
    <3>1. CASE st.first_seq_set
        BY <3>1, <2>3
    <3>2. CASE ~st.first_seq_set
      <4>1. \A i \in Offset : ~st.filled[i]
          BY <3>2, Unanchored
      <4> QED BY <3>2, <4>1, <2>3 DEF Has
    <3> QED BY <3>1, <3>2
  <2>5. a.hwm > 0 => a.filled[a.hwm - 1]
    <3>1. CASE st.first_seq_set
        BY <3>1, <2>3 DEF Tight
    <3>2. CASE ~st.first_seq_set
        BY <3>2, <2>3, Unanchored
    <3> QED BY <3>1, <3>2
  <2>6. \A s \in SeqNum : Has(st, s) <=> Has(a, s)
    <3>1. CASE st.first_seq_set
        BY <3>1, <2>3
    <3>2. CASE ~st.first_seq_set
        BY <3>2, <2>4, Unanchored
    <3> QED BY <3>1, <3>2
  <2> HIDE DEF diff, t
  <2>7. CASE diff < 0 /\ ShiftFits(a, -diff) /\ t = WriteSegment(r, 0, payload)
    <3>1. a = st /\ st.first_seq_set
        BY <2>2, <2>3, <2>7
    <3>2. Tight(a)
        BY <3>1
    <3>3. /\ Tight(r) /\ r.first_seq = seq /\ r.first_seq_set
          /\ \A s \in SeqNum : Has(r, s) => Has(a, s) /\ ByteAt(r, s) = ByteAt(a, s)
        BY <2>1, <2>7, <3>2, ShiftRightLearns DEF diff
    <3>4. r \in State /\ Keeps(a, r)
        BY <2>1, <2>7, ShiftRightKeeps DEF diff
    <3>5. SeqSub(seq, r.first_seq) = 0 /\ 0 \in 0 .. Window - 1
        BY <3>3, SeqSubSelf, SizeAssumption DEF Window
    <3> HIDE DEF r
    <3>6. /\ Learns(r, t, seq, payload) /\ Tight(t) /\ Has(t, seq) /\ t.first_seq = seq
      <4>1. LET u == WriteSegment(r, SeqSub(seq, r.first_seq), payload)
            IN  /\ Learns(r, u, seq, payload) /\ Tight(u) /\ Has(u, seq)
                /\ u.first_seq = r.first_seq /\ u.first_seq_set = r.first_seq_set
                /\ SeqSub(seq, r.first_seq) + Len(payload) <= Window =>
                     \A s \in SeqNum : Within(s, seq, payload) => Has(u, s)
        <5>1. SeqSub(seq, r.first_seq) \in 0 .. Window - 1
            BY <3>5
        <5>2. r.hwm > 0 => r.filled[r.hwm - 1]
            BY <3>3 DEF Tight
        <5>3. seq \in SeqNum /\ payload \in Seq(Byte) /\ payload # << >> /\ r \in State
            BY <1>2, <3>4
        <5> QED BY <5>1, <5>2, <5>3, WriteSegmentLearns
      <4> QED BY <4>1, <3>3, <3>5, <2>7
    <3>7. Learns(st, t, seq, payload)
        BY <3>1, <3>3, <3>4, <3>6 DEF Learns, Keeps
    <3>8. ~Has(st, seq)
      <4>1. SeqSub(seq, st.first_seq) = diff + SeqSpace /\ diff >= -HalfSpace
          BY <2>2, <2>7, <3>1, SeqDiffSub DEF diff
      <4>2. SeqSub(seq, st.first_seq) \notin Offset
          BY <4>1, <2>2, SizeAssumption DEF Offset, SeqSpace
      <4> QED BY <4>2 DEF Has
    <3> QED BY <1>2, <3>6, <3>7, <3>8 DEF t
  <2>8. CASE diff \in 0 .. Window - 1 /\ diff = SeqSub(seq, a.first_seq)
             /\ t = WriteSegment(a, diff, payload)
    <3>1. /\ Learns(a, t, seq, payload) /\ Tight(t) /\ Has(t, seq)
          /\ t.first_seq = a.first_seq
      <4>1. LET u == WriteSegment(a, SeqSub(seq, a.first_seq), payload)
            IN  /\ Learns(a, u, seq, payload) /\ Tight(u) /\ Has(u, seq)
                /\ u.first_seq = a.first_seq /\ u.first_seq_set = a.first_seq_set
                /\ SeqSub(seq, a.first_seq) + Len(payload) <= Window =>
                     \A s \in SeqNum : Within(s, seq, payload) => Has(u, s)
          BY <1>2, <2>1, <2>5, <2>8, WriteSegmentLearns
      <4> QED BY <4>1, <2>8
    <3>2. Learns(st, t, seq, payload)
        BY <3>1, <2>4, <2>6 DEF Learns
    <3>3. t = a \/ \E s \in SeqNum : Has(t, s) /\ ~Has(a, s)
        BY <1>2, <2>1, <2>8, WriteSegmentNews
    <3>4. t = st \/ \E s \in SeqNum : Has(t, s) /\ ~Has(st, s)
      <4>1. CASE st.first_seq_set
          BY <4>1, <2>3, <3>3
      <4>2. CASE ~st.first_seq_set
          BY <4>2, <3>1, Unanchored
      <4> QED BY <4>1, <4>2
    <3> QED BY <1>2, <2>3, <3>1, <3>2, <3>4 DEF t
  <2>9. CASE ~(diff < 0 /\ ShiftFits(a, -diff)) /\ ~(diff \in 0 .. Window - 1) /\ t = a
    <3>1. diff # 0
        BY <2>9, SizeAssumption DEF Window
    <3>2. t = st /\ st.first_seq_set
        BY <3>1, <2>3, <2>9
    <3> QED BY <3>2 DEF Learns, t
  <2> QED BY <2>2, <2>7, <2>8, <2>9
<1> QED BY <1>1, <1>2

(* A segment that fits the window, with what the buffer already holds when *)
(* it has to be shifted, is placed whole.                                  *)
THEOREM PlaceComplete ==
    ASSUME NEW st \in State, BelowHwm(st), Exact(st), Tight(st),
           NEW seq \in SeqNum, NEW payload \in Seq(Byte), payload # << >>,
           Len(payload) <= Window,
           st.first_seq_set =>
               LET diff == SeqDiff(seq, st.first_seq)
               IN  IF diff < 0 THEN st.hwm - diff <= Window
                               ELSE diff + Len(payload) <= Window
    PROVE  \A s \in SeqNum : Within(s, seq, payload) => Has(Place(st, seq, payload), s)
<1> DEFINE a == Anchor(st, seq)
           diff == SeqDiff(seq, a.first_seq)
           t == Place(st, seq, payload)
           r == ShiftRight(a, -diff, seq)
<1>0. Len(payload) \in Nat \ {0} /\ Window \in Nat /\ st.hwm \in Nat
    BY SizeAssumption DEF Window, State, Offset
<1>1. a \in State /\ BelowHwm(a) /\ Exact(a) /\ a.first_seq_set
    BY AnchorKeeps
<1>2. /\ a.first_seq \in SeqNum /\ diff \in Int
      /\ \/ /\ diff < 0 /\ ShiftFits(a, -diff)
            /\ t = WriteSegment(r, 0, payload)
         \/ /\ diff \in 0 .. Window - 1 /\ diff = SeqSub(seq, a.first_seq)
            /\ t = WriteSegment(a, diff, payload)
         \/ /\ ~(diff < 0 /\ ShiftFits(a, -diff)) /\ ~(diff \in 0 .. Window - 1)
            /\ t = a
    BY PlaceCases
<1>3. \/ st.first_seq_set /\ a = st
      \/ ~st.first_seq_set /\ a.hwm = 0 /\ diff = 0
  <2>1. CASE st.first_seq_set
      BY <2>1 DEF Anchor
  <2>2. CASE ~st.first_seq_set
    <3>1. a = [st EXCEPT !.first_seq = seq, !.first_seq_set = TRUE]
        BY <2>2 DEF Anchor
    <3>2. a.first_seq = seq /\ a.hwm = 0
        BY <2>2, <3>1 DEF State, BelowHwm
    <3> HIDE DEF a
    <3>3. diff = 0
        BY <3>2, SeqSubSelf
    <3> QED BY <2>2, <3>2, <3>3
  <2> QED BY <2>1, <2>2
<1> HIDE DEF a
<1>4. IF diff < 0 THEN a.hwm - diff <= Window /\ a = st ELSE diff + Len(payload) <= Window
    BY <1>0, <1>3
<1> HIDE DEF diff, t
<1>5. CASE diff < 0
  <2>1. a.hwm \in Nat /\ a.hwm - diff <= Window
      BY <1>0, <1>4, <1>5
  <2>2. ShiftFits(a, -diff)
      BY <1>0, <1>2, <1>5, <2>1 DEF ShiftFits
  <2>3. t = WriteSegment(r, 0, payload)
      BY <1>2, <1>5, <2>2
  <2>4. Tight(r) /\ r.first_seq = seq
      BY <1>1, <1>4, <1>5, <2>2, ShiftRightLearns DEF diff
  <2>5. r \in State
      BY <1>1, <1>5, <2>2, ShiftRightKeeps DEF diff
  <2>6. SeqSub(seq, r.first_seq) = 0 /\ 0 \in 0 .. Window - 1
      BY <2>4, SeqSubSelf, SizeAssumption DEF Window
  <2> HIDE DEF r
  <2>7. LET u == WriteSegment(r, SeqSub(seq, r.first_seq), payload)
        IN  /\ Learns(r, u, seq, payload) /\ Tight(u) /\ Has(u, seq)
            /\ u.first_seq = r.first_seq /\ u.first_seq_set = r.first_seq_set
            /\ SeqSub(seq, r.first_seq) + Len(payload) <= Window =>
                  \A s \in SeqNum : Within(s, seq, payload) => Has(u, s)
      BY <2>4, <2>5, <2>6, WriteSegmentLearns DEF Tight
  <2> QED BY <1>0, <2>3, <2>6, <2>7 DEF t
<1>6. CASE ~(diff < 0)
  <2>1. diff \in 0 .. Window - 1 /\ diff + Len(payload) <= Window
      BY <1>0, <1>2, <1>4, <1>6
  <2>2. t = WriteSegment(a, diff, payload) /\ diff = SeqSub(seq, a.first_seq)
      BY <1>2, <1>6, <2>1
  <2>3. a.hwm > 0 => a.filled[a.hwm - 1]
      BY <1>3 DEF Tight
  <2>4. LET u == WriteSegment(a, SeqSub(seq, a.first_seq), payload)
        IN  /\ Learns(a, u, seq, payload) /\ Tight(u) /\ Has(u, seq)
            /\ u.first_seq = a.first_seq /\ u.first_seq_set = a.first_seq_set
            /\ SeqSub(seq, a.first_seq) + Len(payload) <= Window =>
                  \A s \in SeqNum : Within(s, seq, payload) => Has(u, s)
      BY <1>1, <2>1, <2>2, <2>3, WriteSegmentLearns
  <2> QED BY <2>1, <2>2, <2>4 DEF t
<1> QED BY <1>5, <1>6

-----------------------------------------------------------------------------
(* The flow table. *)

(* What every slot of the states array satisfies, in use or not: the       *)
(* placement invariant, and an exact prefix until a verdict is cached      *)
(* (parser_flow_cache_verdict() resets contig_len and leaves the rest).    *)
SlotOK(st) == BelowHwm(st) /\ (~st.verdict_cached => Exact(st))

TableInv == TypeOK /\ \A i \in Slot : SlotOK(states[i])

-----------------------------------------------------------------------------
(* The payload handed to the flow table is a sequence of bytes. *)
LEMMA PayloadType ==
    ASSUME NEW pkt \in Packet
    PROVE  Payload(pkt) \in Seq(Byte) /\ pkt.key \in Key /\ pkt.seq \in SeqNum
<1>1. pkt.data \in Seq(Byte) /\ pkt.pad \in Nat /\ pkt.key \in Key /\ pkt.seq \in SeqNum
    BY TableAssumption
<1>2. [i \in 1 .. pkt.pad |-> NUL] \in Seq(Byte)
    BY <1>1, ByteAssumption
<1> QED BY <1>1, <1>2 DEF Payload

(* memset() makes a well-formed state. *)
LEMMA ZeroStateOK == ZeroState \in State /\ SlotOK(ZeroState)
<1>1. 0 \in Offset /\ 0 \in SeqNum
    BY SizeAssumption DEF Offset, SeqNum, SeqSpace
<1>2. ZeroState \in State
    BY <1>1, ByteAssumption DEF ZeroState, State
<1>3. SlotOK(ZeroState)
    BY <1>1 DEF ZeroState, SlotOK, BelowHwm, Exact, Prefixed
<1> QED BY <1>2, <1>3

(* The NUL that try_extract_http() writes behind the prefix hits no placed *)
(* byte.                                                                   *)
LEMMA ReassembleExact ==
    ASSUME NEW k \in Key, NEW st \in State, BelowHwm(st), Exact(st), NEW pkt \in Packet
    PROVE  LET p == Reassemble(k, st, pkt)
           IN  p \in State /\ BelowHwm(p) /\ Exact(p) /\ Keeps(st, p)
<1> DEFINE q == Place(st, pkt.seq, Payload(pkt))
           p == [q EXCEPT !.buf[q.contig_len] = NUL]
<1>1. q \in State /\ BelowHwm(q) /\ Exact(q) /\ Keeps(st, q)
    BY PayloadType, PlaceExact
<1>2. Reassemble(k, st, pkt) = IF k \in HttpKeys THEN p ELSE q
    BY DEF Reassemble
<1> HIDE DEF q
<1>3. q.contig_len \in Offset /\ q.buf \in [Offset -> Byte]
    BY <1>1 DEF State
<1>4. p = [q EXCEPT !.buf = [q.buf EXCEPT ![q.contig_len] = NUL]]
    OBVIOUS
<1>5. [q.buf EXCEPT ![q.contig_len] = NUL] \in [Offset -> Byte]
    BY <1>3, ByteAssumption
<1>6. p \in State
    BY <1>1, <1>4, <1>5 DEF State
<1>7. /\ p.filled = q.filled /\ p.hwm = q.hwm /\ p.contig_len = q.contig_len
      /\ p.first_seq = q.first_seq /\ p.first_seq_set = q.first_seq_set
      /\ p.buf = [q.buf EXCEPT ![q.contig_len] = NUL]
    BY <1>1, <1>4 DEF State
<1> HIDE DEF p
<1>8. BelowHwm(p) /\ Exact(p)
    BY <1>1, <1>7 DEF BelowHwm, Exact, Prefixed
<1>9. ASSUME NEW o \in Offset, q.filled[o]
      PROVE  p.filled[o] /\ p.buf[o] = q.buf[o]
  <2>1. o # q.contig_len
      BY <1>9, <1>1 DEF Exact
  <2> QED BY <2>1, <1>3, <1>7, <1>9
<1>10. Keeps(q, p)
    BY <1>7, <1>9 DEF Keeps, Has, ByteAt
<1> QED BY <1>1, <1>2, <1>6, <1>8, <1>10, KeepsTransitive

(* dpi_engine_scan() answers FORWARD or DROP. *)
LEMMA ScanResultsType == \A str : ScanResults(str) \subseteq Action
BY DEF ScanResults, Action

(* parser_flow_cache_verdict() leaves a well-formed flow state. *)
LEMMA CacheVerdictOK ==
    ASSUME NEW st \in State, BelowHwm(st), NEW a \in Action
    PROVE  LET t == CacheVerdict(st, a)
           IN  t \in State /\ SlotOK(t) /\ Keeps(st, t)
<1> DEFINE t == CacheVerdict(st, a)
<1>1. 0 \in Offset
    BY SizeAssumption DEF Offset
<1>2. t \in State
    BY <1>1 DEF CacheVerdict, State, Action
<1>3. /\ t.filled = st.filled /\ t.hwm = st.hwm /\ t.buf = st.buf
      /\ t.first_seq = st.first_seq /\ t.first_seq_set = st.first_seq_set
      /\ t.verdict_cached
    BY DEF CacheVerdict, State
<1> HIDE DEF t
<1>4. SlotOK(t)
    BY <1>3 DEF SlotOK, BelowHwm
<1>5. Keeps(st, t)
    BY <1>3 DEF Keeps, Has, ByteAt
<1> QED BY <1>2, <1>4, <1>5 DEF t

(* Stamping the entry touches nothing that placement is about. *)
LEMMA StampOK ==
    ASSUME NEW st \in State, SlotOK(st), now \in Nat
    PROVE  LET t == [st EXCEPT !.last_seen_tsc = now]
           IN  /\ t \in State /\ SlotOK(t) /\ Keeps(st, t)
               /\ t.verdict_cached = st.verdict_cached
<1> DEFINE t == [st EXCEPT !.last_seen_tsc = now]
<1>1. t \in State
    BY DEF State
<1>2. /\ t.filled = st.filled /\ t.hwm = st.hwm /\ t.contig_len = st.contig_len
      /\ t.buf = st.buf /\ t.verdict_cached = st.verdict_cached
      /\ t.first_seq = st.first_seq /\ t.first_seq_set = st.first_seq_set
    BY DEF State
<1> HIDE DEF t
<1>3. SlotOK(t)
    BY <1>2 DEF SlotOK, BelowHwm, Exact, Prefixed
<1>4. Keeps(st, t)
    BY <1>2 DEF Keeps, Has, ByteAt
<1> QED BY <1>1, <1>2, <1>3, <1>4 DEF t

(* What the worker does with a packet is an Outcome. *)
LEMMA AnswerType ==
    ASSUME NEW k \in Key, NEW status \in Status, NEW a \in Action,
           NEW no_sni \in BOOLEAN, NEW new \in BOOLEAN
    PROVE  LET o == Answer(k, status, a, no_sni, new)
           IN  o \in Outcome /\ o.key = k /\ o.new = new
BY DEF Answer, Outcome

(* Whatever parser_flow_update() and the worker's switch do with a packet, *)
(* the entry stays well-formed and keeps its bytes.                        *)
LEMMA ResultsOK ==
    ASSUME NEW k \in Key, NEW st \in State, SlotOK(st), now \in Nat,
           NEW pkt \in Packet, NEW new \in BOOLEAN, NEW r \in Results(k, st, pkt, new)
    PROVE  /\ r.st \in State /\ SlotOK(r.st) /\ Keeps(st, r.st)
           /\ r.out \in Outcome /\ r.out.key = k /\ r.out.new = new
<1> DEFINE t == [st EXCEPT !.last_seen_tsc = now]
           p == Reassemble(k, t, pkt)
           x == Extract(k, p, p.contig_len)
           q == [p EXCEPT !.no_sni_cached = TRUE]
           status == IF p.contig_len >= Window THEN "GIVE_UP" ELSE "PENDING"
<1>1. t \in State /\ SlotOK(t) /\ Keeps(st, t) /\ t.verdict_cached = st.verdict_cached
    BY StampOK
<1>2. \/ t.verdict_cached
         /\ r = [st  |-> t,
                 out |-> Answer(k, "CACHED", t.cached_action, t.no_sni_cached, new)]
      \/ ~t.verdict_cached /\ \E a \in ScanResults(x.str) :
            r = [st |-> CacheVerdict(p, a), out |-> Answer(k, "READY", a, FALSE, new)]
      \/ ~t.verdict_cached
         /\ r = [st  |-> CacheVerdict(q, "FORWARD"),
                 out |-> Answer(k, "NO_SNI", "FORWARD", TRUE, new)]
      \/ ~t.verdict_cached
         /\ r = [st |-> p, out |-> Answer(k, status, "FORWARD", FALSE, new)]
    BY Zenon DEF Results
<1> HIDE DEF t
<1>3. CASE t.verdict_cached
  <2>1. r = [st  |-> t,
             out |-> Answer(k, "CACHED", t.cached_action, t.no_sni_cached, new)]
      BY <1>2, <1>3, Zenon
  <2>2. t.cached_action \in Action /\ t.no_sni_cached \in BOOLEAN /\ "CACHED" \in Status
      BY <1>1 DEF State, Action, Status
  <2>3. r.st = t /\ r.out = Answer(k, "CACHED", t.cached_action, t.no_sni_cached, new)
      BY <2>1
  <2> QED BY <1>1, <2>2, <2>3, AnswerType
<1>4. CASE ~t.verdict_cached
  <2>1. p \in State /\ BelowHwm(p) /\ Exact(p) /\ Keeps(t, p)
      BY <1>1, <1>4, ReassembleExact DEF SlotOK
  <2> HIDE DEF p
  <2>2. Keeps(st, p)
      BY <1>1, <2>1, KeepsTransitive
  <2>3. ASSUME NEW a \in ScanResults(x.str),
               r = [st |-> CacheVerdict(p, a), out |-> Answer(k, "READY", a, FALSE, new)]
        PROVE  /\ r.st \in State /\ SlotOK(r.st) /\ Keeps(st, r.st)
               /\ r.out \in Outcome /\ r.out.key = k /\ r.out.new = new
    <3>1. a \in Action /\ "READY" \in Status
        BY <2>3, ScanResultsType DEF Status
    <3>2. LET c == CacheVerdict(p, a)
          IN  c \in State /\ SlotOK(c) /\ Keeps(p, c)
        BY <2>1, <3>1, CacheVerdictOK
    <3>3. Keeps(st, CacheVerdict(p, a))
        BY <2>2, <3>2, KeepsTransitive
    <3>4. r.st = CacheVerdict(p, a) /\ r.out = Answer(k, "READY", a, FALSE, new)
        BY <2>3
    <3>5. r.out \in Outcome /\ r.out.key = k /\ r.out.new = new
        BY <3>1, <3>4 DEF Answer, Outcome
    <3> QED BY <3>2, <3>3, <3>4, <3>5, Zenon
  <2>4. CASE r = [st  |-> CacheVerdict(q, "FORWARD"),
                  out |-> Answer(k, "NO_SNI", "FORWARD", TRUE, new)]
    <3>1. q \in State
        BY <2>1 DEF State
    <3>2. /\ q.filled = p.filled /\ q.hwm = p.hwm /\ q.buf = p.buf
          /\ q.first_seq = p.first_seq /\ q.first_seq_set = p.first_seq_set
        BY <2>1 DEF State
    <3> HIDE DEF q
    <3>3. BelowHwm(q) /\ Keeps(p, q)
        BY <2>1, <3>2 DEF BelowHwm, Keeps, Has, ByteAt
    <3>4. "FORWARD" \in Action /\ "NO_SNI" \in Status
        BY DEF Action, Status
    <3>5. LET c == CacheVerdict(q, "FORWARD")
          IN  c \in State /\ SlotOK(c) /\ Keeps(q, c)
        BY <3>1, <3>3, <3>4, CacheVerdictOK
    <3>6. Keeps(st, CacheVerdict(q, "FORWARD"))
        BY <2>2, <3>3, <3>5, KeepsTransitive
    <3>7. /\ r.st = CacheVerdict(q, "FORWARD")
          /\ r.out = Answer(k, "NO_SNI", "FORWARD", TRUE, new)
        BY <2>4
    <3>8. r.out \in Outcome /\ r.out.key = k /\ r.out.new = new
        BY <3>4, <3>7 DEF Answer, Outcome
    <3> QED BY <3>5, <3>6, <3>7, <3>8, Zenon
  <2>5. CASE r = [st |-> p, out |-> Answer(k, status, "FORWARD", FALSE, new)]
    <3>1. status \in Status /\ "FORWARD" \in Action
        BY DEF Status, Action
    <3> HIDE DEF status
    <3>2. SlotOK(p)
        BY <2>1 DEF SlotOK
    <3>3. r.st = p /\ r.out = Answer(k, status, "FORWARD", FALSE, new)
        BY <2>5
    <3>4. r.out \in Outcome /\ r.out.key = k /\ r.out.new = new
        BY <3>1, <3>3 DEF Answer, Outcome
    <3> QED BY <2>1, <2>2, <3>2, <3>3, <3>4, Zenon
  <2> QED BY <1>2, <1>4, <2>3, <2>4, <2>5
<1> QED BY <1>3, <1>4

-----------------------------------------------------------------------------
(* No two flows of h share a slot. *)
Injective(h) == \A j, k \in Live(h) : h[j] = h[k] => j = k

(* The table after a sweep is a part of the table before. *)
LEMMA SweepShrinks ==
    ASSUME TableInv, NEW gone \in Swept(hash)
    PROVE  LET h == Delete(hash, gone)
           IN  /\ h \in [Key -> Slot \cup {NoSlot}] /\ Injective(h)
               /\ \A k \in Key : h[k] # NoSlot => h[k] = hash[k]
<1> DEFINE h == Delete(hash, gone)
<1>1. hash \in [Key -> Slot \cup {NoSlot}] /\ Injective(hash)
    BY DEF TableInv, TypeOK, Injective
<1>2. h = [k \in Key |-> IF k \in gone THEN NoSlot ELSE hash[k]]
    BY DEF Delete
<1> HIDE DEF h
<1>3. h \in [Key -> Slot \cup {NoSlot}]
    BY <1>1, <1>2
<1>4. \A k \in Key : h[k] # NoSlot => h[k] = hash[k]
    BY <1>2
<1>5. Injective(h)
    BY <1>1, <1>4 DEF Injective, Live
<1> QED BY <1>3, <1>4, <1>5 DEF h

(* The history stays a set of packets for every key. *)
LEMMA ForgetType ==
    ASSUME TypeOK, NEW h
    PROVE  Forget(h) \in [Key -> SUBSET Packet]
BY DEF Forget, TypeOK

(* A packet of a known flow. *)
LEMMA KnownFlowInv ==
    ASSUME TableInv, NEW pkt \in Packet,
           NEW h \in [Key -> Slot \cup {NoSlot}], Injective(h),
           KnownFlow(pkt, h), UNCHANGED now,
           call_count' \in 0 .. SweepInterval - 1, idle_calls' \in [Key -> Nat]
    PROVE  TableInv'
<1> DEFINE k == pkt.key
           st == states[h[k]]
<1>1. k \in Key /\ h[k] \in Slot
    BY PayloadType DEF KnownFlow
<1>2. st \in State /\ SlotOK(st) /\ now \in Nat
    BY <1>1 DEF TableInv, TypeOK
<1>3. PICK r \in Results(k, st, pkt, FALSE) :
          states' = [states EXCEPT ![h[k]] = r.st] /\ out' = r.out
    BY DEF KnownFlow
<1>4. r.st \in State /\ SlotOK(r.st) /\ r.out \in Outcome
  <2>1. PICK new \in BOOLEAN : new = FALSE
      OBVIOUS
  <2>2. r \in Results(k, st, pkt, new)
      BY <2>1, Zenon
  <2> HIDE DEF st
  <2> QED BY <1>1, <1>2, <2>2, ResultsOK
<1>5. states' \in [Slot -> State] /\ \A i \in Slot : SlotOK(states'[i])
    BY <1>1, <1>3, <1>4 DEF TableInv, TypeOK
<1>6. seen' \in [Key -> SUBSET Packet]
  <2>1. Forget(h) \in [Key -> SUBSET Packet]
      BY ForgetType DEF TableInv
  <2>2. Forget(h)[k] \in SUBSET Packet /\ Forget(h)[k] \cup {pkt} \in SUBSET Packet
      BY <2>1, <1>1
  <2>3. \/ seen' = [Forget(h) EXCEPT ![k] = Forget(h)[k]]
        \/ seen' = [Forget(h) EXCEPT ![k] = Forget(h)[k] \cup {pkt}]
      BY DEF KnownFlow
  <2> HIDE DEF k
  <2> QED BY <2>1, <2>2, <2>3, <1>1
<1>7. TypeOK'
    BY <1>3, <1>4, <1>5, <1>6 DEF TableInv, TypeOK, KnownFlow, Injective
<1> QED BY <1>5, <1>7 DEF TableInv

(* A packet that opens an entry. *)
LEMMA NewFlowInv ==
    ASSUME TableInv, NEW pkt \in Packet,
           NEW h \in [Key -> Slot \cup {NoSlot}], Injective(h),
           NewFlow(pkt, h), UNCHANGED now,
           call_count' \in 0 .. SweepInterval - 1, idle_calls' \in [Key -> Nat]
    PROVE  TableInv'
<1> DEFINE k == pkt.key
<1>1. k \in Key
    BY PayloadType
<1>2. PICK i \in FreeSlots(h), r \in Results(k, ZeroState, pkt, TRUE) :
          /\ hash' = [h EXCEPT ![k] = i]
          /\ states' = [states EXCEPT ![i] = r.st]
          /\ out' = r.out
    BY DEF NewFlow
<1>3. now \in Nat
    BY DEF TableInv, TypeOK
<1>4. r.st \in State /\ SlotOK(r.st) /\ r.out \in Outcome
    BY <1>1, <1>3, ZeroStateOK, ResultsOK
<1>5. i \in Slot /\ \A j \in Key : h[j] # i
    BY DEF FreeSlots
<1>6. states' \in [Slot -> State] /\ \A j \in Slot : SlotOK(states'[j])
    BY <1>2, <1>4, <1>5 DEF TableInv, TypeOK
<1>7. hash' \in [Key -> Slot \cup {NoSlot}]
    BY <1>1, <1>2, <1>5
<1>8. Injective(hash')
    BY <1>1, <1>2, <1>5 DEF Injective, Live
<1>9. seen' \in [Key -> SUBSET Packet]
  <2>1. Forget(h) \in [Key -> SUBSET Packet]
      BY ForgetType DEF TableInv
  <2>2. seen' = [Forget(h) EXCEPT ![k] = {pkt}]
      BY DEF NewFlow
  <2> HIDE DEF k
  <2> QED BY <2>1, <2>2, <1>1
<1>10. TypeOK'
    BY <1>2, <1>3, <1>4, <1>6, <1>7, <1>8, <1>9 DEF TypeOK, Injective, Live
<1> QED BY <1>6, <1>10 DEF TableInv

(* A packet that finds the table full. *)
LEMMA TableFullInv ==
    ASSUME TableInv, NEW pkt \in Packet,
           NEW h \in [Key -> Slot \cup {NoSlot}], Injective(h),
           TableFull(pkt, h), UNCHANGED now,
           call_count' \in 0 .. SweepInterval - 1, idle_calls' \in [Key -> Nat]
    PROVE  TableInv'
<1>1. pkt.key \in Key
    BY PayloadType
<1>2. out' \in Outcome
    BY <1>1 DEF TableFull, Answer, Outcome, Status, Action
<1>3. seen' \in [Key -> SUBSET Packet]
    BY ForgetType DEF TableFull, TableInv
<1> QED BY <1>2, <1>3 DEF TableInv, TypeOK, TableFull, Injective

(* Every step preserves the invariant. *)
LEMMA InitTableInv == Init => TableInv
<1> SUFFICES ASSUME Init PROVE TableInv
    OBVIOUS
<1>1. states \in [Slot -> State] /\ \A i \in Slot : SlotOK(states[i])
    BY ZeroStateOK DEF Init
<1>2. Live(hash) = {}
    BY DEF Init, Live
<1>3. TypeOK
    BY <1>1, <1>2, TableAssumption DEF Init, TypeOK
<1> QED BY <1>1, <1>3 DEF TableInv

(* The count of calls that left an entry idle goes on or starts again. *)
LEMMA IdleCallsCount ==
    ASSUME idle_calls \in [Key -> Nat], NEW pkt \in Packet, HandlePacket(pkt)
    PROVE  /\ idle_calls' \in [Key -> Nat]
           /\ \A k \in Key : idle_calls'[k] = IF k \in Idle(hash)' THEN idle_calls[k] + 1 ELSE 0
<1>1. idle_calls' = [k \in Key |-> IF k \in Idle(hash)' THEN idle_calls[k] + 1 ELSE 0]
    BY Zenon DEF HandlePacket
<1> DEFINE I == Idle(hash)'
<1>2. idle_calls' = [k \in Key |-> IF k \in I THEN idle_calls[k] + 1 ELSE 0]
    BY <1>1
<1> HIDE DEF I
<1>3. /\ idle_calls' \in [Key -> Nat]
      /\ \A k \in Key : idle_calls'[k] = IF k \in I THEN idle_calls[k] + 1 ELSE 0
    BY <1>2
<1> QED BY <1>3 DEF I

(* A packet, in any of its three cases, preserves the table invariant. *)
LEMMA HandlePacketInv ==
    ASSUME TableInv, NEW pkt \in Packet, HandlePacket(pkt)
    PROVE  TableInv'
<1>1. call_count' \in 0 .. SweepInterval - 1
    BY TableAssumption DEF HandlePacket, TableInv, TypeOK
<1>2. PICK gone \in Swept(hash) :
          LET h == Delete(hash, gone)
          IN  KnownFlow(pkt, h) \/ NewFlow(pkt, h) \/ TableFull(pkt, h)
    BY DEF HandlePacket
<1> DEFINE h == Delete(hash, gone)
<1>3. h \in [Key -> Slot \cup {NoSlot}] /\ Injective(h)
    BY SweepShrinks
<1>4. UNCHANGED now
    BY DEF HandlePacket
<1>5. KnownFlow(pkt, h) \/ NewFlow(pkt, h) \/ TableFull(pkt, h)
    BY <1>2
<1>6. idle_calls' \in [Key -> Nat]
    BY IdleCallsCount DEF TableInv, TypeOK
<1> HIDE DEF h
<1> QED BY <1>1, <1>3, <1>4, <1>5, <1>6, KnownFlowInv, NewFlowInv, TableFullInv

(* Every step preserves the table invariant ... *)
LEMMA NextTableInv == TableInv /\ [Next]_vars => TableInv'
<1> SUFFICES ASSUME TableInv, [Next]_vars PROVE TableInv'
    OBVIOUS
<1>1. CASE \E pkt \in Packet : HandlePacket(pkt)
    BY <1>1, HandlePacketInv
<1>2. CASE Tick
    BY <1>2 DEF Tick, TableInv, TypeOK
<1>3. CASE UNCHANGED vars
    BY <1>3 DEF vars, TableInv, TypeOK
<1> QED BY <1>1, <1>2, <1>3 DEF Next

(* ... so it holds in every reachable state. *)
LEMMA SpecTableInv == Spec => []TableInv
BY InitTableInv, NextTableInv, PTL DEF Spec

-----------------------------------------------------------------------------
(* Every variable of the flow table has its type in every reachable state: *)
(* offsets stay inside buf, no two flows share a slot.                     *)
THEOREM FlowTypeOK == Spec => []TypeOK
<1>1. TableInv => TypeOK
    BY DEF TableInv
<1> QED BY SpecTableInv, <1>1, PTL

(* The extractors read exactly the gap-free prefix of a flow without a     *)
(* verdict, whatever segments arrive in whatever order.                    *)
THEOREM FlowContigExact == Spec => []ContigExact
<1>1. TableInv => ContigExact
  <2> SUFFICES ASSUME TableInv, NEW k \in Live(hash), ~StateOf(k).verdict_cached
               PROVE  /\ \A i \in 0 .. StateOf(k).contig_len - 1 : StateOf(k).filled[i]
                      /\ ~StateOf(k).filled[StateOf(k).contig_len]
      BY DEF ContigExact
  <2>1. hash[k] \in Slot
      BY DEF TableInv, TypeOK, Live
  <2> QED BY <2>1 DEF TableInv, SlotOK, Exact, Prefixed, StateOf
<1> QED BY SpecTableInv, <1>1, PTL

-----------------------------------------------------------------------------
(* A packet changes the state of a surviving entry only in ways that keep  *)
(* its bytes.                                                              *)
LEMMA HandlePacketKeeps ==
    ASSUME TableInv, NEW pkt \in Packet, HandlePacket(pkt),
           NEW k \in Key, Survives(k)
    PROVE  Keeps(states[hash[k]], states'[hash[k]])
<1>1. hash[k] \in Slot /\ hash[k] # NoSlot /\ hash'[k] = hash[k]
    BY DEF Survives, TableInv, TypeOK
<1>2. PICK gone \in Swept(hash) :
          LET h == Delete(hash, gone)
          IN  KnownFlow(pkt, h) \/ NewFlow(pkt, h) \/ TableFull(pkt, h)
    BY DEF HandlePacket
<1> DEFINE h == Delete(hash, gone)
           j == pkt.key
<1>3. /\ h \in [Key -> Slot \cup {NoSlot}] /\ Injective(h)
      /\ \A i \in Key : h[i] # NoSlot => h[i] = hash[i]
    BY SweepShrinks
<1>4. KnownFlow(pkt, h) \/ NewFlow(pkt, h) \/ TableFull(pkt, h)
    BY <1>2
<1>5. j \in Key /\ now \in Nat
    BY PayloadType DEF TableInv, TypeOK
<1> HIDE DEF h
<1>6. CASE KnownFlow(pkt, h)
  <2> DEFINE st == states[h[j]]
  <2>1. h[j] # NoSlot /\ h[j] \in Slot /\ hash' = h
      BY <1>3, <1>5, <1>6 DEF KnownFlow
  <2>2. st \in State /\ SlotOK(st)
      BY <2>1 DEF TableInv, TypeOK
  <2>3. PICK r \in Results(j, st, pkt, FALSE) : states' = [states EXCEPT ![h[j]] = r.st]
      BY <1>6 DEF KnownFlow
  <2>4. Keeps(st, r.st)
    <3>1. PICK new \in BOOLEAN : new = FALSE
        OBVIOUS
    <3>2. r \in Results(j, st, pkt, new)
        BY <3>1, Zenon
    <3> HIDE DEF st
    <3> QED BY <1>5, <2>2, <3>2, ResultsOK
  <2>5. CASE h[j] = hash[k]
    <3>1. states'[hash[k]] = r.st /\ states[hash[k]] = st
        BY <2>3, <2>5, <1>1 DEF TableInv, TypeOK
    <3> QED BY <3>1, <2>4, Zenon
  <2>6. CASE h[j] # hash[k]
    <3>1. states'[hash[k]] = states[hash[k]]
        BY <2>3, <2>6, <1>1 DEF TableInv, TypeOK
    <3> QED BY <3>1 DEF Keeps
  <2> QED BY <2>5, <2>6
<1>7. CASE NewFlow(pkt, h)
  <2>1. PICK i \in FreeSlots(h), r \in Results(j, ZeroState, pkt, TRUE) :
            /\ hash' = [h EXCEPT ![j] = i]
            /\ states' = [states EXCEPT ![i] = r.st]
            /\ out' = r.out
      BY <1>7 DEF NewFlow
  <2>2. r.out.key = j /\ r.out.new = TRUE
      BY <1>5, ZeroStateOK, ResultsOK
  <2>3. j # k
      BY <2>1, <2>2 DEF Survives
  <2>4. h[k] = hash[k]
      BY <2>1, <2>3, <1>1, <1>3, <1>5
  <2>5. i # hash[k]
      BY <2>4 DEF FreeSlots
  <2>6. states'[hash[k]] = states[hash[k]]
      BY <2>1, <2>5, <1>1 DEF TableInv, TypeOK
  <2> QED BY <2>6 DEF Keeps
<1>8. CASE TableFull(pkt, h)
    BY <1>8 DEF TableFull, Keeps
<1> QED BY <1>4, <1>6, <1>7, <1>8

(* "First wins", for every flow, every sequence of packets and every       *)
(* buffer size: while an entry lives, a byte once placed is never changed, *)
(* moved to another sequence number, or lost.                              *)
THEOREM FlowFirstWins == Spec => FirstWins
<1> DEFINE Step == \A k \in Key : Survives(k) =>
                      \A s \in SeqNum : Has(StateOf(k), s) =>
                          /\ Has(StateOf(k)', s)
                          /\ ByteAt(StateOf(k)', s) = ByteAt(StateOf(k), s)
<1>1. TableInv /\ [Next]_vars => [Step]_vars
  <2> SUFFICES ASSUME TableInv, Next, NEW k \in Key, Survives(k)
               PROVE  Keeps(StateOf(k), StateOf(k)')
      BY DEF Keeps
  <2>1. hash'[k] = hash[k]
      BY DEF Survives
  <2>2. CASE \E pkt \in Packet : HandlePacket(pkt)
      BY <2>1, <2>2, HandlePacketKeeps DEF StateOf
  <2>3. CASE Tick
      BY <2>3 DEF Tick, StateOf, Keeps
  <2> QED BY <2>2, <2>3 DEF Next
<1> QED BY SpecTableInv, <1>1, PTL DEF Spec, FirstWins
-----------------------------------------------------------------------------
(* What an entry and its history S, the packets placed since the entry was *)
(* made, have to do with each other: the anchor is the start of one of     *)
(* them, every byte was carried by one of them, and if they all fit one    *)
(* window then no byte of theirs is missing.                               *)
Anchored(st, S) == st.first_seq_set =>
                       \E pkt \in S : Payload(pkt) # << >> /\ pkt.seq = st.first_seq
Own(st, S) == \A s \in SeqNum : Has(st, s) =>
                  \E pkt \in S : Carries(pkt, s, ByteAt(st, s))
Complete(st, S) == (\E base \in SeqNum : FitsFrom(S, base)) =>
                       \A pkt \in S, s \in SeqNum : Covers(pkt, s) => Has(st, s)
Placed(st, S) == Tight(st) /\ Anchored(st, S) /\ Own(st, S) /\ Complete(st, S)

(* p differs from st in cells that no segment has filled, in contig_len    *)
(* and in the record of the verdict at most.                               *)
Alike(st, p) == /\ p.filled = st.filled /\ p.hwm = st.hwm
                /\ p.first_seq = st.first_seq /\ p.first_seq_set = st.first_seq_set
                /\ \A o \in Offset : st.filled[o] => p.buf[o] = st.buf[o]

(* Such states know the same bytes ... *)
LEMMA AlikeSame ==
    ASSUME NEW st, NEW p, Alike(st, p)
    PROVE  /\ \A s \in SeqNum : Has(p, s) <=> Has(st, s)
           /\ \A s \in SeqNum : Has(st, s) => ByteAt(p, s) = ByteAt(st, s)
           /\ Tight(st) <=> Tight(p)
<1>1. \A s \in SeqNum : Has(p, s) <=> Has(st, s)
    BY DEF Alike, Has
<1>2. ASSUME NEW s \in SeqNum, Has(st, s) PROVE ByteAt(p, s) = ByteAt(st, s)
    BY <1>2 DEF Alike, Has, ByteAt
<1>3. Tight(st) <=> Tight(p)
    BY DEF Alike, Tight
<1> QED BY <1>1, <1>2, <1>3

(* ... and have the same history. *)
LEMMA AlikePlaced ==
    ASSUME NEW st, NEW p, NEW S, Alike(st, p), Placed(st, S)
    PROVE  Placed(p, S)
<1>1. Tight(p) /\ Anchored(p, S)
    BY AlikeSame DEF Placed, Anchored, Alike
<1>2. Own(p, S)
    BY AlikeSame DEF Placed, Own
<1>3. Complete(p, S)
    BY AlikeSame DEF Placed, Complete
<1> QED BY <1>1, <1>2, <1>3 DEF Placed

(* Two segments in one window: the later one needs no shift, the earlier   *)
(* one a shift for which there is room.                                    *)
LEMMA WindowFits ==
    ASSUME NEW base \in SeqNum, NEW first \in SeqNum, NEW seq \in SeqNum,
           NEW len \in Nat, NEW hwm \in Nat,
           SeqSub(first, base) + hwm <= Window, SeqSub(seq, base) + len <= Window
    PROVE  LET diff == SeqDiff(seq, first)
           IN  IF diff < 0 THEN hwm - diff <= Window ELSE diff + len <= Window
BY SizeAssumption DEF SeqNum, SeqSpace, SeqSub, SeqDiff, Window

(* What the packets of a window have filled ends inside the window. *)
LEMMA HwmFits ==
    ASSUME NEW st \in State, NEW S \in SUBSET Packet, Placed(st, S), BelowHwm(st),
           st.first_seq_set, NEW base \in SeqNum, FitsFrom(S, base)
    PROVE  SeqSub(st.first_seq, base) + st.hwm <= Window
<1>0. /\ st.first_seq \in SeqNum /\ st.hwm \in Nat /\ st.hwm <= Window
      /\ Window \in Nat /\ 2 * Window < SeqSpace /\ SeqSpace \in Nat
    BY SizeAssumption DEF State, Offset, Window, SeqSpace
<1>1. st.hwm > 0 /\ st.hwm - 1 \in Offset /\ st.filled[st.hwm - 1]
    BY <1>0, SizeAssumption DEF Placed, Tight, State, Offset
<1>2. PICK s \in SeqNum : SeqSub(s, st.first_seq) = st.hwm - 1
    BY <1>0, <1>1, SeqAt
<1>3. Has(st, s)
    BY <1>1, <1>2 DEF Has
<1>4. PICK pkt \in S : Carries(pkt, s, ByteAt(st, s))
    BY <1>3 DEF Placed, Own
<1>5. PICK top \in S : Payload(top) # << >> /\ top.seq = st.first_seq
    BY DEF Placed, Anchored
<1>6. /\ Payload(pkt) \in Seq(Byte) /\ pkt.seq \in SeqNum
      /\ Payload(top) \in Seq(Byte)
    BY PayloadType
<1>7. /\ SeqSub(s, pkt.seq) < Len(Payload(pkt)) /\ SeqSub(s, pkt.seq) \in Nat
      /\ Len(Payload(pkt)) \in Nat /\ Len(Payload(top)) \in Nat \ {0}
  <2>1. SeqSub(s, pkt.seq) \in SeqNum
      BY <1>6, SeqDiffInt
  <2>2. SeqSub(s, pkt.seq) \in Nat
      BY <2>1, <1>0 DEF SeqNum
  <2> QED BY <2>2, <1>4, <1>5, <1>6 DEF Carries, Covers
<1>8. Payload(pkt) # << >>
    BY <1>7, <1>6
<1>9. /\ SeqSub(pkt.seq, base) + Len(Payload(pkt)) <= Window
      /\ SeqSub(st.first_seq, base) + Len(Payload(top)) <= Window
    BY <1>5, <1>8 DEF FitsFrom
<1>10. SeqSub(pkt.seq, base) \in Nat /\ SeqSub(st.first_seq, base) \in Nat
  <2>1. SeqSub(pkt.seq, base) \in SeqNum /\ SeqSub(st.first_seq, base) \in SeqNum
      BY <1>0, <1>6, SeqDiffInt
  <2> QED BY <2>1, <1>0 DEF SeqNum
<1>11. SeqSub(s, base) = SeqSub(pkt.seq, base) + SeqSub(s, pkt.seq)
  <2>1. SeqSub(pkt.seq, base) + SeqSub(s, pkt.seq) < SeqSpace
      BY <1>0, <1>7, <1>9, <1>10
  <2> QED BY <2>1, <1>6, SeqSubSum
<1>12. SeqSub(s, base) = SeqSub(st.first_seq, base) + (st.hwm - 1)
  <2>1. SeqSub(st.first_seq, base) + SeqSub(s, st.first_seq) < SeqSpace
      BY <1>0, <1>2, <1>7, <1>9, <1>10
  <2> QED BY <2>1, <1>0, <1>2, SeqSubSum
<1>13. PICK a \in Nat, b \in Nat, c \in Nat, l \in Nat, h \in Int :
           /\ a = SeqSub(pkt.seq, base) /\ b = SeqSub(s, pkt.seq) /\ c = SeqSub(st.first_seq, base)
           /\ l = Len(Payload(pkt)) /\ h = st.hwm
    BY <1>0, <1>1, <1>7, <1>10 DEF Offset
<1>14. b < l /\ a + l <= Window /\ a + b = c + (h - 1)
    BY <1>7, <1>9, <1>11, <1>12, <1>13
<1>15. c + h <= Window
  <2>1. Window \in Nat /\ a \in Nat /\ b \in Nat /\ c \in Nat /\ l \in Nat /\ h \in Int
      BY <1>0, <1>13
  <2> QED BY <1>14, <2>1
<1> QED BY <1>13, <1>15

(* Placing a packet adds it to the history. *)
LEMMA PlacePlaced ==
    ASSUME NEW st \in State, BelowHwm(st), Exact(st),
           NEW S \in SUBSET Packet, Placed(st, S), NEW pkt \in Packet
    PROVE  Placed(Place(st, pkt.seq, Payload(pkt)), S \cup {pkt})
<1> DEFINE seq == pkt.seq
           payload == Payload(pkt)
           t == Place(st, seq, payload)
<1>0. seq \in SeqNum /\ payload \in Seq(Byte)
    BY PayloadType
<1>1. /\ Learns(st, t, seq, payload) /\ Tight(t)
      /\ t.first_seq_set =>
            \/ st.first_seq_set /\ t.first_seq = st.first_seq
            \/ payload # << >> /\ t.first_seq = seq
      /\ t = st \/ \E s \in SeqNum : Has(t, s) /\ ~Has(st, s)
    BY <1>0, PlaceLearns DEF Placed
<1>2. t \in State /\ Keeps(st, t)
    BY <1>0, PlaceExact
<1>3. (\E base \in SeqNum : FitsFrom(S \cup {pkt}, base)) =>
          \A s \in SeqNum : Covers(pkt, s) => Has(t, s)
  <2> SUFFICES ASSUME NEW base \in SeqNum, FitsFrom(S \cup {pkt}, base), payload # << >>
               PROVE  \A s \in SeqNum : Covers(pkt, s) => Has(t, s)
    <3>1. CASE payload = << >>
      <4> SUFFICES ASSUME NEW s \in SeqNum, Covers(pkt, s) PROVE FALSE
          OBVIOUS
      <4>1. SeqSub(s, seq) \in SeqNum /\ SeqSub(s, seq) < Len(payload)
          BY <1>0, SeqDiffInt DEF Covers
      <4>2. Len(payload) = 0
          BY <3>1
      <4> HIDE DEF payload
      <4> QED BY <4>1, <4>2, SizeAssumption DEF SeqNum, SeqSpace
    <3> QED BY <3>1
  <2>0. Len(payload) \in Nat /\ SeqSub(seq, base) \in Nat /\ Window \in Nat
    <3>1. SeqSub(seq, base) \in SeqNum
        BY <1>0, SeqDiffInt
    <3>2. SeqSub(seq, base) \in Nat
        BY <3>1, SizeAssumption DEF SeqNum, SeqSpace
    <3> QED BY <3>2, <1>0, SizeAssumption DEF Window
  <2>1. SeqSub(seq, base) + Len(payload) <= Window
      BY DEF FitsFrom
  <2>2. FitsFrom(S, base)
      BY DEF FitsFrom
  <2>3. ASSUME st.first_seq_set
        PROVE  LET diff == SeqDiff(seq, st.first_seq)
               IN  IF diff < 0 THEN st.hwm - diff <= Window
                               ELSE diff + Len(payload) <= Window
    <3>1. SeqSub(st.first_seq, base) + st.hwm <= Window
        BY <2>2, <2>3, HwmFits
    <3>2. st.first_seq \in SeqNum /\ st.hwm \in Nat
        BY SizeAssumption DEF State, Offset
    <3> HIDE DEF seq, payload
    <3> QED BY <3>1, <3>2, <1>0, <2>0, <2>1, WindowFits
  <2>4. Len(payload) <= Window
      BY <2>0, <2>1
  <2> HIDE DEF seq, payload
  <2>5. \A s \in SeqNum : Within(s, seq, payload) => Has(t, s)
      BY <1>0, <2>3, <2>4, PlaceComplete DEF Placed
  <2> QED BY <2>5 DEF Within, Covers, seq, payload
<1> HIDE DEF t
<1>4. Anchored(t, S \cup {pkt})
    BY <1>1 DEF Placed, Anchored
<1>5. Own(t, S \cup {pkt})
  <2> SUFFICES ASSUME NEW s \in SeqNum, Has(t, s)
               PROVE  \E q \in S \cup {pkt} : Carries(q, s, ByteAt(t, s))
      BY DEF Own
  <2>1. CASE Has(st, s) /\ ByteAt(t, s) = ByteAt(st, s)
      BY <2>1 DEF Placed, Own
  <2>2. CASE Within(s, seq, payload) /\ payload[SeqSub(s, seq) + 1] = ByteAt(t, s)
      BY <2>2 DEF Within, Carries, Covers
  <2> QED BY <1>1, <2>1, <2>2 DEF Learns
<1>6. Complete(t, S \cup {pkt})
  <2> SUFFICES ASSUME NEW base \in SeqNum, FitsFrom(S \cup {pkt}, base),
                      NEW q \in S \cup {pkt}, NEW s \in SeqNum, Covers(q, s)
               PROVE  Has(t, s)
      BY DEF Complete
  <2>1. CASE q = pkt
      BY <2>1, <1>3
  <2>2. CASE q \in S
    <3>1. FitsFrom(S, base)
        BY DEF FitsFrom
    <3>2. Has(st, s)
        BY <2>2, <3>1 DEF Placed, Complete
    <3> QED BY <3>2, <1>2 DEF Keeps
  <2> QED BY <2>1, <2>2
<1> QED BY <1>1, <1>4, <1>5, <1>6 DEF Placed, t
-----------------------------------------------------------------------------
(* The extractor of flow k on the gap-free prefix of st, which does not    *)
(* read contig_len (parser_flow_cache_verdict() resets it).                *)
Extracted(k, st) == Extract(k, st, GapFrom(st.filled, 0, st.hwm))

(* An undecided flow is one whose prefix the extractor cannot decide yet;  *)
(* a decided one has the verdict of its prefix.                            *)
VerdictOK(k, st) ==
    /\ ~st.verdict_cached => /\ ~st.no_sni_cached
                             /\ Extracted(k, st).res \notin {"FOUND", "NOT_PRESENT"}
    /\ st.verdict_cached =>
          IF st.no_sni_cached
          THEN Extracted(k, st).res = "NOT_PRESENT" /\ st.cached_action = "FORWARD"
          ELSE /\ Extracted(k, st).res = "FOUND"
               /\ st.cached_action \in ScanResults(Extracted(k, st).str)

(* The extractor sees only the gap-free prefix: states that are alike give *)
(* the same answer.                                                        *)
LEMMA AlikeExtracted ==
    ASSUME NEW k \in Key, NEW st \in State, NEW p, Alike(st, p), BelowHwm(st)
    PROVE  Extracted(k, p) = Extracted(k, st)
<1> DEFINE g == GapFrom(st.filled, 0, st.hwm)
<1>0. st.hwm \in Offset /\ st.hwm \in Nat
    BY SizeAssumption DEF State, Offset
<1>1. /\ g \in 0 .. st.hwm
      /\ g = st.hwm \/ ~st.filled[g]
      /\ \A n \in 0 .. g - 1 : st.filled[n]
  <2>1. 0 \in Nat /\ 0 <= st.hwm
      BY <1>0
  <2> QED BY <1>0, <2>1, GapFromStops
<1>2. GapFrom(p.filled, 0, p.hwm) = g
    BY DEF Alike
<1> HIDE DEF g
<1>3. ASSUME NEW i \in 1 .. g PROVE p.buf[i - 1] = st.buf[i - 1]
  <2>1. i - 1 \in Offset /\ i - 1 \in 0 .. g - 1
      BY <1>0, <1>1, SizeAssumption DEF Offset
  <2> QED BY <2>1, <1>1 DEF Alike
<1>4. PrefixOf(p, g) = PrefixOf(st, g)
    BY <1>3 DEF PrefixOf
<1> QED BY <1>2, <1>4 DEF Extracted, Extract, ExtractFrom, g

(* Of an empty stream no extractor says anything. *)
LEMMA NothingExtracted ==
    ASSUME NEW k PROVE ExtractFrom(k, << >>) = Pending
<1>1. try_extract_tls_sni(<< >>) = Pending
  <2>1. Len(<< >>) < 2
      OBVIOUS
  <2> QED BY <2>1, Zenon DEF try_extract_tls_sni
<1>2. try_extract_http(<< >>) = Pending
  <2>1. CString(<< >>) = << >>
    <3>1. {i \in 1 .. Len(<< >>) : << >>[i] = ZERO} \cup {Len(<< >>) + 1} = {1}
        OBVIOUS
    <3>2. Min({1}) = 1
        BY MinNat
    <3>3. CString(<< >>) = SubSeq(<< >>, 1, Min({1}) - 1)
        BY <3>1 DEF CString
    <3> QED BY <3>2, <3>3
  <2>2. ~(Len(CString(<< >>)) >= 2)
      BY <2>1
  <2> QED BY <2>2, Zenon DEF try_extract_http
<1> QED BY <1>1, <1>2 DEF ExtractFrom

(* A flow of which nothing has arrived cannot be decided. *)
LEMMA ZeroExtracted == ASSUME NEW k \in Key PROVE Extracted(k, ZeroState).res = "PENDING"
<1>0. ZeroState.hwm = 0
    BY DEF ZeroState
<1>1. GapFrom(ZeroState.filled, 0, 0) = 0
  <2>1. GapFrom(ZeroState.filled, 0, 0) \in 0 .. 0
      BY GapFromStops
  <2> QED BY <2>1
<1>2. PrefixOf(ZeroState, 0) = << >>
    BY DEF PrefixOf
<1>3. Extracted(k, ZeroState) = Pending
    BY <1>0, <1>1, <1>2, NothingExtracted DEF Extracted, Extract
<1> QED BY <1>3 DEF Pending

(* The same for the history. *)
LEMMA ZeroPlaced == Placed(ZeroState, {})
<1>1. \A s \in SeqNum : ~Has(ZeroState, s)
    BY DEF Has, ZeroState
<1>2. ~ZeroState.first_seq_set /\ ~(ZeroState.hwm > 0)
    BY DEF ZeroState
<1> QED BY <1>1, <1>2 DEF Placed, Tight, Anchored, Own, Complete

(* Reassembly of one packet: the history grows by the packet, and without  *)
(* a new byte the extractor sees what it saw before.                       *)
LEMMA ReassemblePlaced ==
    ASSUME NEW k \in Key, NEW st \in State, BelowHwm(st), Exact(st),
           NEW S \in SUBSET Packet, Placed(st, S), NEW pkt \in Packet
    PROVE  LET p == Reassemble(k, st, pkt)
           IN  /\ Placed(p, S \cup {pkt}) /\ SameRecord(st, p)
               /\ Learns(st, p, pkt.seq, Payload(pkt))
               /\ \/ Extracted(k, p) = Extracted(k, st)
                  \/ \E s \in SeqNum : Has(p, s) /\ ~Has(st, s)
<1> DEFINE q == Place(st, pkt.seq, Payload(pkt))
           p == Reassemble(k, st, pkt)
           nul == [q.buf EXCEPT ![q.contig_len] = NUL]
<1>0. pkt.seq \in SeqNum /\ Payload(pkt) \in Seq(Byte)
    BY PayloadType
<1>1. /\ Learns(st, q, pkt.seq, Payload(pkt))
      /\ q = st \/ \E s \in SeqNum : Has(q, s) /\ ~Has(st, s)
    BY <1>0, PlaceLearns DEF Placed
<1>2. q \in State /\ BelowHwm(q) /\ Exact(q)
    BY <1>0, PlaceExact
<1>3. Placed(q, S \cup {pkt}) /\ SameRecord(st, q)
    BY <1>0, PlacePlaced, PlaceSameRecord
<1>4. p = IF k \in HttpKeys THEN [q EXCEPT !.buf = nul] ELSE q
    BY DEF Reassemble
<1> HIDE DEF p, q
<1>5. q.contig_len \in Offset /\ q.buf \in [Offset -> Byte]
    BY <1>2 DEF State
<1>6. Alike(q, p) /\ SameRecord(q, p)
  <2>1. CASE k \notin HttpKeys
      BY <2>1, <1>4 DEF Alike, SameRecord
  <2>2. CASE k \in HttpKeys
    <3>1. p = [q EXCEPT !.buf = nul]
        BY <2>2, <1>4
    <3>2. /\ p.filled = q.filled /\ p.hwm = q.hwm /\ p.buf = nul
          /\ p.first_seq = q.first_seq /\ p.first_seq_set = q.first_seq_set
          /\ SameRecord(q, p)
        BY <3>1, <1>2 DEF State, SameRecord
    <3>3. ASSUME NEW o \in Offset, q.filled[o] PROVE nul[o] = q.buf[o]
      <4>1. o # q.contig_len
          BY <3>3, <1>2 DEF Exact
      <4> QED BY <4>1, <1>5
    <3> HIDE DEF nul
    <3> QED BY <3>2, <3>3 DEF Alike
  <2> QED BY <2>1, <2>2
<1>7. Placed(p, S \cup {pkt}) /\ Extracted(k, p) = Extracted(k, q)
    BY <1>2, <1>3, <1>6, AlikePlaced, AlikeExtracted
<1>8. SameRecord(st, p)
    BY <1>3, <1>6 DEF SameRecord
<1>9. Learns(st, p, pkt.seq, Payload(pkt))
    BY <1>1, <1>6, AlikeSame DEF Learns
<1>10. \/ Extracted(k, p) = Extracted(k, st)
       \/ \E s \in SeqNum : Has(p, s) /\ ~Has(st, s)
    BY <1>1, <1>6, <1>7, AlikeSame
<1> QED BY <1>7, <1>8, <1>9, <1>10 DEF p

(* An entry of flow k with its history. *)
EntryOK(k, st, S) == Placed(st, S) /\ VerdictOK(k, st)

(* The answer of the worker says what the entry has on record. *)
AnswerOK(st, o) == /\ o.action = IF st.verdict_cached THEN st.cached_action ELSE "FORWARD"
                   /\ o.no_sni <=> st.verdict_cached /\ st.no_sni_cached

(* A packet of a decided flow changes nothing but the time stamp. *)
LEMMA ResultsDecided ==
    ASSUME NEW k \in Key, NEW st \in State, SlotOK(st), now \in Nat, st.verdict_cached,
           NEW S \in SUBSET Packet, EntryOK(k, st, S),
           NEW pkt \in Packet, NEW new \in BOOLEAN, NEW r \in Results(k, st, pkt, new)
    PROVE  /\ r.st = [st EXCEPT !.last_seen_tsc = now]
           /\ EntryOK(k, r.st, S) /\ AnswerOK(r.st, r.out)
<1> DEFINE t == [st EXCEPT !.last_seen_tsc = now]
<1>1. t.verdict_cached /\ SameRecord(st, [t EXCEPT !.last_seen_tsc = st.last_seen_tsc])
    BY DEF State, SameRecord
<1>2. r = [st  |-> t,
           out |-> Answer(k, "CACHED", t.cached_action, t.no_sni_cached, new)]
    BY <1>1, Zenon DEF Results
<1>3. r.st = t /\ r.out.action = t.cached_action /\ r.out.no_sni = t.no_sni_cached
    BY <1>2 DEF Answer
<1>4. /\ t.filled = st.filled /\ t.hwm = st.hwm /\ t.buf = st.buf
      /\ t.first_seq = st.first_seq /\ t.first_seq_set = st.first_seq_set
      /\ t.verdict_cached = st.verdict_cached /\ t.cached_action = st.cached_action
      /\ t.no_sni_cached = st.no_sni_cached
    BY DEF State
<1> HIDE DEF t
<1>5. Alike(st, t)
    BY <1>4 DEF Alike
<1>6. Placed(t, S) /\ Extracted(k, t) = Extracted(k, st)
    BY <1>5, AlikePlaced, AlikeExtracted DEF EntryOK, SlotOK
<1>7. VerdictOK(k, t)
    BY <1>4, <1>6 DEF VerdictOK, EntryOK
<1>8. AnswerOK(t, r.out)
    BY <1>1, <1>3 DEF AnswerOK
<1> QED BY <1>3, <1>6, <1>7, <1>8 DEF EntryOK, t

(* A packet of an undecided flow joins its history, and decides the flow   *)
(* only if it brought a byte.                                              *)
LEMMA ResultsUndecided ==
    ASSUME NEW k \in Key, NEW st \in State, SlotOK(st), now \in Nat, ~st.verdict_cached,
           NEW S \in SUBSET Packet, EntryOK(k, st, S),
           NEW pkt \in Packet, NEW new \in BOOLEAN, NEW r \in Results(k, st, pkt, new)
    PROVE  /\ EntryOK(k, r.st, S \cup {pkt}) /\ AnswerOK(r.st, r.out)
           /\ Learns(st, r.st, pkt.seq, Payload(pkt)) /\ r.st.last_seen_tsc = now
           /\ r.st.verdict_cached => \E s \in SeqNum : Has(r.st, s) /\ ~Has(st, s)
<1> DEFINE t == [st EXCEPT !.last_seen_tsc = now]
           p == Reassemble(k, t, pkt)
           x == Extract(k, p, p.contig_len)
           q == [p EXCEPT !.no_sni_cached = TRUE]
           status == IF p.contig_len >= Window THEN "GIVE_UP" ELSE "PENDING"
<1>1. t \in State /\ SlotOK(t) /\ ~t.verdict_cached
    BY StampOK
<1>2. /\ t.filled = st.filled /\ t.hwm = st.hwm /\ t.buf = st.buf
      /\ t.first_seq = st.first_seq /\ t.first_seq_set = st.first_seq_set
      /\ t.verdict_cached = st.verdict_cached /\ t.no_sni_cached = st.no_sni_cached
      /\ t.last_seen_tsc = now
    BY DEF State
<1>3. \/ x.res = "FOUND" /\ \E a \in ScanResults(x.str) :
            r = [st |-> CacheVerdict(p, a), out |-> Answer(k, "READY", a, FALSE, new)]
      \/ /\ x.res = "NOT_PRESENT"
         /\ r = [st  |-> CacheVerdict(q, "FORWARD"),
                 out |-> Answer(k, "NO_SNI", "FORWARD", TRUE, new)]
      \/ /\ x.res \notin {"FOUND", "NOT_PRESENT"}
         /\ r = [st |-> p, out |-> Answer(k, status, "FORWARD", FALSE, new)]
    BY <1>1, Zenon DEF Results
<1> HIDE DEF t
<1>4. Alike(st, t)
    BY <1>2 DEF Alike
<1>5. /\ Placed(t, S) /\ Extracted(k, t) = Extracted(k, st)
      /\ \A s \in SeqNum : Has(t, s) <=> Has(st, s)
      /\ \A s \in SeqNum : Has(st, s) => ByteAt(t, s) = ByteAt(st, s)
    BY <1>4, AlikePlaced, AlikeExtracted, AlikeSame DEF EntryOK, SlotOK
<1>6. BelowHwm(t) /\ Exact(t)
    BY <1>1 DEF SlotOK
<1>7. p \in State /\ BelowHwm(p) /\ Exact(p)
    BY <1>1, <1>6, ReassembleExact
<1>8. /\ Placed(p, S \cup {pkt}) /\ SameRecord(t, p)
      /\ Learns(t, p, pkt.seq, Payload(pkt))
      /\ \/ Extracted(k, p) = Extracted(k, t)
         \/ \E s \in SeqNum : Has(p, s) /\ ~Has(t, s)
    BY <1>1, <1>5, <1>6, ReassemblePlaced
<1> HIDE DEF p
<1>9. /\ ~p.verdict_cached /\ ~p.no_sni_cached /\ p.last_seen_tsc = now
      /\ Extracted(k, st).res \notin {"FOUND", "NOT_PRESENT"}
    BY <1>1, <1>2, <1>8 DEF SameRecord, EntryOK, VerdictOK
<1>10. Extracted(k, p) = x
  <2>1. p.contig_len \in Nat /\ 0 \in 0 .. p.contig_len
      BY <1>7, SizeAssumption DEF State, Offset
  <2>2. GapFrom(p.filled, 0, p.hwm) = p.contig_len
      BY <1>7, <2>1, GapExact
  <2> QED BY <2>2 DEF Extracted
<1>11. Learns(st, p, pkt.seq, Payload(pkt))
    BY <1>5, <1>8 DEF Learns
<1>12. x.res \in {"FOUND", "NOT_PRESENT"} => \E s \in SeqNum : Has(p, s) /\ ~Has(st, s)
    BY <1>5, <1>8, <1>9, <1>10
<1> HIDE DEF x
<1>13. ASSUME NEW u, Alike(p, u), u.last_seen_tsc = p.last_seen_tsc
       PROVE  /\ Placed(u, S \cup {pkt}) /\ Extracted(k, u) = x
              /\ Learns(st, u, pkt.seq, Payload(pkt)) /\ u.last_seen_tsc = now
              /\ \A s \in SeqNum : Has(u, s) <=> Has(p, s)
  <2>1. /\ \A s \in SeqNum : Has(u, s) <=> Has(p, s)
        /\ \A s \in SeqNum : Has(p, s) => ByteAt(u, s) = ByteAt(p, s)
      BY <1>13, AlikeSame
  <2>2. Placed(u, S \cup {pkt}) /\ Extracted(k, u) = x
      BY <1>7, <1>8, <1>10, <1>13, AlikePlaced, AlikeExtracted
  <2>3. Learns(st, u, pkt.seq, Payload(pkt))
      BY <2>1, <1>11 DEF Learns
  <2> QED BY <2>1, <2>2, <2>3, <1>9, <1>13
<1>14. ASSUME NEW a \in ScanResults(x.str), x.res = "FOUND",
              r = [st |-> CacheVerdict(p, a), out |-> Answer(k, "READY", a, FALSE, new)]
       PROVE  /\ EntryOK(k, r.st, S \cup {pkt}) /\ AnswerOK(r.st, r.out)
              /\ Learns(st, r.st, pkt.seq, Payload(pkt)) /\ r.st.last_seen_tsc = now
              /\ r.st.verdict_cached => \E s \in SeqNum : Has(r.st, s) /\ ~Has(st, s)
  <2> DEFINE u == CacheVerdict(p, a)
  <2>1. r.st = u /\ r.out.action = a /\ r.out.no_sni = FALSE
      BY <1>14 DEF Answer
  <2>2. /\ u.filled = p.filled /\ u.hwm = p.hwm /\ u.buf = p.buf
        /\ u.first_seq = p.first_seq /\ u.first_seq_set = p.first_seq_set
        /\ u.verdict_cached = TRUE /\ u.cached_action = a
        /\ u.no_sni_cached = p.no_sni_cached /\ u.last_seen_tsc = p.last_seen_tsc
      BY <1>7 DEF CacheVerdict, State
  <2> HIDE DEF u
  <2>3. Alike(p, u)
      BY <2>2 DEF Alike
  <2>4. VerdictOK(k, u)
      BY <2>2, <2>3, <1>9, <1>13, <1>14 DEF VerdictOK
  <2>5. AnswerOK(u, r.out)
      BY <2>1, <2>2, <1>9 DEF AnswerOK
  <2>6. \E s \in SeqNum : Has(u, s) /\ ~Has(st, s)
      BY <2>2, <2>3, <1>12, <1>13, <1>14
  <2> QED BY <2>1, <2>2, <2>3, <2>4, <2>5, <2>6, <1>13 DEF EntryOK
<1>15. ASSUME x.res = "NOT_PRESENT",
              r = [st  |-> CacheVerdict(q, "FORWARD"),
                   out |-> Answer(k, "NO_SNI", "FORWARD", TRUE, new)]
       PROVE  /\ EntryOK(k, r.st, S \cup {pkt}) /\ AnswerOK(r.st, r.out)
              /\ Learns(st, r.st, pkt.seq, Payload(pkt)) /\ r.st.last_seen_tsc = now
              /\ r.st.verdict_cached => \E s \in SeqNum : Has(r.st, s) /\ ~Has(st, s)
  <2> DEFINE u == CacheVerdict(q, "FORWARD")
  <2>1. r.st = u /\ r.out.action = "FORWARD" /\ r.out.no_sni = TRUE
      BY <1>15 DEF Answer
  <2>2. /\ u.filled = p.filled /\ u.hwm = p.hwm /\ u.buf = p.buf
        /\ u.first_seq = p.first_seq /\ u.first_seq_set = p.first_seq_set
        /\ u.verdict_cached = TRUE /\ u.cached_action = "FORWARD"
        /\ u.no_sni_cached = TRUE /\ u.last_seen_tsc = p.last_seen_tsc
      BY <1>7 DEF CacheVerdict, State
  <2> HIDE DEF u
  <2>3. Alike(p, u)
      BY <2>2 DEF Alike
  <2>4. VerdictOK(k, u)
      BY <2>2, <2>3, <1>13, <1>15 DEF VerdictOK
  <2>5. AnswerOK(u, r.out)
      BY <2>1, <2>2 DEF AnswerOK
  <2>6. \E s \in SeqNum : Has(u, s) /\ ~Has(st, s)
      BY <2>2, <2>3, <1>12, <1>13, <1>15
  <2> QED BY <2>1, <2>2, <2>3, <2>4, <2>5, <2>6, <1>13 DEF EntryOK
<1>16. ASSUME x.res \notin {"FOUND", "NOT_PRESENT"},
              r = [st |-> p, out |-> Answer(k, status, "FORWARD", FALSE, new)]
       PROVE  /\ EntryOK(k, r.st, S \cup {pkt}) /\ AnswerOK(r.st, r.out)
              /\ Learns(st, r.st, pkt.seq, Payload(pkt)) /\ r.st.last_seen_tsc = now
              /\ r.st.verdict_cached => \E s \in SeqNum : Has(r.st, s) /\ ~Has(st, s)
  <2> HIDE DEF status
  <2>1. r.st = p /\ r.out.action = "FORWARD" /\ r.out.no_sni = FALSE
      BY <1>16 DEF Answer
  <2>2. VerdictOK(k, p) /\ AnswerOK(p, r.out)
      BY <2>1, <1>9, <1>10, <1>16 DEF VerdictOK, AnswerOK
  <2> QED BY <2>1, <2>2, <1>8, <1>9, <1>11 DEF EntryOK
<1> QED BY <1>3, <1>14, <1>15, <1>16
-----------------------------------------------------------------------------
(* A sweep deletes idle entries only. *)
LEMMA SweepIdle ==
    ASSUME NEW gone \in Swept(hash), NEW k \in Key
    PROVE  \/ Delete(hash, gone)[k] = hash[k]
           \/ Delete(hash, gone)[k] = NoSlot /\ k \in Idle(hash)
<1>1. gone \subseteq Idle(hash)
    BY DEF Swept
<1> QED BY <1>1 DEF Delete

(* What a packet does to a flow that is not its own: nothing, or its idle  *)
(* entry goes.                                                             *)
Unaffected(j) ==
    \/ hash'[j] = hash[j] /\ (hash[j] # NoSlot => /\ states'[hash[j]] = states[hash[j]]
                                                  /\ seen'[j] = seen[j])
    \/ hash'[j] = NoSlot /\ j \in Idle(hash)

(* What it does to its own: it is handled with the entry it finds, with a  *)
(* new entry, or without one.                                              *)
Vacant(k) == hash[k] = NoSlot \/ k \in Idle(hash)

Known(pkt, k) ==
    /\ hash[k] \in Slot /\ hash'[k] = hash[k]
    /\ \E r \in Results(k, states[hash[k]], pkt, FALSE) :
          states'[hash[k]] = r.st /\ out' = r.out
    /\ seen'[k] = IF states[hash[k]].verdict_cached THEN seen[k] ELSE seen[k] \cup {pkt}

Made(pkt, k) ==
    /\ Vacant(k) /\ hash'[k] \in Slot
    /\ \E r \in Results(k, ZeroState, pkt, TRUE) : states'[hash'[k]] = r.st /\ out' = r.out
    /\ seen'[k] = {pkt}

Refused(k) ==
    /\ Vacant(k) /\ hash'[k] = NoSlot
    /\ out' = Answer(k, "GIVE_UP", "FORWARD", FALSE, FALSE)

(* A packet, whichever entries the sweep before it deletes. *)
LEMMA HandlePacketEffect ==
    ASSUME TableInv, NEW pkt \in Packet, HandlePacket(pkt)
    PROVE  /\ \A j \in Key \ {pkt.key} : Unaffected(j)
           /\ Known(pkt, pkt.key) \/ Made(pkt, pkt.key) \/ Refused(pkt.key)
<1>1. PICK gone \in Swept(hash) :
          LET h == Delete(hash, gone)
          IN  KnownFlow(pkt, h) \/ NewFlow(pkt, h) \/ TableFull(pkt, h)
    BY DEF HandlePacket
<1> DEFINE h == Delete(hash, gone)
           k == pkt.key
<1>2. /\ h \in [Key -> Slot \cup {NoSlot}] /\ Injective(h)
      /\ \A i \in Key : h[i] # NoSlot => h[i] = hash[i]
    BY SweepShrinks
<1>3. KnownFlow(pkt, h) \/ NewFlow(pkt, h) \/ TableFull(pkt, h)
    BY <1>1
<1>4. \A j \in Key : h[j] = hash[j] \/ (h[j] = NoSlot /\ j \in Idle(hash))
    BY SweepIdle
<1> HIDE DEF h
<1>5. k \in Key
    BY PayloadType
<1>6. /\ states \in [Slot -> State] /\ seen \in [Key -> SUBSET Packet]
      /\ Forget(h) = [j \in Key |-> IF h[j] = NoSlot THEN {} ELSE seen[j]]
    BY DEF TableInv, TypeOK, Forget
<1> HIDE DEF k
<1>7. CASE KnownFlow(pkt, h)
  <2>1. /\ h[k] # NoSlot /\ hash' = h
        /\ seen' = [Forget(h) EXCEPT
                       ![k] = IF states[h[k]].verdict_cached THEN @ ELSE @ \cup {pkt}]
      BY <1>7 DEF KnownFlow, k
  <2>2. PICK r \in Results(k, states[h[k]], pkt, FALSE) :
            states' = [states EXCEPT ![h[k]] = r.st] /\ out' = r.out
      BY <1>7 DEF KnownFlow, k
  <2>3. h[k] \in Slot /\ h[k] = hash[k]
      BY <1>2, <1>5, <2>1
  <2>4. ASSUME NEW j \in Key \ {k} PROVE Unaffected(j)
    <3>1. CASE h[j] = NoSlot
        BY <3>1, <2>1, <1>4 DEF Unaffected
    <3>2. CASE h[j] # NoSlot
      <4>1. h[j] = hash[j] /\ h[j] \in Slot /\ h[j] # h[k]
          BY <3>2, <2>1, <1>2, <1>5 DEF Injective, Live
      <4>2. states'[hash[j]] = states[hash[j]]
          BY <4>1, <2>2, <1>6
      <4>3. seen'[j] = seen[j]
          BY <3>2, <2>1, <1>6
      <4> QED BY <4>1, <4>2, <4>3, <2>1 DEF Unaffected
    <3> QED BY <3>1, <3>2
  <2>5. Known(pkt, k)
    <3>1. states'[hash[k]] = r.st
        BY <2>2, <2>3, <1>6
    <3>2. Forget(h)[k] = seen[k]
        BY <2>1, <1>5, <1>6
    <3>3. seen'[k] = IF states[hash[k]].verdict_cached THEN seen[k] ELSE seen[k] \cup {pkt}
        BY <3>2, <2>1, <2>3, <1>5, <1>6
    <3>4. r \in Results(k, states[hash[k]], pkt, FALSE)
        BY <2>3
    <3> QED BY <3>1, <3>3, <3>4, <2>1, <2>2, <2>3 DEF Known
  <2> QED BY <2>4, <2>5 DEF k
<1>8. CASE NewFlow(pkt, h)
  <2>1. PICK i \in FreeSlots(h), r \in Results(k, ZeroState, pkt, TRUE) :
            /\ hash' = [h EXCEPT ![k] = i]
            /\ states' = [states EXCEPT ![i] = r.st]
            /\ out' = r.out
      BY <1>8 DEF NewFlow, k
  <2>2. h[k] = NoSlot /\ seen' = [Forget(h) EXCEPT ![k] = {pkt}]
      BY <1>8 DEF NewFlow, k
  <2>3. i \in Slot /\ \A j \in Key : h[j] # i
      BY DEF FreeSlots
  <2>4. ASSUME NEW j \in Key \ {k} PROVE Unaffected(j)
    <3>0. hash'[j] = h[j] /\ seen'[j] = IF h[j] = NoSlot THEN {} ELSE seen[j]
        BY <2>1, <2>2, <1>2, <1>6
    <3>1. CASE h[j] = NoSlot
        BY <3>0, <3>1, <1>4 DEF Unaffected
    <3>2. CASE h[j] # NoSlot
      <4>1. h[j] = hash[j] /\ h[j] \in Slot /\ h[j] # i
          BY <3>2, <2>3, <1>2
      <4>2. states'[hash[j]] = states[hash[j]]
          BY <4>1, <2>1, <2>3, <1>6
      <4> QED BY <4>1, <4>2, <3>0, <3>2 DEF Unaffected
    <3> QED BY <3>1, <3>2
  <2>5. Made(pkt, k)
    <3>1. hash'[k] = i /\ states'[i] = r.st /\ seen'[k] = {pkt}
        BY <2>1, <2>2, <2>3, <1>2, <1>5, <1>6
    <3>2. Vacant(k)
        BY <2>2, <1>4, <1>5 DEF Vacant
    <3> QED BY <3>1, <3>2, <2>1, <2>3 DEF Made
  <2> QED BY <2>4, <2>5 DEF k
<1>9. CASE TableFull(pkt, h)
  <2>1. /\ h[k] = NoSlot /\ hash' = h /\ states' = states /\ seen' = Forget(h)
        /\ out' = Answer(k, "GIVE_UP", "FORWARD", FALSE, FALSE)
      BY <1>9 DEF TableFull, k
  <2>2. ASSUME NEW j \in Key \ {k} PROVE Unaffected(j)
      BY <2>1, <1>4, <1>6 DEF Unaffected
  <2>3. Refused(k)
      BY <2>1, <1>4, <1>5 DEF Refused, Vacant
  <2> QED BY <2>2, <2>3 DEF k
<1> QED BY <1>3, <1>7, <1>8, <1>9
-----------------------------------------------------------------------------
(* The inductive invariant behind the properties of single entries. *)
HistInv == TableInv /\ \A k \in Live(hash) : EntryOK(k, StateOf(k), seen[k])

(* A new entry starts with nothing. *)
LEMMA ZeroEntry == ASSUME NEW k \in Key PROVE EntryOK(k, ZeroState, {}) /\ ~ZeroState.verdict_cached
<1>1. ~ZeroState.verdict_cached /\ ~ZeroState.no_sni_cached
    BY DEF ZeroState
<1>2. VerdictOK(k, ZeroState)
    BY <1>1, ZeroExtracted DEF VerdictOK
<1> QED BY <1>1, <1>2, ZeroPlaced DEF EntryOK

(* A packet preserves the entry invariant: of its own flow by what         *)
(* Results() does, of the others by leaving them alone.                    *)
LEMMA HandlePacketHist ==
    ASSUME HistInv, NEW pkt \in Packet, HandlePacket(pkt)
    PROVE  HistInv'
<1> DEFINE k == pkt.key
<1>1. TableInv /\ TableInv' /\ now \in Nat
    BY HandlePacketInv DEF HistInv, TableInv, TypeOK
<1>2. /\ \A j \in Key \ {k} : Unaffected(j)
      /\ Known(pkt, k) \/ Made(pkt, k) \/ Refused(k)
    BY <1>1, HandlePacketEffect
<1>3. k \in Key
    BY PayloadType
<1> HIDE DEF k
<1>4. ASSUME NEW j \in Key, hash'[j] # NoSlot
      PROVE  EntryOK(j, states'[hash'[j]], seen'[j])
  <2>1. CASE j # k
    <3>1. /\ hash'[j] = hash[j] /\ states'[hash[j]] = states[hash[j]]
          /\ seen'[j] = seen[j]
        BY <1>2, <1>4, <2>1 DEF Unaffected
    <3> QED BY <3>1, <1>4 DEF HistInv, Live, StateOf
  <2>2. CASE j = k /\ Known(pkt, k)
    <3> DEFINE st == states[hash[k]]
    <3>1. /\ hash[k] \in Slot /\ hash[k] # NoSlot /\ hash'[k] = hash[k]
          /\ seen'[k] = IF st.verdict_cached THEN seen[k] ELSE seen[k] \cup {pkt}
        BY <1>4, <2>2 DEF Known
    <3>2. PICK r \in Results(k, st, pkt, FALSE) : states'[hash[k]] = r.st
        BY <2>2 DEF Known
    <3>3. /\ st \in State /\ SlotOK(st) /\ EntryOK(k, st, seen[k])
          /\ seen[k] \in SUBSET Packet
        BY <1>1, <1>3, <3>1 DEF HistInv, TableInv, TypeOK, Live, StateOf
    <3>4. PICK new \in BOOLEAN : new = FALSE
        OBVIOUS
    <3>5. r \in Results(k, st, pkt, new)
        BY <3>4, Zenon
    <3> HIDE DEF st
    <3>6. CASE st.verdict_cached
      <4>1. EntryOK(k, r.st, seen[k])
          BY <1>1, <1>3, <3>3, <3>5, <3>6, ResultsDecided
      <4>2. seen'[k] = seen[k]
          BY <3>1, <3>6
      <4> QED BY <2>2, <3>1, <3>2, <4>1, <4>2, Zenon
    <3>7. CASE ~st.verdict_cached
      <4>1. EntryOK(k, r.st, seen[k] \cup {pkt})
          BY <1>1, <1>3, <3>3, <3>5, <3>7, ResultsUndecided
      <4>2. seen'[k] = seen[k] \cup {pkt}
          BY <3>1, <3>7
      <4> QED BY <2>2, <3>1, <3>2, <4>1, <4>2, Zenon
    <3> QED BY <3>6, <3>7
  <2>3. CASE j = k /\ Made(pkt, k)
    <3>1. hash'[k] \in Slot /\ seen'[k] = {pkt}
        BY <2>3 DEF Made
    <3>2. PICK r \in Results(k, ZeroState, pkt, TRUE) : states'[hash'[k]] = r.st
        BY <2>3 DEF Made
    <3>3. EntryOK(k, r.st, {} \cup {pkt})
        BY <1>1, <1>3, <3>2, ZeroStateOK, ZeroEntry, ResultsUndecided
    <3> QED BY <2>3, <3>1, <3>2, <3>3
  <2>4. CASE j = k /\ Refused(k)
      BY <1>4, <2>4 DEF Refused
  <2> QED BY <1>2, <2>1, <2>2, <2>3, <2>4
<1> QED BY <1>1, <1>4 DEF HistInv, Live, StateOf

(* It holds in every reachable state. *)
LEMMA SpecHistInv == Spec => []HistInv
<1>1. Init => HistInv
    BY InitTableInv DEF HistInv, Init, Live
<1>2. HistInv /\ [Next]_vars => HistInv'
  <2> SUFFICES ASSUME HistInv, [Next]_vars PROVE HistInv'
      OBVIOUS
  <2>1. CASE \E pkt \in Packet : HandlePacket(pkt)
      BY <2>1, HandlePacketHist
  <2>2. CASE Tick \/ UNCHANGED vars
    <3>1. TableInv'
        BY NextTableInv DEF HistInv
    <3>2. hash' = hash /\ states' = states /\ seen' = seen
        BY <2>2 DEF Tick, vars
    <3> QED BY <3>1, <3>2 DEF HistInv, Live, StateOf
  <2> QED BY <2>1, <2>2 DEF Next
<1> QED BY <1>1, <1>2, PTL DEF Spec

(* The number of the next call. *)
LEMMA NextCall ==
    ASSUME NEW c \in 0 .. SweepInterval - 1
    PROVE  (c + 1) % SweepInterval = IF c + 1 = SweepInterval THEN 0 ELSE c + 1
<1>1. SweepInterval \in Nat \ {0}
    BY TableAssumption
<1>2. CASE c + 1 = SweepInterval
    BY <1>1, <1>2
<1>3. CASE c + 1 # SweepInterval
    BY <1>1, <1>3
<1> QED BY <1>2, <1>3

(* What a packet makes of a new entry bears the time of the packet. *)
LEMMA ZeroStamped ==
    ASSUME now \in Nat, NEW k \in Key, NEW pkt \in Packet,
           NEW r \in Results(k, ZeroState, pkt, TRUE)
    PROVE  r.st.last_seen_tsc = now
<1>1. PICK st \in State : st = ZeroState /\ SlotOK(st)
    BY ZeroStateOK
<1>2. PICK S \in SUBSET Packet : S = {}
    OBVIOUS
<1>3. EntryOK(k, st, S) /\ ~st.verdict_cached
    BY <1>1, <1>2, ZeroEntry
<1>4. PICK new \in BOOLEAN : new = TRUE
    OBVIOUS
<1>5. r \in Results(k, st, pkt, new)
    BY <1>1, <1>4
<1>6. EntryOK(k, r.st, S \cup {pkt}) /\ r.st.last_seen_tsc = now
    BY <1>1, <1>3, <1>5, ResultsUndecided
<1> QED BY <1>6

(* What is swept away does not stay idle: it is gone, or its own packet    *)
(* has made it anew.                                                       *)
LEMMA SweptNotIdle ==
    ASSUME TableInv, NEW pkt \in Packet, HandlePacket(pkt)
    PROVE  \E gone \in Swept(hash) : \A k \in gone : k \notin Idle(hash)'
<1>1. PICK gone \in Swept(hash) :
          LET h == Delete(hash, gone)
          IN  KnownFlow(pkt, h) \/ NewFlow(pkt, h) \/ TableFull(pkt, h)
    BY DEF HandlePacket
<1> DEFINE h == Delete(hash, gone)
           own == pkt.key
<1>2. /\ h \in [Key -> Slot \cup {NoSlot}] /\ now' = now /\ now \in Nat
      /\ states \in [Slot -> State] /\ own \in Key
    BY SweepShrinks, PayloadType DEF HandlePacket, TableInv, TypeOK
<1>3. KnownFlow(pkt, h) \/ NewFlow(pkt, h) \/ TableFull(pkt, h)
    BY <1>1
<1>4. \A k \in gone : k \in Key => h[k] = NoSlot
    BY DEF Delete
<1> HIDE DEF h, own
<1> SUFFICES ASSUME NEW k \in gone, k \in Key, hash'[k] # NoSlot
             PROVE  ~(now' - states'[hash'[k]].last_seen_tsc > Timeout)
    BY DEF Idle, Live
<1>5. CASE KnownFlow(pkt, h)
    BY <1>4, <1>5 DEF KnownFlow
<1>6. CASE TableFull(pkt, h)
    BY <1>4, <1>6 DEF TableFull
<1>7. CASE NewFlow(pkt, h)
  <2>1. PICK i \in FreeSlots(h), r \in Results(own, ZeroState, pkt, TRUE) :
            /\ hash' = [h EXCEPT ![own] = i]
            /\ states' = [states EXCEPT ![i] = r.st]
      BY <1>7 DEF NewFlow, own
  <2>2. i \in Slot
      BY DEF FreeSlots
  <2>3. k = own
      BY <1>2, <1>4, <2>1
  <2>4. states'[hash'[k]] = r.st
      BY <1>2, <2>1, <2>2, <2>3
  <2>5. r.st.last_seen_tsc = now
      BY <1>2, <2>1, ZeroStamped
  <2> QED BY <1>2, <2>4, <2>5, TableAssumption
<1> QED BY <1>3, <1>5, <1>6, <1>7

(* The count of idle calls is bounded by the place of the call in the      *)
(* interval: a sweep leaves only what the sweep before did not leave.      *)
IdleInv == \A k \in Key : idle_calls[k] <= call_count + SweepInterval

LEMMA HandlePacketIdle ==
    ASSUME TableInv, IdleInv, NEW pkt \in Packet, HandlePacket(pkt)
    PROVE  IdleInv'
<1>1. SweepInterval \in Nat \ {0}
    BY TableAssumption
<1>2. /\ idle_calls \in [Key -> Nat] /\ call_count \in 0 .. SweepInterval - 1
      /\ call_count' = (call_count + 1) % SweepInterval
    BY DEF TableInv, TypeOK, HandlePacket
<1>3. call_count' = IF call_count + 1 = SweepInterval THEN 0 ELSE call_count + 1
    BY <1>2, NextCall
<1> SUFFICES ASSUME NEW k \in Key
             PROVE  idle_calls'[k] <= call_count' + SweepInterval
    BY DEF IdleInv
<1>4. idle_calls'[k] = IF k \in Idle(hash)' THEN idle_calls[k] + 1 ELSE 0
    BY <1>2, IdleCallsCount
<1>5. idle_calls[k] \in Nat /\ idle_calls[k] <= call_count + SweepInterval
    BY <1>2 DEF IdleInv
<1>6. CASE k \notin Idle(hash)'
    BY <1>1, <1>2, <1>3, <1>4, <1>6
<1>7. CASE k \in Idle(hash)' /\ call_count + 1 # SweepInterval
    BY <1>1, <1>2, <1>3, <1>4, <1>5, <1>7
<1>8. CASE k \in Idle(hash)' /\ call_count + 1 = SweepInterval
  <2>1. PICK gone \in Swept(hash) : \A j \in gone : j \notin Idle(hash)'
      BY SweptNotIdle
  <2>2. (call_count + 1) % SweepInterval = 0
      BY <1>2, <1>3, <1>8
  <2>3. Missed \subseteq gone
      BY <2>2 DEF Swept
  <2>4. k \notin Missed
      BY <1>8, <2>1, <2>3
  <2>5. ~(idle_calls[k] > call_count)
      BY <2>4 DEF Missed
  <2> QED BY <1>1, <1>2, <1>3, <1>4, <1>5, <1>8, <2>5
<1> QED BY <1>6, <1>7, <1>8

(* Expiry needs nothing but packets: an entry that is left idle outlives   *)
(* fewer than two sweep intervals of them, for every interval, timeout and *)
(* table, whatever the clock does.                                         *)
THEOREM FlowIdleGoneSoon == Spec => []IdleGoneSoon
<1>1. Init => IdleInv
    BY TableAssumption DEF Init, IdleInv
<1>2. TableInv /\ IdleInv /\ [Next]_vars => IdleInv'
  <2> SUFFICES ASSUME TableInv, IdleInv, [Next]_vars PROVE IdleInv'
      OBVIOUS
  <2>1. CASE \E pkt \in Packet : HandlePacket(pkt)
      BY <2>1, HandlePacketIdle
  <2>2. CASE Tick \/ UNCHANGED vars
      BY <2>2 DEF Tick, vars, IdleInv
  <2> QED BY <2>1, <2>2 DEF Next
<1>3. TableInv /\ IdleInv => IdleGoneSoon
  <2> SUFFICES ASSUME TableInv, IdleInv, NEW k \in Key
               PROVE  idle_calls[k] < 2 * SweepInterval
      BY DEF IdleGoneSoon
  <2>1. /\ idle_calls[k] \in Nat /\ call_count \in 0 .. SweepInterval - 1
        /\ idle_calls[k] <= call_count + SweepInterval
      BY DEF TableInv, TypeOK, IdleInv
  <2> QED BY <2>1, TableAssumption
<1> QED BY SpecTableInv, <1>1, <1>2, <1>3, PTL DEF Spec

(* No byte in a flow's buffer was left there by the slot's previous owner, *)
(* came from another flow's packet, or was made up by a shift, a clipped   *)
(* write or a NUL, for every buffer size and every reuse of slots.         *)
THEOREM FlowOnlyOwnBytes == Spec => []OnlyOwnBytes
<1>1. HistInv => OnlyOwnBytes
    BY DEF HistInv, EntryOK, Placed, Own, OnlyOwnBytes
<1> QED BY SpecHistInv, <1>1, PTL

(* Segments of a flow that together fit the window are all kept, for every *)
(* order of arrival, with overlaps, duplicates and wrapped sequence        *)
(* numbers.                                                                *)
THEOREM FlowNothingLost == Spec => []NothingLost
<1>1. HistInv => NothingLost
    BY DEF HistInv, EntryOK, Placed, Complete, NothingLost
<1> QED BY SpecHistInv, <1>1, PTL

(* A cached verdict is the one of the flow's own gap-free prefix, whatever *)
(* the extractors make of it.                                              *)
THEOREM FlowVerdictMatchesStream == Spec => []VerdictMatchesStream
<1>1. HistInv => VerdictMatchesStream
    BY DEF HistInv, EntryOK, VerdictOK, Extracted, VerdictMatchesStream
<1> QED BY SpecHistInv, <1>1, PTL
-----------------------------------------------------------------------------
(* Order of arrival.  A decision about a stream is one about everything    *)
(* that extends it.                                                        *)
LEMMA ExtractFromFinal ==
    ASSUME NEW k, NEW s, NEW t, Extends(s, t), ExtractFrom(k, s).res # "PENDING"
    PROVE  ExtractFrom(k, t) = ExtractFrom(k, s)
<1>1. ExtractFrom(k, s) # Pending
    BY DEF Pending
<1>2. CASE k \in HttpKeys
    BY <1>1, <1>2, HttpFinal DEF ExtractFrom
<1>3. CASE k \notin HttpKeys
    BY <1>1, <1>3, SniFinal DEF ExtractFrom
<1> QED BY <1>2, <1>3

(* A byte that a piece of message m carries is the byte of m at its place. *)
LEMMA PieceByte ==
    ASSUME NEW m \in Message, Len(m.data) <= Window, NEW pkt \in Packet, PieceOf(pkt, m),
           NEW s \in SeqNum, NEW b, Carries(pkt, s, b)
    PROVE  SeqSub(s, m.base) < Len(m.data) /\ b = m.data[SeqSub(s, m.base) + 1]
<1> DEFINE o == SeqSub(pkt.seq, m.base)
           n == Len(Payload(pkt))
           j == SeqSub(s, pkt.seq)
<1>1. /\ pkt.seq \in SeqNum /\ n \in Nat /\ Len(m.data) \in Nat
      /\ m.base \in SeqNum /\ m.data \in Seq(Byte)
    BY PayloadType, MessageAssumption
<1>2. o \in Nat /\ j \in Nat
    BY <1>1, SeqSubNat
<1>3. j < n /\ b = Payload(pkt)[j + 1]
    BY DEF Carries, Covers
<1>4. o + n <= Len(m.data) /\ Payload(pkt) = SubSeq(m.data, o + 1, o + n)
    BY <1>1, <1>2, <1>3 DEF PieceOf
<1>5. SeqSub(s, m.base) = o + j
  <2>1. o + j < SeqSpace
      BY <1>1, <1>2, <1>3, <1>4, SizeAssumption DEF Window, SeqSpace
  <2> QED BY <1>1, <2>1, SeqSubSum
<1> HIDE DEF o, n, j
<1>6. SubSeq(m.data, o + 1, o + n)[j + 1] = m.data[o + j + 1]
    BY <1>1, <1>2, <1>3, <1>4
<1> QED BY <1>1, <1>2, <1>3, <1>4, <1>5, <1>6

(* The gap-free prefix of an entry that saw only pieces of a message is a  *)
(* part of the message, from the place of first_seq on.                    *)
LEMMA PrefixOfMessage ==
    ASSUME NEW m \in Message, Len(m.data) <= Window, NEW st \in State, BelowHwm(st),
           NEW S \in SUBSET Packet, Anchored(st, S), Own(st, S),
           \A pkt \in S : PieceOf(pkt, m),
           NEW g \in Nat, g <= st.hwm, g > 0, \A i \in 0 .. g - 1 : st.filled[i]
    PROVE  /\ SeqSub(st.first_seq, m.base) + g <= Len(m.data)
           /\ \A i \in 0 .. g - 1 :
                 st.buf[i] = m.data[SeqSub(st.first_seq, m.base) + i + 1]
<1> DEFINE off == SeqSub(st.first_seq, m.base)
<1>1. /\ st.first_seq \in SeqNum /\ st.hwm \in Offset /\ m.base \in SeqNum
      /\ m.data \in Seq(Byte) /\ Len(m.data) \in Nat /\ off \in Nat /\ BufCap \in Nat
  <2>1. st.first_seq \in SeqNum /\ st.hwm \in Offset
      BY DEF State
  <2>2. m.base \in SeqNum /\ m.data \in Seq(Byte)
      BY MessageAssumption
  <2> QED BY <2>1, <2>2, SeqSubNat, SizeAssumption
<1>2. st.first_seq_set
    BY <1>1 DEF BelowHwm, State
<1>3. off < Len(m.data)
  <2>1. PICK pkt \in S : Payload(pkt) # << >> /\ pkt.seq = st.first_seq
      BY <1>2 DEF Anchored
  <2>2. Payload(pkt) \in Seq(Byte) /\ PieceOf(pkt, m)
      BY PayloadType
  <2>3. Len(Payload(pkt)) \in Nat /\ Len(Payload(pkt)) # 0
      BY <2>1, <2>2
  <2> QED BY <1>1, <2>1, <2>2, <2>3 DEF PieceOf
<1>4. ASSUME NEW i \in 0 .. g - 1
      PROVE  off + i < Len(m.data) /\ st.buf[i] = m.data[off + i + 1]
  <2>1. i \in Offset /\ i \in Nat /\ st.filled[i]
      BY <1>1 DEF Offset
  <2>2. PICK s \in SeqNum : SeqSub(s, st.first_seq) = i
      BY <1>1, <2>1, SeqAt
  <2>3. Has(st, s) /\ ByteAt(st, s) = st.buf[i]
      BY <2>1, <2>2 DEF Has, ByteAt
  <2>4. PICK pkt \in S : Carries(pkt, s, ByteAt(st, s))
      BY <2>3 DEF Own
  <2>5. SeqSub(s, m.base) < Len(m.data) /\ ByteAt(st, s) = m.data[SeqSub(s, m.base) + 1]
      BY <2>4, PieceByte
  <2>6. off + SeqSub(s, st.first_seq) < SeqSpace
      BY <1>1, <1>3, <2>1, <2>2, SizeAssumption DEF Window, SeqSpace, Offset
  <2>7. SeqSub(s, m.base) = off + i
      BY <1>1, <2>2, <2>6, SeqSubSum
  <2> QED BY <2>3, <2>5, <2>7
<1>5. off + (g - 1) < Len(m.data)
    BY <1>4
<1> HIDE DEF off
<1>6. off + g <= Len(m.data)
    BY <1>1, <1>5
<1> QED BY <1>4, <1>6 DEF off

(* The verdict of an entry that saw only pieces of a message is that of    *)
(* the message, and it has one once it has seen all of it.                 *)
LEMMA EntryOrder ==
    ASSUME NEW m \in Telling, NEW st \in State, BelowHwm(st),
           NEW S \in SUBSET Packet, EntryOK(m.key, st, S),
           \A pkt \in S : PieceOf(pkt, m)
    PROVE  /\ st.verdict_cached => Decides(st, ExtractFrom(m.key, m.data))
           /\ (\A s \in SeqNum : SeqSub(s, m.base) < Len(m.data) =>
                   \E pkt \in S : Covers(pkt, s))
              => st.verdict_cached
<1> DEFINE k == m.key
           d == m.data
           g == GapFrom(st.filled, 0, st.hwm)
           off == SeqSub(st.first_seq, m.base)
           pre == PrefixOf(st, g)
<1>1. /\ m \in Message /\ Len(d) <= Window
      /\ ExtractFrom(k, d).res \in {"FOUND", "NOT_PRESENT"}
      /\ \A i \in 2 .. Len(d) : ExtractFrom(k, SubSeq(d, i, Len(d))).res = "PENDING"
    BY DEF Telling
<1>2. /\ m.base \in SeqNum /\ d \in Seq(Byte) /\ d \in Seq(Nat) /\ Len(d) \in Nat
  <2>1. m.base \in SeqNum /\ d \in Seq(Byte)
      BY <1>1, MessageAssumption
  <2> HIDE DEF d
  <2>2. d \in Seq(Nat)
    <3>1. Len(d) \in Nat /\ d = [i \in 1 .. Len(d) |-> d[i]] /\ \A i \in 1 .. Len(d) : d[i] \in Byte
        BY <2>1
    <3>2. \A i \in 1 .. Len(d) : d[i] \in Nat
        BY <3>1, ByteAssumption
    <3> QED BY <3>1, <3>2
  <2> QED BY <2>1, <2>2
<1>3. /\ st.first_seq \in SeqNum /\ st.hwm \in Offset /\ st.hwm \in Nat
      /\ BufCap \in Nat /\ st.buf \in [Offset -> Byte]
    BY SizeAssumption DEF State, Offset
<1>4. /\ g \in 0 .. st.hwm
      /\ g = st.hwm \/ ~st.filled[g]
      /\ \A n \in 0 .. g - 1 : st.filled[n]
  <2>1. 0 \in Nat /\ 0 <= st.hwm
      BY <1>3
  <2> QED BY <1>3, <2>1, GapFromStops
<1>5. off \in Nat
    BY <1>2, <1>3, SeqSubNat
<1>6. Tight(st) /\ Anchored(st, S) /\ Own(st, S) /\ Complete(st, S) /\ VerdictOK(k, st)
    BY DEF EntryOK, Placed
<1>7. Extracted(k, st) = ExtractFrom(k, pre)
    BY DEF Extracted, Extract
<1>8. pre = [i \in 1 .. g |-> st.buf[i - 1]]
    BY DEF PrefixOf
<1> HIDE DEF k, d, g, off, pre
<1>9. pre \in Seq(Nat) /\ Len(pre) = g /\ \A i \in 1 .. g : pre[i] = st.buf[i - 1]
  <2>1. g \in Nat /\ \A i \in 1 .. g : st.buf[i - 1] \in Nat
    <3>1. g \in Nat /\ g <= BufCap - 1
        BY <1>3, <1>4 DEF Offset
    <3>2. ASSUME NEW i \in 1 .. g PROVE st.buf[i - 1] \in Byte
      <4>1. i - 1 \in Offset
          BY <1>3, <3>1 DEF Offset
      <4> QED BY <1>3, <4>1
    <3> QED BY <3>1, <3>2, ByteAssumption
  <2> QED BY <1>8, <2>1
<1>10. g > 0 => /\ off + g <= Len(d)
                /\ \A i \in 1 .. g : pre[i] = d[off + i]
  <2> SUFFICES ASSUME g > 0 PROVE /\ off + g <= Len(d)
                                 /\ \A i \in 1 .. g : pre[i] = d[off + i]
      OBVIOUS
  <2>1. g \in Nat /\ g <= st.hwm
      BY <1>3, <1>4
  <2>2. /\ SeqSub(st.first_seq, m.base) + g <= Len(m.data)
        /\ \A i \in 0 .. g - 1 :
              st.buf[i] = m.data[SeqSub(st.first_seq, m.base) + i + 1]
      BY <1>1, <1>4, <1>6, <2>1, PrefixOfMessage DEF d
  <2>3. ASSUME NEW i \in 1 .. g PROVE pre[i] = d[off + i]
    <3>1. i - 1 \in 0 .. g - 1 /\ off + (i - 1) + 1 = off + i
        BY <1>5, <2>1
    <3>2. st.buf[i - 1] = d[off + (i - 1) + 1]
        BY <2>2, <3>1 DEF d, off
    <3> QED BY <1>9, <3>1, <3>2
  <2> QED BY <2>2, <2>3 DEF d, off
<1>11. ASSUME st.verdict_cached PROVE Decides(st, ExtractFrom(k, d))
  <2>1. /\ ExtractFrom(k, pre).res # "PENDING"
        /\ Decides(st, ExtractFrom(k, pre))
      BY <1>6, <1>7, <1>11 DEF VerdictOK, Decides
  <2>2. g > 0
    <3>1. g = 0 => pre = << >>
        BY <1>9
    <3> QED BY <1>3, <1>4, <2>1, <3>1, NothingExtracted DEF Pending
  <2>3. off = 0
    <3> SUFFICES ASSUME off # 0 PROVE FALSE
        OBVIOUS
    <3> DEFINE t == SubSeq(d, off + 1, Len(d))
    <3>1. off + 1 \in 2 .. Len(d)
        BY <1>2, <1>3, <1>4, <1>5, <1>10, <2>2
    <3>2. t \in Seq(Nat) /\ Len(t) = Len(d) - off /\ \A i \in 1 .. Len(d) - off : t[i] = d[off + i]
        BY <1>2, <1>5, <3>1
    <3>3. ExtractFrom(k, t).res = "PENDING"
        BY <1>1, <3>1
    <3> HIDE DEF t
    <3>4. Extends(pre, t)
      <4>1. g \in Nat /\ g <= Len(d) - off
          BY <1>2, <1>3, <1>4, <1>5, <1>10, <2>2
      <4>2. \A i \in 1 .. g : t[i] = pre[i]
          BY <1>2, <1>5, <1>10, <2>2, <3>2, <4>1
      <4> QED BY <1>9, <3>2, <4>1, <4>2 DEF Extends
    <3> QED BY <2>1, <3>3, <3>4, ExtractFromFinal
  <2>4. Extends(pre, d)
      BY <1>2, <1>3, <1>4, <1>9, <1>10, <2>2, <2>3 DEF Extends
  <2>5. ExtractFrom(k, d) = ExtractFrom(k, pre)
      BY <2>1, <2>4, ExtractFromFinal
  <2> QED BY <2>1, <2>5
<1>12. ASSUME \A s \in SeqNum : SeqSub(s, m.base) < Len(d) => \E pkt \in S : Covers(pkt, s)
       PROVE  st.verdict_cached
  <2> SUFFICES ASSUME ~st.verdict_cached PROVE FALSE
      OBVIOUS
  <2>1. ExtractFrom(k, pre).res \notin {"FOUND", "NOT_PRESENT"}
      BY <1>6, <1>7 DEF VerdictOK
  <2>2. ASSUME NEW s \in SeqNum, SeqSub(s, m.base) < Len(d) PROVE Has(st, s)
    <3>1. FitsFrom(S, m.base)
      <4> SUFFICES ASSUME NEW pkt \in S, Payload(pkt) # << >>
                   PROVE  SeqSub(pkt.seq, m.base) + Len(Payload(pkt)) <= Window
          BY DEF FitsFrom
      <4>1. Payload(pkt) \in Seq(Byte) /\ pkt.seq \in SeqNum /\ PieceOf(pkt, m)
          BY PayloadType
      <4>2. Len(Payload(pkt)) \in Nat /\ Len(Payload(pkt)) # 0 /\ SeqSub(pkt.seq, m.base) \in Nat
          BY <1>2, <4>1, SeqSubNat
      <4>3. SeqSub(pkt.seq, m.base) + Len(Payload(pkt)) <= Len(d)
          BY <4>1, <4>2 DEF PieceOf, d
      <4> QED BY <1>1, <1>2, <1>3, <4>2, <4>3 DEF Window
    <3> QED BY <1>2, <1>6, <1>12, <2>2, <3>1 DEF Complete
  <2>3. Len(d) > 0
    <3>1. Len(d) = 0 => d = << >>
        BY <1>2
    <3> QED BY <1>1, <1>2, <3>1, NothingExtracted DEF Pending
  <2>4. Has(st, m.base)
      BY <1>2, <2>2, <2>3, SeqSubSelf
  <2>5. g > 0 /\ off = 0
    <3>1. st.first_seq_set /\ st.hwm > 0
        BY <1>3, <2>4 DEF Has, BelowHwm, Offset
    <3>2. PICK pkt \in S : Payload(pkt) # << >> /\ pkt.seq = st.first_seq
        BY <1>6, <3>1 DEF Anchored
    <3>3. Payload(pkt) \in Seq(Byte) /\ PieceOf(pkt, m)
        BY PayloadType
    <3>4. Len(Payload(pkt)) \in Nat /\ Len(Payload(pkt)) # 0
        BY <3>2, <3>3
    <3>5. off < Len(d)
        BY <1>2, <1>5, <3>2, <3>3, <3>4 DEF PieceOf, d, off
    <3>6. SeqSub(m.base, st.first_seq) <= BufCap - 1
        BY <2>4 DEF Has, Offset
    <3>7. off = 0
      <4>1. off <= BufCap - 1
          BY <1>1, <1>2, <1>3, <1>5, <3>5 DEF Window
      <4> QED BY <1>2, <1>3, <3>6, <4>1, SizeAssumption DEF off, SeqSub, SeqNum, SeqSpace
    <3>8. st.first_seq = m.base
        BY <1>2, <1>3, <3>7, SizeAssumption DEF off, SeqSub, SeqNum, SeqSpace
    <3>9. st.filled[0]
        BY <1>2, <2>4, <3>8, SeqSubSelf DEF Has
    <3> QED BY <1>3, <1>4, <3>1, <3>7, <3>9
  <2>6. g = Len(d)
    <3> SUFFICES ASSUME g < Len(d) PROVE FALSE
        BY <1>2, <1>3, <1>4, <1>5, <1>10, <2>5
    <3>1. g \in Offset /\ g \in Nat
        BY <1>1, <1>2, <1>3, <1>4 DEF Offset, Window
    <3>2. st.first_seq = m.base
        BY <1>2, <1>3, <2>5, SizeAssumption DEF off, SeqSub, SeqNum, SeqSpace
    <3>3. PICK s \in SeqNum : SeqSub(s, st.first_seq) = g
        BY <1>3, <3>1, SeqAt
    <3>4. Has(st, s)
        BY <2>2, <3>2, <3>3
    <3>5. st.filled[g]
        BY <3>3, <3>4 DEF Has
    <3> QED BY <1>3, <1>4, <3>1, <3>5 DEF BelowHwm
  <2>7. pre = d
    <3>1. \A i \in 1 .. g : pre[i] = d[i]
        BY <1>10, <2>5, <1>2, <2>6
    <3>2. pre = [i \in 1 .. g |-> pre[i]] /\ d = [i \in 1 .. g |-> d[i]]
      <4>1. d = [i \in 1 .. Len(d) |-> d[i]]
          BY <1>2
      <4>2. pre = [i \in 1 .. Len(pre) |-> pre[i]]
          BY <1>9
      <4> QED BY <1>9, <2>6, <4>1, <4>2, Zenon
    <3> QED BY <3>1, <3>2
  <2> QED BY <1>1, <2>1, <2>7
<1> QED BY <1>11, <1>12 DEF k, d

(* A flow that brings only pieces of one request or ClientHello gets the   *)
(* verdict of the whole, in whatever order, overlap and repetition they    *)
(* come, and gets it as soon as they cover it: for every message that fits *)
(* the window and no tail of which reads like one.                         *)
THEOREM FlowOrderIndependent == Spec => []OrderIndependent
<1>1. HistInv => OrderIndependent
  <2> SUFFICES ASSUME HistInv, NEW m \in Telling, m.key \in Live(hash),
                      \A pkt \in seen[m.key] : PieceOf(pkt, m)
               PROVE  /\ StateOf(m.key).verdict_cached =>
                             Decides(StateOf(m.key), ExtractFrom(m.key, m.data))
                      /\ (\A s \in SeqNum : SeqSub(s, m.base) < Len(m.data) =>
                              \E pkt \in seen[m.key] : Covers(pkt, s))
                         => StateOf(m.key).verdict_cached
      BY DEF OrderIndependent
  <2>1. PICK st, S : st = StateOf(m.key) /\ S = seen[m.key]
      OBVIOUS
  <2>2. /\ st \in State /\ BelowHwm(st) /\ S \in SUBSET Packet
        /\ EntryOK(m.key, st, S)
      BY <2>1 DEF HistInv, TableInv, TypeOK, SlotOK, Live, StateOf
  <2>3. \A pkt \in S : PieceOf(pkt, m)
      BY <2>1
  <2>4. /\ st.verdict_cached => Decides(st, ExtractFrom(m.key, m.data))
        /\ (\A s \in SeqNum : SeqSub(s, m.base) < Len(m.data) =>
                \E pkt \in S : Covers(pkt, s))
           => st.verdict_cached
      BY <2>2, <2>3, EntryOrder
  <2> QED BY <2>1, <2>4, Zenon
<1> QED BY SpecHistInv, <1>1, PTL
-----------------------------------------------------------------------------
(* The refinement: what an entry remembers, and how a packet changes it.   *)
LEMMA MemoryFields ==
    \A st : /\ Memory(st).bytes = Bytes(st) /\ Memory(st).verdict = VerdictOf(st)
            /\ Memory(st).last = st.last_seen_tsc
BY DEF Memory

LEMMA ZeroMemory == Memory(ZeroState) = FS!Blank /\ Unknown = FS!Blank
<1>1. /\ ~ZeroState.verdict_cached /\ ZeroState.last_seen_tsc = 0
      /\ \A o \in Offset : ~ZeroState.filled[o]
    BY DEF ZeroState
<1>2. Bytes(ZeroState) = {}
  <2>1. \A s \in SeqNum : ~Has(ZeroState, s)
      BY <1>1 DEF Has
  <2> QED BY <2>1 DEF Bytes
<1>3. VerdictOf(ZeroState) = "NONE"
    BY <1>1 DEF VerdictOf
<1> QED BY <1>1, <1>2, <1>3 DEF Memory, Unknown, FS!Blank

(* The bytes of an entry that keeps and learns grow by the packet's, in    *)
(* positions that had none.                                                *)
LEMMA BytesExtend ==
    ASSUME NEW st, NEW t, NEW pkt \in Packet, Keeps(st, t),
           Learns(st, t, pkt.seq, Payload(pkt))
    PROVE  FS!Extends(Bytes(st), Bytes(t), pkt)
<1>1. Bytes(st) \subseteq Bytes(t)
  <2> SUFFICES ASSUME NEW s \in SeqNum, Has(st, s) PROVE <<s, ByteAt(st, s)>> \in Bytes(t)
      BY DEF Bytes
  <2>1. Has(t, s) /\ ByteAt(t, s) = ByteAt(st, s)
      BY DEF Keeps
  <2> QED BY <2>1 DEF Bytes
<1>2. ASSUME NEW x \in Bytes(t), x \notin Bytes(st)
      PROVE  Carries(pkt, x[1], x[2]) /\ \A y \in Bytes(st) : y[1] # x[1]
  <2>1. PICK s \in SeqNum : Has(t, s) /\ x = <<s, ByteAt(t, s)>>
      BY DEF Bytes
  <2>2. x[1] = s /\ x[2] = ByteAt(t, s)
      BY <2>1
  <2>3. ~Has(st, s)
    <3>1. SUFFICES ASSUME Has(st, s) PROVE FALSE
        OBVIOUS
    <3>2. ByteAt(t, s) = ByteAt(st, s)
        BY <3>1 DEF Keeps
    <3> QED BY <3>1, <3>2, <2>1, <1>2 DEF Bytes
  <2>4. Carries(pkt, s, ByteAt(t, s))
      BY <2>1, <2>3 DEF Learns, Within, Carries, Covers
  <2>5. ASSUME NEW y \in Bytes(st) PROVE y[1] # s
    <3>1. PICK n \in SeqNum : Has(st, n) /\ y = <<n, ByteAt(st, n)>>
        BY DEF Bytes
    <3> QED BY <3>1, <2>3
  <2> QED BY <2>2, <2>4, <2>5
<1> QED BY <1>1, <1>2 DEF FS!Extends

(* A verdict on record is one of the abstract specification's. *)
LEMMA VerdictType ==
    ASSUME NEW k, NEW st \in State, VerdictOK(k, st)
    PROVE  /\ st.verdict_cached => VerdictOf(st) \in FS!Verdict
           /\ ~st.verdict_cached => VerdictOf(st) = "NONE"
<1>1. st.cached_action \in {"FORWARD", "DROP"}
    BY DEF State
<1> QED BY <1>1 DEF VerdictOf, FS!Verdict

(* The worker's answer is the abstract reply to what the entry remembers.  *)
LEMMA AnswerReply ==
    ASSUME NEW k, NEW st \in State, VerdictOK(k, st), NEW o \in Outcome, AnswerOK(st, o),
           o.key = k
    PROVE  [key |-> o.key, action |-> o.action, no_sni |-> o.no_sni]
                = FS!ReplyTo(k, VerdictOf(st))
<1>1. st.cached_action \in {"FORWARD", "DROP"} /\ o.no_sni \in BOOLEAN
    BY DEF State, Outcome
<1>2. o.action = IF VerdictOf(st) = "DROP" THEN "DROP" ELSE "FORWARD"
    BY <1>1 DEF VerdictOf, AnswerOK, VerdictOK
<1>3. o.no_sni = (VerdictOf(st) = "NO_SNI")
    BY <1>1 DEF VerdictOf, AnswerOK
<1> QED BY <1>2, <1>3 DEF FS!ReplyTo
(* A packet handled with entry st is a step of the abstract flow: decided  *)
(* flows note the time, undecided ones learn.                              *)
LEMMA ResultsRefine ==
    ASSUME NEW k \in Key, NEW st \in State, SlotOK(st), now \in Nat,
           NEW S \in SUBSET Packet, EntryOK(k, st, S),
           NEW pkt \in Packet, NEW new \in BOOLEAN, NEW r \in Results(k, st, pkt, new)
    PROVE  /\ \/ /\ Memory(st).verdict \in FS!Verdict
                 /\ Memory(r.st) = [Memory(st) EXCEPT !.last = now]
              \/ /\ Memory(st).verdict = "NONE"
                 /\ Memory(r.st).last = now
                 /\ FS!Extends(Memory(st).bytes, Memory(r.st).bytes, pkt)
                 /\ \/ Memory(r.st).verdict = "NONE"
                    \/ /\ Memory(r.st).verdict \in FS!Verdict
                       /\ Memory(r.st).bytes # Memory(st).bytes
           /\ r.out \in Outcome /\ r.out.key = k
           /\ [key |-> r.out.key, action |-> r.out.action, no_sni |-> r.out.no_sni]
                = FS!ReplyTo(k, Memory(r.st).verdict)
<1>1. /\ r.st \in State /\ SlotOK(r.st) /\ Keeps(st, r.st)
      /\ r.out \in Outcome /\ r.out.key = k /\ r.out.new = new
    BY ResultsOK
<1>2. VerdictOK(k, st)
    BY DEF EntryOK
<1>3. CASE st.verdict_cached
  <2>1. /\ r.st = [st EXCEPT !.last_seen_tsc = now]
        /\ EntryOK(k, r.st, S) /\ AnswerOK(r.st, r.out)
      BY <1>3, ResultsDecided
  <2>2. VerdictOK(k, r.st)
      BY <2>1 DEF EntryOK
  <2>3. Memory(st).verdict \in FS!Verdict
      BY <1>2, <1>3, VerdictType, MemoryFields
  <2>4. /\ Bytes(r.st) = Bytes(st) /\ VerdictOf(r.st) = VerdictOf(st)
        /\ r.st.last_seen_tsc = now
    <3>1. /\ r.st.filled = st.filled /\ r.st.buf = st.buf /\ r.st.first_seq = st.first_seq
          /\ r.st.verdict_cached = st.verdict_cached /\ r.st.no_sni_cached = st.no_sni_cached
          /\ r.st.cached_action = st.cached_action /\ r.st.last_seen_tsc = now
        BY <2>1 DEF State
    <3>2. \A s : (Has(r.st, s) <=> Has(st, s)) /\ ByteAt(r.st, s) = ByteAt(st, s)
        BY <3>1 DEF Has, ByteAt
    <3>3. Bytes(r.st) = Bytes(st)
        BY <3>2 DEF Bytes
    <3> QED BY <3>1, <3>3 DEF VerdictOf
  <2>5. Memory(r.st) = [Memory(st) EXCEPT !.last = now]
      BY <2>4 DEF Memory
  <2>6. [key |-> r.out.key, action |-> r.out.action, no_sni |-> r.out.no_sni]
            = FS!ReplyTo(k, Memory(r.st).verdict)
      BY <1>1, <2>1, <2>2, AnswerReply, MemoryFields
  <2> QED BY <1>1, <2>3, <2>5, <2>6
<1>4. CASE ~st.verdict_cached
  <2>1. /\ EntryOK(k, r.st, S \cup {pkt}) /\ AnswerOK(r.st, r.out)
        /\ Learns(st, r.st, pkt.seq, Payload(pkt)) /\ r.st.last_seen_tsc = now
        /\ r.st.verdict_cached => \E s \in SeqNum : Has(r.st, s) /\ ~Has(st, s)
      BY <1>4, ResultsUndecided
  <2>2. VerdictOK(k, r.st)
      BY <2>1 DEF EntryOK
  <2>3. Memory(st).verdict = "NONE" /\ Memory(r.st).last = now
      BY <1>2, <1>4, <2>1, VerdictType, MemoryFields
  <2>4. FS!Extends(Memory(st).bytes, Memory(r.st).bytes, pkt)
      BY <1>1, <2>1, BytesExtend, MemoryFields
  <2>5. \/ Memory(r.st).verdict = "NONE"
        \/ Memory(r.st).verdict \in FS!Verdict /\ Memory(r.st).bytes # Memory(st).bytes
    <3>1. CASE ~r.st.verdict_cached
        BY <3>1, <1>1, <2>2, VerdictType, MemoryFields
    <3>2. CASE r.st.verdict_cached
      <4>1. PICK s \in SeqNum : Has(r.st, s) /\ ~Has(st, s)
          BY <3>2, <2>1
      <4>2. <<s, ByteAt(r.st, s)>> \in Bytes(r.st)
          BY <4>1 DEF Bytes
      <4>3. <<s, ByteAt(r.st, s)>> \notin Bytes(st)
          BY <4>1 DEF Bytes
      <4>4. VerdictOf(r.st) \in FS!Verdict
          BY <3>2, <1>1, <2>2, VerdictType
      <4> QED BY <4>2, <4>3, <4>4, MemoryFields
    <3> QED BY <3>1, <3>2
  <2>6. [key |-> r.out.key, action |-> r.out.action, no_sni |-> r.out.no_sni]
            = FS!ReplyTo(k, Memory(r.st).verdict)
      BY <1>1, <2>1, <2>2, AnswerReply, MemoryFields
  <2> QED BY <1>1, <2>3, <2>4, <2>5, <2>6
<1> QED BY <1>3, <1>4
(* A key whose entry is gone, or may go, is forgotten with good reason. *)
LEMMA VacantForgotten ==
    ASSUME NEW k \in Key, Vacant(k)
    PROVE  FS!Blank \in {Remembered(k)} \cup (IF FS!Expired(k) THEN {FS!Blank} ELSE {})
<1>1. CASE hash[k] = NoSlot
    BY <1>1, ZeroMemory DEF Remembered
<1>2. CASE k \in Idle(hash)
  <2>1. hash[k] # NoSlot /\ now - states[hash[k]].last_seen_tsc > Timeout
      BY <1>2 DEF Idle, Live
  <2>2. Remembered(k).last = states[hash[k]].last_seen_tsc
      BY <2>1, MemoryFields DEF Remembered, StateOf
  <2>3. FS!Expired(k)
      BY <2>1, <2>2 DEF FS!Expired
  <2> QED BY <2>3
<1> QED BY <1>1, <1>2 DEF Vacant

(* Every packet is a step of the abstract specification. *)
LEMMA HandlePacketRefines ==
    ASSUME HistInv, NEW pkt \in Packet, HandlePacket(pkt)
    PROVE  FS!Receive(pkt)
<1> DEFINE k == pkt.key
<1>1. TableInv /\ now \in Nat /\ TypeOK
    BY DEF HistInv, TableInv, TypeOK
<1>2. /\ \A j \in Key \ {k} : Unaffected(j)
      /\ Known(pkt, k) \/ Made(pkt, k) \/ Refused(k)
    BY <1>1, HandlePacketEffect
<1>3. k \in Key
    BY PayloadType
<1>4. now' = now
    BY DEF HandlePacket
<1>5. ASSUME NEW j \in Key \ {k}
      PROVE  Remembered(j)' = Remembered(j) \/ (FS!Expired(j) /\ Remembered(j)' = FS!Blank)
  <2>1. CASE hash'[j] = NoSlot /\ j \in Idle(hash)
    <3>1. Remembered(j)' = FS!Blank
        BY <2>1, ZeroMemory DEF Remembered
    <3>2. hash[j] # NoSlot /\ now - states[hash[j]].last_seen_tsc > Timeout
        BY <2>1 DEF Idle, Live
    <3>3. Remembered(j).last = states[hash[j]].last_seen_tsc
        BY <3>2, MemoryFields DEF Remembered, StateOf
    <3>4. FS!Expired(j)
        BY <3>2, <3>3 DEF FS!Expired
    <3> QED BY <3>1, <3>4
  <2>2. CASE hash'[j] = hash[j] /\ (hash[j] # NoSlot => states'[hash[j]] = states[hash[j]])
      BY <2>2 DEF Remembered, StateOf
  <2> QED BY <1>2, <2>1, <2>2 DEF Unaffected
<1>6. (/\ \E old \in {Remembered(k)} \cup (IF FS!Expired(k) THEN {FS!Blank} ELSE {}) :
             FS!Decided(pkt, old) \/ FS!Undecided(pkt, old) \/ FS!Untracked(pkt, old)
       /\ Replied' = FS!ReplyTo(k, Remembered(k).verdict'))
      => FS!Receive(pkt)
  <2>1. FS!ReplyTo(k, Remembered(k).verdict').key = k
      BY DEF FS!ReplyTo
  <2> QED BY <1>3, <1>4, <1>5, <2>1 DEF FS!Receive
<1> HIDE DEF k
<1>7. ASSUME NEW st \in State, SlotOK(st), NEW S \in SUBSET Packet, EntryOK(k, st, S),
             NEW new \in BOOLEAN, NEW r \in Results(k, st, pkt, new), out' = r.out,
             Remembered(k)' = Memory(r.st),
             Memory(st) \in {Remembered(k)} \cup (IF FS!Expired(k) THEN {FS!Blank} ELSE {})
      PROVE  FS!Receive(pkt)
  <2> DEFINE old == Memory(st)
             mem == Memory(r.st)
  <2>1. /\ \/ old.verdict \in FS!Verdict /\ mem = [old EXCEPT !.last = now]
           \/ /\ old.verdict = "NONE"
              /\ mem.last = now
              /\ FS!Extends(old.bytes, mem.bytes, pkt)
              /\ \/ mem.verdict = "NONE"
                 \/ mem.verdict \in FS!Verdict /\ mem.bytes # old.bytes
        /\ r.out \in Outcome /\ r.out.key = k
        /\ [key |-> r.out.key, action |-> r.out.action, no_sni |-> r.out.no_sni]
              = FS!ReplyTo(k, mem.verdict)
      BY <1>1, <1>3, <1>7, ResultsRefine
  <2>2. Remembered(k)' = mem
      BY <1>7
  <2>3. old \in {Remembered(k)} \cup (IF FS!Expired(k) THEN {FS!Blank} ELSE {})
      BY <1>7
  <2> HIDE DEF old, mem
  <2>4. FS!Decided(pkt, old) \/ FS!Undecided(pkt, old)
      BY <2>1, <2>2, <1>3 DEF FS!Decided, FS!Undecided, k
  <2>5. Replied' = FS!ReplyTo(k, Remembered(k).verdict')
    <3>1. out' # NoOutcome
        BY <1>7, <2>1 DEF Outcome, NoOutcome, Status
    <3> QED BY <1>7, <2>1, <2>2, <3>1 DEF Replied
  <2> QED BY <2>3, <2>4, <2>5, <1>6
<1>8. CASE Known(pkt, k)
  <2> DEFINE st == states[hash[k]]
  <2>1. PICK r \in Results(k, st, pkt, FALSE) : states'[hash[k]] = r.st /\ out' = r.out
      BY <1>8 DEF Known
  <2>2. hash[k] \in Slot /\ hash[k] # NoSlot /\ hash'[k] = hash[k]
      BY <1>8, TableAssumption DEF Known, Slot, NoSlot
  <2>3. st \in State /\ SlotOK(st) /\ EntryOK(k, st, seen[k]) /\ seen[k] \in SUBSET Packet
      BY <1>1, <1>3, <2>2 DEF HistInv, TableInv, TypeOK, Live, StateOf
  <2>4. PICK new \in BOOLEAN : new = FALSE
      OBVIOUS
  <2>5. r \in Results(k, st, pkt, new)
      BY <2>4, Zenon
  <2>6. Remembered(k) = Memory(st) /\ Remembered(k)' = Memory(r.st)
      BY <2>1, <2>2 DEF Remembered, StateOf
  <2> HIDE DEF st
  <2>7. Memory(st) \in {Remembered(k)} \cup (IF FS!Expired(k) THEN {FS!Blank} ELSE {})
      BY <2>6
  <2> QED BY <1>7, <2>1, <2>3, <2>5, <2>6, <2>7
<1>9. CASE Made(pkt, k)
  <2>1. PICK r \in Results(k, ZeroState, pkt, TRUE) : states'[hash'[k]] = r.st /\ out' = r.out
      BY <1>9 DEF Made
  <2>2. hash'[k] \in Slot /\ hash'[k] # NoSlot /\ Vacant(k)
      BY <1>9, TableAssumption DEF Made, Slot, NoSlot
  <2>3. Remembered(k)' = Memory(r.st)
      BY <2>1, <2>2 DEF Remembered, StateOf
  <2>4. Memory(ZeroState) \in {Remembered(k)} \cup (IF FS!Expired(k) THEN {FS!Blank} ELSE {})
      BY <1>3, <2>2, ZeroMemory, VacantForgotten
  <2>5. EntryOK(k, ZeroState, {})
      BY <1>3, ZeroEntry
  <2> QED BY <1>7, <2>1, <2>3, <2>4, <2>5, ZeroStateOK
<1>10. CASE Refused(k)
  <2>1. Vacant(k) /\ hash'[k] = NoSlot /\ out' = Answer(k, "GIVE_UP", "FORWARD", FALSE, FALSE)
      BY <1>10 DEF Refused
  <2>2. FS!Blank \in {Remembered(k)} \cup (IF FS!Expired(k) THEN {FS!Blank} ELSE {})
      BY <1>3, <2>1, VacantForgotten
  <2>3. Remembered(k)' = FS!Blank
      BY <2>1, ZeroMemory DEF Remembered
  <2>4. FS!Untracked(pkt, FS!Blank)
      BY <1>3, <2>3 DEF FS!Untracked, k
  <2>5. Replied' = FS!ReplyTo(k, Remembered(k).verdict')
    <3>1. /\ out'.key = k /\ out'.action = "FORWARD" /\ out'.no_sni = FALSE
          /\ out' # NoOutcome
        BY <2>1 DEF Answer, NoOutcome
    <3>2. Remembered(k).verdict' = "NONE"
        BY <2>3 DEF FS!Blank
    <3>3. Replied' = [key |-> k, action |-> "FORWARD", no_sni |-> FALSE]
        BY <3>1 DEF Replied
    <3> QED BY <3>2, <3>3 DEF FS!ReplyTo
  <2> QED BY <2>2, <2>4, <2>5, <1>6
<1> QED BY <1>2, <1>8, <1>9, <1>10

(* The worker with its bounded table of bounded windows, its NUL writes,   *)
(* its sweep and its reused slots implements the abstract worker: for      *)
(* every set of flows and packets, every size and every timeout, whatever  *)
(* the extractors and the scanner say, it decides a flow at most once, on  *)
(* a packet that brought new bytes, answers all its later packets alike    *)
(* and forgets it only after a pause longer than the timeout.              *)
THEOREM FlowImplements == Spec => ImplementsFlowSpec
<1>1. Init => FS!Init
  <2> SUFFICES ASSUME Init PROVE FS!Init
      OBVIOUS
  <2>1. \A k \in Key : Remembered(k) = FS!Blank
      BY ZeroMemory DEF Init, Remembered
  <2>2. Replied = FS!NoReply
      BY DEF Init, Replied, FS!NoReply
  <2> QED BY <2>1, <2>2 DEF Init, FS!Init
<1>2. HistInv /\ [Next]_vars => [FS!Next]_FS!vars
  <2> SUFFICES ASSUME HistInv, [Next]_vars PROVE [FS!Next]_FS!vars
      OBVIOUS
  <2>1. CASE \E pkt \in Packet : HandlePacket(pkt)
      BY <2>1, HandlePacketRefines DEF FS!Next
  <2>2. ASSUME hash' = hash, states' = states, out' = out
        PROVE  /\ [k \in Key |-> Remembered(k)]' = [k \in Key |-> Remembered(k)]
               /\ Replied' = Replied
      BY <2>2 DEF Remembered, StateOf, Replied
  <2>3. CASE Tick
      BY <2>2, <2>3 DEF Tick, FS!Next, FS!Tick
  <2>4. CASE UNCHANGED vars
      BY <2>2, <2>4 DEF vars, FS!vars
  <2> QED BY <2>1, <2>3, <2>4 DEF Next
<1> QED BY SpecHistInv, <1>1, <1>2, PTL DEF Spec, FS!Spec, ImplementsFlowSpec
=============================================================================
