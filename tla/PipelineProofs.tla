---------------------------- MODULE PipelineProofs ----------------------------
(***************************************************************************)
(* Proofs about Pipeline, for every number of workers, every burst and     *)
(* ring size, every set of flows and every steering of them.               *)
(***************************************************************************)
EXTENDS Pipeline, SumProofs, FiniteSetTheorems, TLAPS

(* Which threads main() has launched, and which it has waited for. *)
Phases ==
    /\ main.pc = "rx" => rx.pc = "off"
    /\ main.pc \in {"rx", "workers", "tx"} => tx.pc = "off"
    /\ main.pc \in {"rx", "workers", "tx", "stats"} => stats = "off"
    /\ IF main.pc \in {"port", "rings", "rules", "done"} THEN AllExited
                                                         ELSE main.res = Shared

(* What the local arrays of the threads hold where in their loops. *)
RxLocals ==
    /\ rx.pc = "spread" <=> rx.bufs # << >>
    /\ rx.pc # "spread" => rx.nb_rx = 0
    /\ rx.pc # "enqueue" => rx.next = 0
    /\ \A w \in Worker : rx.dest[w] # << >> =>
           rx.pc = "spread" \/ (rx.pc = "enqueue" /\ rx.next <= w)
WorkerLocals ==
    \A w \in Worker :
        /\ wk[w].bufs # << >> => wk[w].pc = "batch"
        /\ wk[w].fwd # << >> => wk[w].pc \in {"batch", "count"}
        /\ wk[w].sent # 0 => wk[w].pc = "count"
TxLocals == tx.bufs # << >> => tx.pc = "batch"
Locals == RxLocals /\ WorkerLocals /\ TxLocals

(* The way of an mbuf through the places: the port comes first, then what  *)
(* leads to it.                                                            *)
Rank(p) == CASE p[1] = "nic"     -> 1
             [] p[1] = "tx"      -> 2
             [] p[1] = "tx_ring" -> 3
             [] p[1] = "fwd"     -> 4
             [] p[1] = "bufs"    -> 5
             [] p[1] = "ring"    -> 6
             [] p[1] = "dest"    -> 7
             [] p[1] = "rx"      -> 8
rank == [p \in PlaceNames |-> Rank(p)]

(* The flows that come by a place. *)
site == [p \in PlaceNames |->
            {f \in Flow : p[1] \in {"dest", "ring", "bufs", "fwd"} => WorkerOf[f] = p[2]}]

places == [p \in PlaceNames |-> At(p)]

(* In an arrangement P of mbufs over places X: every place has only mbufs  *)
(* of its flows, and of two mbufs of one flow the one further on its way   *)
(* came first.                                                             *)
Sited(X, st, P) == \A x \in X : \A i \in 1 .. Len(P[x]) : P[x][i].flow \in st[x]
InOrder(X, rk, P) ==
    \A x, y \in X : \A i \in 1 .. Len(P[x]), j \in 1 .. Len(P[y]) :
        P[x][i].flow = P[y][j].flow /\ (rk[x] < rk[y] \/ (x = y /\ i < j))
            => P[x][i].no < P[y][j].no

(* The mbufs in some place. *)
Held(X, P) == UNION {{P[x][i] : i \in 1 .. Len(P[x])} : x \in X}

(* No mbuf is in a place and freed, or freed twice; all that arrived are   *)
(* in a place or freed, and nothing else is.                               *)
Apart(H, F) == /\ \A t \in Freers : H \cap F[t] = {}
               /\ \A t, u \in Freers : t # u => F[t] \cap F[u] = {}
Exactly(H, F, A) == /\ H \cup UNION {F[t] : t \in Freers} = {A[i] : i \in 1 .. Len(A)}
                    /\ \A i \in 1 .. Len(A) : A[i].no = i

Ways(P, F, A) == /\ Sited(PlaceNames, site, P)
                 /\ InOrder(PlaceNames, rank, P)
                 /\ Apart(Held(PlaceNames, P), F)
                 /\ Exactly(Held(PlaceNames, P), F, A)

PipelineInv == /\ TypeOK /\ Phases /\ Locals /\ Ways(places, freed, arrived)
               /\ Accounting /\ \A t \in Freers : IsFiniteSet(freed[t])
-----------------------------------------------------------------------------
(* Bursts *)
LEMMA TakeRest ==
    ASSUME NEW M, NEW s \in Seq(M), NEW n \in 0 .. Len(s)
    PROVE  /\ Take(s, n) \in Seq(M) /\ Len(Take(s, n)) = n
           /\ \A i \in 1 .. n : Take(s, n)[i] = s[i]
           /\ Rest(s, n) \in Seq(M) /\ Len(Rest(s, n)) = Len(s) - n
           /\ \A i \in 1 .. Len(s) - n : Rest(s, n)[i] = s[i + n]
<1>1. /\ SubSeq(s, 1, n) \in Seq(M) /\ Len(SubSeq(s, 1, n)) = n
      /\ \A i \in 1 .. n : SubSeq(s, 1, n)[i] = s[i]
    OBVIOUS
<1>2. /\ SubSeq(s, n + 1, Len(s)) \in Seq(M)
      /\ Len(SubSeq(s, n + 1, Len(s))) = Len(s) - n
      /\ \A i \in 1 .. Len(s) - n : SubSeq(s, n + 1, Len(s))[i] = s[i + n]
    OBVIOUS
<1> QED BY <1>1, <1>2 DEF Take, Rest

Joins(r, s, t) == /\ Len(r) = Len(s) + Len(t)
                  /\ \A i \in 1 .. Len(s) : r[i] = s[i]
                  /\ \A i \in 1 .. Len(t) : r[Len(s) + i] = t[i]

LEMMA Joined ==
    ASSUME NEW M, NEW s \in Seq(M), NEW t \in Seq(M)
    PROVE  s \o t \in Seq(M) /\ Joins(s \o t, s, t)
BY DEF Joins

(* A burst of at most b elements from the head of a ring. *)
LEMMA TakeLen ==
    ASSUME NEW M, NEW s \in Seq(M), NEW b \in Nat
    PROVE  LET n == Len(Take(s, b))
           IN  n \in 0 .. Len(s) /\ n <= b /\ Take(s, b) = Take(s, n)
<1>1. CASE b < Len(s)
  <2>1. Len(Take(s, b)) = b
      BY <1>1, TakeRest
  <2> QED BY <1>1, <2>1
<1>2. CASE ~(b < Len(s))
  <2>1. Take(s, b) = s /\ Take(s, Len(s)) = s
      BY <1>2 DEF Take
  <2> QED BY <1>2, <2>1
<1> QED BY <1>1, <1>2

LEMMA FitsBound ==
    ASSUME NEW M, NEW r \in Seq(M), NEW s \in Seq(M), NEW cap \in Nat, Len(r) <= cap
    PROVE  Fits(r, s, cap) \in 0 .. Len(s) /\ Len(r) + Fits(r, s, cap) <= cap
BY DEF Fits

-----------------------------------------------------------------------------
(* Arrangements of mbufs.  n mbufs go from the head of place p to the end  *)
(* of place q ...                                                          *)
Moves(X, P, Q, p, q, n) ==
    /\ \A x \in X \ {p, q} : Q[x] = P[x]
    /\ Len(Q[p]) = Len(P[p]) - n /\ \A i \in 1 .. Len(P[p]) - n : Q[p][i] = P[p][i + n]
    /\ Len(Q[q]) = Len(P[q]) + n
    /\ \A i \in 1 .. Len(P[q]) : Q[q][i] = P[q][i]
    /\ \A i \in 1 .. n : Q[q][Len(P[q]) + i] = P[p][i]

(* ... or n mbufs leave the head of place p. *)
Leaves(X, P, Q, p, n) ==
    /\ \A x \in X \ {p} : Q[x] = P[x]
    /\ Len(Q[p]) = Len(P[p]) - n /\ \A i \in 1 .. Len(P[p]) - n : Q[p][i] = P[p][i + n]

Firsts(s, n) == {s[i] : i \in 1 .. n}

Among(s, m) == \E i \in 1 .. Len(s) : m = s[i]

(* Thread t returns the mbufs S to the pool. *)
Frees(F, G, t, S) == G[t] = F[t] \cup S /\ \A u \in Freers \ {t} : G[u] = F[u]

Arrangement(X, P) == \A x \in X : Len(P[x]) \in Nat /\ \A i \in 1 .. Len(P[x]) : P[x][i].no \in Int

(* Places of one rank have no flow in common. *)
Exclusive(X, rk, st) == \A x, y \in X : x # y /\ rk[x] = rk[y] => st[x] \cap st[y] = {}

LEMMA MovesOrder ==
    ASSUME NEW X, NEW P, NEW Q, NEW rk \in [X -> Int], NEW st, NEW p \in X, NEW q \in X,
           NEW n \in 0 .. Len(P[p]), Moves(X, P, Q, p, q, n), rk[q] = rk[p] - 1,
           Arrangement(X, P), Exclusive(X, rk, st),
           Sited(X, st, P), InOrder(X, rk, P), \A i \in 1 .. n : P[p][i].flow \in st[q]
    PROVE  Sited(X, st, Q) /\ InOrder(X, rk, Q)
<1>0. p # q /\ Len(P[p]) \in Nat /\ Len(P[q]) \in Nat /\ n \in Nat
    BY DEF Arrangement
<1> DEFINE Comes(x, i, u, a) ==
               /\ a \in 1 .. Len(P[u]) /\ Q[x][i] = P[u][a]
               /\ \/ x \notin {p, q} /\ u = x /\ a = i
                  \/ x = p /\ u = p /\ a = i + n
                  \/ x = q /\ u = q /\ a = i
                  \/ x = q /\ u = p /\ a = i - Len(P[q]) /\ a <= n
<1>1. ASSUME NEW x \in X, NEW i \in 1 .. Len(Q[x])
      PROVE  \E u \in X, a \in Int : Comes(x, i, u, a)
  <2>1. CASE x \notin {p, q}
    <3>1. Comes(x, i, x, i)
        BY <2>1 DEF Moves
    <3> QED BY <3>1
  <2>2. CASE x = p
    <3>0. i + n \in 1 .. Len(P[p]) /\ i \in 1 .. Len(P[p]) - n
        BY <1>0, <2>2 DEF Moves
    <3>1. Comes(x, i, p, i + n)
        BY <2>2, <3>0 DEF Moves
    <3> HIDE DEF Comes
    <3> QED BY <1>0, <3>1
  <2>3. CASE x = q
    <3>1. Len(Q[q]) = Len(P[q]) + n
        BY DEF Moves
    <3>2. CASE i <= Len(P[q])
      <4>1. Comes(x, i, q, i)
          BY <1>0, <2>3, <3>2 DEF Moves
      <4> QED BY <4>1
    <3>3. CASE i > Len(P[q])
      <4>0. i \in Int
          BY <1>0, <2>3, <3>1
      <4> DEFINE c == i - Len(P[q])
      <4>1. c \in Int /\ c = i - Len(P[q])
          BY <1>0, <4>0
      <4> HIDE DEF c
      <4>2. c \in 1 .. n /\ c \in 1 .. Len(P[p]) /\ i = Len(P[q]) + c /\ c <= n
          BY <1>0, <1>1, <2>3, <3>1, <3>3, <4>1
      <4>3. Q[q][i] = P[p][c]
          BY <4>2 DEF Moves
      <4>4. Comes(x, i, p, c)
          BY <2>3, <4>1, <4>2, <4>3
      <4> QED BY <4>1, <4>4
    <3> QED BY <1>0, <2>3, <3>1, <3>2, <3>3
  <2> QED BY <2>1, <2>2, <2>3
<1>2. Sited(X, st, Q)
  <2> SUFFICES ASSUME NEW x \in X, NEW i \in 1 .. Len(Q[x]) PROVE Q[x][i].flow \in st[x]
      BY DEF Sited
  <2>1. PICK u \in X, a \in Int : Comes(x, i, u, a)
      BY <1>1
  <2>2. CASE u = x
      BY <2>1, <2>2 DEF Sited
  <2>3. CASE u = p /\ x = q /\ a <= n
      BY <2>1, <2>3
  <2> QED BY <2>1, <2>2, <2>3
<1>3. InOrder(X, rk, Q)
  <2> SUFFICES ASSUME NEW x \in X, NEW y \in X,
                      NEW i \in 1 .. Len(Q[x]), NEW j \in 1 .. Len(Q[y]),
                      Q[x][i].flow = Q[y][j].flow,
                      rk[x] < rk[y] \/ (x = y /\ i < j)
               PROVE  Q[x][i].no < Q[y][j].no
      BY DEF InOrder
  <2>0. /\ i \in Int /\ j \in Int
        /\ \A v \in X : rk[v] \in Int
      BY DEF Arrangement
  <2>1. PICK u \in X, a \in Int : Comes(x, i, u, a)
      BY <1>1
  <2>2. PICK v \in X, b \in Int : Comes(y, j, v, b)
      BY <1>1
  <2>3. rk[u] < rk[v] \/ (u = v /\ a < b) \/ (u # v /\ rk[u] = rk[v])
    <3>1. a \in Int /\ b \in Int
        BY <2>1, <2>2 DEF Arrangement
    <3>2. CASE x = y /\ i < j
      <4>1. CASE x \notin {p, q}
          BY <3>2, <4>1, <2>1, <2>2
      <4>2. CASE x = p
          BY <1>0, <3>2, <4>2, <2>0, <2>1, <2>2
      <4>3. CASE x = q
        <5>1. (u = q /\ a = i /\ a \in 1 .. Len(P[q])) \/ (u = p /\ a = i - Len(P[q]) /\ a \in 1 .. Len(P[p]))
            BY <1>0, <2>1, <4>3
        <5>2. (v = q /\ b = j /\ b \in 1 .. Len(P[q])) \/ (v = p /\ b = j - Len(P[q]) /\ b \in 1 .. Len(P[p]))
            BY <1>0, <2>2, <3>2, <4>3
        <5> HIDE DEF Comes
        <5>3. CASE u = q /\ v = p
          <6>1. rk[u] < rk[v]
              BY <2>0, <5>3
          <6> QED BY <6>1
        <5>4. ~(u = p /\ v = q)
            BY <1>0, <2>0, <3>1, <3>2, <5>1, <5>2
        <5>5. CASE u = v
            BY <1>0, <2>0, <3>1, <3>2, <5>1, <5>2, <5>5
        <5> QED BY <5>1, <5>2, <5>3, <5>4, <5>5
      <4> QED BY <4>1, <4>2, <4>3
    <3>3. CASE rk[x] < rk[y]
      <4>1. CASE u = x /\ v = y
          BY <3>3, <4>1
      <4>2. CASE x = q /\ u = p
          BY <1>0, <2>0, <2>1, <2>2, <3>1, <3>3, <4>2
      <4>3. CASE u = x /\ y = q /\ v = p
          BY <1>0, <2>0, <2>1, <2>2, <3>1, <3>3, <4>3
      <4> QED BY <2>1, <2>2, <4>1, <4>2, <4>3
    <3> QED BY <3>2, <3>3
  <2>4. CASE u # v /\ rk[u] = rk[v]
    <3>1. P[u][a].flow \in st[u] /\ P[v][b].flow \in st[v] /\ P[u][a].flow = P[v][b].flow
        BY <2>1, <2>2 DEF Sited
    <3> QED BY <2>4, <3>1 DEF Exclusive
  <2> QED BY <2>1, <2>2, <2>3, <2>4 DEF InOrder
<1> QED BY <1>2, <1>3

LEMMA LeavesOrder ==
    ASSUME NEW X, NEW P, NEW Q, NEW rk \in [X -> Int], NEW st, NEW p \in X,
           NEW n \in 0 .. Len(P[p]), Leaves(X, P, Q, p, n), Arrangement(X, P),
           Sited(X, st, P), InOrder(X, rk, P)
    PROVE  Sited(X, st, Q) /\ InOrder(X, rk, Q)
<1>0. Len(P[p]) \in Nat /\ n \in Nat
    BY DEF Arrangement
<1> DEFINE from(x, i) == IF x = p THEN i + n ELSE i
<1>1. ASSUME NEW x \in X, NEW i \in 1 .. Len(Q[x])
      PROVE  i \in Int /\ from(x, i) \in 1 .. Len(P[x]) /\ Q[x][i] = P[x][from(x, i)]
  <2>1. CASE x = p
    <3>1. i \in 1 .. Len(P[p]) - n /\ i + n \in 1 .. Len(P[p])
        BY <1>0, <2>1 DEF Leaves
    <3> QED BY <2>1, <3>1 DEF Leaves
  <2>2. CASE x # p
      BY <2>2 DEF Leaves, Arrangement
  <2> QED BY <2>1, <2>2
<1>2. Sited(X, st, Q)
  <2> HIDE DEF from
  <2> QED BY <1>1 DEF Sited
<1>3. InOrder(X, rk, Q)
  <2> SUFFICES ASSUME NEW x \in X, NEW y \in X,
                      NEW i \in 1 .. Len(Q[x]), NEW j \in 1 .. Len(Q[y]),
                      Q[x][i].flow = Q[y][j].flow,
                      rk[x] < rk[y] \/ (x = y /\ i < j)
               PROVE  Q[x][i].no < Q[y][j].no
      BY DEF InOrder
  <2>1. i \in Int /\ j \in Int
      BY <1>1
  <2>2. x = y /\ i < j => from(x, i) < from(y, j)
      BY <1>0, <2>1
  <2> HIDE DEF from
  <2>3. /\ from(x, i) \in 1 .. Len(P[x]) /\ Q[x][i] = P[x][from(x, i)]
        /\ from(y, j) \in 1 .. Len(P[y]) /\ Q[y][j] = P[y][from(y, j)]
      BY <1>1
  <2> QED BY <2>2, <2>3 DEF InOrder
<1> QED BY <1>2, <1>3

(* An mbuf is in one place, once. *)
LEMMA Unique ==
    ASSUME NEW X, NEW P, NEW rk \in [X -> Int], NEW st,
           Arrangement(X, P), Exclusive(X, rk, st), Sited(X, st, P), InOrder(X, rk, P),
           NEW x \in X, NEW y \in X, NEW i \in 1 .. Len(P[x]), NEW j \in 1 .. Len(P[y]),
           P[x][i] = P[y][j]
    PROVE  x = y /\ i = j
<1>1. i \in Int /\ j \in Int /\ rk[x] \in Int /\ rk[y] \in Int /\ P[x][i].no \in Int
    BY DEF Arrangement
<1>2. ~(rk[x] < rk[y]) /\ ~(rk[y] < rk[x])
    BY <1>1 DEF InOrder
<1>3. x = y
  <2>1. P[x][i].flow \in st[x] /\ P[y][j].flow \in st[y]
      BY DEF Sited
  <2> QED BY <1>1, <1>2, <2>1 DEF Exclusive
<1>4. ~(i < j) /\ ~(j < i)
    BY <1>1, <1>3 DEF InOrder
<1> QED BY <1>1, <1>3, <1>4

LEMMA HeldAt ==
    ASSUME NEW X, NEW P, NEW m
    PROVE  m \in Held(X, P) <=> \E x \in X : \E i \in 1 .. Len(P[x]) : m = P[x][i]
BY DEF Held

LEMMA MovesHeld ==
    ASSUME NEW X, NEW P, NEW Q, NEW p \in X, NEW q \in X, p # q,
           NEW n \in 0 .. Len(P[p]), Moves(X, P, Q, p, q, n), Arrangement(X, P)
    PROVE  Held(X, Q) = Held(X, P)
<1>0. Len(P[p]) \in Nat /\ Len(P[q]) \in Nat /\ n \in Nat
    BY DEF Arrangement
<1>1. ASSUME NEW x \in X, NEW i \in 1 .. Len(Q[x]) PROVE Q[x][i] \in Held(X, P)
  <2>1. CASE x \notin {p, q}
      BY <2>1, HeldAt DEF Moves
  <2>2. CASE x = p
    <3>1. i + n \in 1 .. Len(P[p]) /\ Q[p][i] = P[p][i + n]
        BY <1>0, <2>2 DEF Moves
    <3> QED BY <2>2, <3>1, HeldAt
  <2>3. CASE x = q
    <3>1. Len(Q[q]) = Len(P[q]) + n /\ i \in Int
        BY <1>0, <2>3 DEF Moves
    <3>2. CASE i <= Len(P[q])
      <4>1. i \in 1 .. Len(P[q])
          BY <1>0, <2>3, <3>1, <3>2
      <4>2. Q[q][i] = P[q][i]
          BY <4>1 DEF Moves
      <4> QED BY <2>3, <4>1, <4>2, HeldAt
    <3>3. CASE i > Len(P[q])
      <4> DEFINE c == i - Len(P[q])
      <4>1. c \in 1 .. n /\ c \in 1 .. Len(P[p]) /\ i = Len(P[q]) + c
          BY <1>0, <2>3, <3>1, <3>3
      <4> HIDE DEF c
      <4>2. Q[q][i] = P[p][c]
          BY <4>1 DEF Moves
      <4> QED BY <2>3, <4>1, <4>2, HeldAt
    <3> QED BY <1>0, <3>1, <3>2, <3>3
  <2> QED BY <2>1, <2>2, <2>3
<1>2. ASSUME NEW x \in X, NEW i \in 1 .. Len(P[x]) PROVE P[x][i] \in Held(X, Q)
  <2>1. CASE x \notin {p, q}
      BY <2>1, HeldAt DEF Moves
  <2>2. CASE x = q
    <3>1. i \in 1 .. Len(Q[q]) /\ Q[q][i] = P[q][i]
        BY <1>0, <2>2 DEF Moves
    <3> QED BY <2>2, <3>1, HeldAt
  <2>3. CASE x = p
    <3>1. CASE i <= n
      <4> DEFINE c == Len(P[q]) + i
      <4>1. i \in 1 .. n /\ c \in 1 .. Len(Q[q])
          BY <1>0, <2>3, <3>1 DEF Moves
      <4>2. Q[q][c] = P[p][i]
          BY <4>1 DEF Moves
      <4> HIDE DEF c
      <4> QED BY <2>3, <4>1, <4>2, HeldAt
    <3>2. CASE i > n
      <4> DEFINE c == i - n
      <4>1. c \in 1 .. Len(P[p]) - n /\ c + n = i /\ Len(Q[p]) = Len(P[p]) - n
          BY <1>0, <2>3, <3>2 DEF Moves
      <4> HIDE DEF c
      <4>2. Q[p][c] = P[p][i] /\ c \in 1 .. Len(Q[p])
          BY <4>1 DEF Moves
      <4> QED BY <2>3, <4>2, HeldAt
    <3> QED BY <1>0, <2>3, <3>1, <3>2
  <2> QED BY <2>1, <2>2, <2>3
<1>3. \A m : m \in Held(X, Q) <=> m \in Held(X, P)
    BY <1>1, <1>2, HeldAt
<1> QED BY <1>3

LEMMA LeavesHeld ==
    ASSUME NEW X, NEW P, NEW Q, NEW rk \in [X -> Int], NEW st, NEW p \in X,
           NEW n \in 0 .. Len(P[p]), Leaves(X, P, Q, p, n), Arrangement(X, P),
           Exclusive(X, rk, st), Sited(X, st, P), InOrder(X, rk, P)
    PROVE  /\ Held(X, P) = Held(X, Q) \cup Firsts(P[p], n)
           /\ Held(X, Q) \cap Firsts(P[p], n) = {}
<1> DEFINE gone == {P[p][i] : i \in 1 .. n}
<1>a. Firsts(P[p], n) = gone
    BY DEF Firsts
<1>0. Len(P[p]) \in Nat /\ n \in Nat
    BY DEF Arrangement
<1>1. ASSUME NEW x \in X, NEW i \in 1 .. Len(Q[x])
      PROVE  \E j \in 1 .. Len(P[x]) : Q[x][i] = P[x][j] /\ (x = p => j > n)
  <2>1. CASE x = p
    <3>1. i + n \in 1 .. Len(P[p]) /\ Q[p][i] = P[p][i + n] /\ i + n > n
        BY <1>0, <2>1 DEF Leaves
    <3> QED BY <2>1, <3>1
  <2>2. CASE x # p
      BY <2>2 DEF Leaves
  <2> QED BY <2>1, <2>2
<1>2. ASSUME NEW x \in X, NEW i \in 1 .. Len(P[x])
      PROVE  P[x][i] \in Held(X, Q) \cup gone
  <2>1. CASE x # p
      BY <2>1, HeldAt DEF Leaves
  <2>2. CASE x = p /\ i <= n
    <3>1. i \in 1 .. n
        BY <1>0, <2>2
    <3> QED BY <2>2, <3>1
  <2>3. CASE x = p /\ i > n
    <3> DEFINE c == i - n
    <3>1. c \in 1 .. Len(P[p]) - n /\ c + n = i /\ Len(Q[p]) = Len(P[p]) - n
        BY <1>0, <2>3 DEF Leaves
    <3> HIDE DEF c
    <3>2. Q[p][c] = P[p][i] /\ c \in 1 .. Len(Q[p])
        BY <3>1 DEF Leaves
    <3> QED BY <2>3, <3>2, HeldAt
  <2> QED BY <1>0, <2>1, <2>2, <2>3
<1>3. Held(X, Q) \subseteq Held(X, P)
  <2>1. ASSUME NEW x \in X, NEW i \in 1 .. Len(Q[x]) PROVE Q[x][i] \in Held(X, P)
    <3>1. PICK j \in 1 .. Len(P[x]) : Q[x][i] = P[x][j]
        BY <1>1, Zenon
    <3> QED BY <3>1 DEF Held
  <2>2. ASSUME NEW m \in Held(X, Q) PROVE m \in Held(X, P)
    <3>1. PICK x \in X : \E i \in 1 .. Len(Q[x]) : m = Q[x][i]
        BY <2>2 DEF Held
    <3> QED BY <2>1, <3>1, Zenon
  <2> QED BY <2>2
<1>4. gone \subseteq Held(X, P)
  <2>1. \A i \in 1 .. n : i \in 1 .. Len(P[p])
      BY <1>0
  <2> QED BY <2>1, HeldAt
<1>5. Held(X, P) \subseteq Held(X, Q) \cup gone
  <2>1. ASSUME NEW m \in Held(X, P) PROVE m \in Held(X, Q) \cup gone
    <3>1. PICK x \in X : \E i \in 1 .. Len(P[x]) : m = P[x][i]
        BY <2>1 DEF Held
    <3> QED BY <1>2, <3>1, Zenon
  <2> QED BY <2>1, Zenon
<1>6. ASSUME NEW m \in Held(X, Q), m \in gone PROVE FALSE
  <2>1. PICK x \in X, i \in Int : i \in 1 .. Len(Q[x]) /\ m = Q[x][i]
    <3>1. \A x \in X : Len(Q[x]) \in Int
      <4>1. \A x \in X : Len(Q[x]) = IF x = p THEN Len(P[p]) - n ELSE Len(P[x])
          BY DEF Leaves
      <4> QED BY <1>0, <4>1 DEF Arrangement
    <3> QED BY <3>1, HeldAt
  <2>2. PICK j \in 1 .. Len(P[x]) : m = P[x][j] /\ (x = p => j > n)
      BY <1>1, <2>1
  <2>3. PICK k \in 1 .. n : m = P[p][k]
      BY <1>6
  <2>4. k \in 1 .. Len(P[p]) /\ k <= n
      BY <1>0
  <2>5. x = p /\ j = k
    <3>1. P[x][j] = P[p][k]
        BY <2>2, <2>3
    <3> QED BY <2>4, <3>1, Unique
  <2> QED BY <1>0, <2>2, <2>4, <2>5
<1> QED BY <1>a, <1>3, <1>4, <1>5, <1>6

-----------------------------------------------------------------------------
(* The places of the gateway. *)
Single == {"rx", "tx_ring", "tx", "nic"}
PerWorker == {"dest", "ring", "bufs", "fwd"}

LEMMA PlaceCases ==
    ASSUME NEW x \in PlaceNames
    PROVE  \/ \E k \in Single : x = <<k, 0>>
           \/ \E k \in PerWorker, w \in Worker : x = <<k, w>>
BY DEF PlaceNames, Single, PerWorker

LEMMA RankOf ==
    /\ \A w : /\ Rank(<<"nic", w>>) = 1 /\ Rank(<<"tx", w>>) = 2 /\ Rank(<<"tx_ring", w>>) = 3
              /\ Rank(<<"fwd", w>>) = 4 /\ Rank(<<"bufs", w>>) = 5 /\ Rank(<<"ring", w>>) = 6
              /\ Rank(<<"dest", w>>) = 7 /\ Rank(<<"rx", w>>) = 8
BY DEF Rank

LEMMA RankSite ==
    /\ rank \in [PlaceNames -> Int]
    /\ Exclusive(PlaceNames, rank, site)
<1>1. ASSUME NEW x \in PlaceNames PROVE rank[x] = Rank(x) /\ Rank(x) \in Int
  <2>1. rank[x] = Rank(x)
      BY DEF rank
  <2>2. Rank(x) \in Int
      BY PlaceCases, RankOf DEF Single, PerWorker
  <2> QED BY <2>1, <2>2
<1>2. ASSUME NEW x \in PlaceNames, NEW y \in PlaceNames, x # y, rank[x] = rank[y]
      PROVE  site[x] \cap site[y] = {}
  <2>1. Rank(x) = Rank(y)
      BY <1>1, <1>2
  <2>2. PICK k \in PerWorker, v \in Worker, w \in Worker : x = <<k, v>> /\ y = <<k, w>>
    <3>1. CASE \E k \in Single : x = <<k, 0>>
      <4>1. CASE \E l \in Single : y = <<l, 0>>
          BY <1>2, <2>1, <3>1, <4>1, RankOf DEF Single
      <4>2. CASE \E l \in PerWorker, w \in Worker : y = <<l, w>>
          BY <2>1, <3>1, <4>2, RankOf DEF Single, PerWorker
      <4> QED BY <4>1, <4>2, PlaceCases
    <3>2. CASE \E k \in PerWorker, v \in Worker : x = <<k, v>>
      <4>1. CASE \E l \in Single : y = <<l, 0>>
          BY <2>1, <3>2, <4>1, RankOf DEF Single, PerWorker
      <4>2. CASE \E l \in PerWorker, w \in Worker : y = <<l, w>>
          BY <2>1, <3>2, <4>2, RankOf DEF PerWorker
      <4> QED BY <4>1, <4>2, PlaceCases
    <3> QED BY <3>1, <3>2, PlaceCases
  <2>3. v # w
      BY <1>2, <2>2
  <2>4. /\ site[x] = {f \in Flow : x[1] \in PerWorker => WorkerOf[f] = x[2]}
        /\ site[y] = {f \in Flow : y[1] \in PerWorker => WorkerOf[f] = y[2]}
      BY DEF site, PerWorker
  <2>5. x[1] \in PerWorker /\ x[2] = v /\ y[1] \in PerWorker /\ y[2] = w
      BY <2>2
  <2> QED BY <2>3, <2>4, <2>5
<1> QED BY <1>1, <1>2 DEF Exclusive, rank

LEMMA Arranged ==
    ASSUME NEW P \in [PlaceNames -> Seq(Mbuf)]
    PROVE  Arrangement(PlaceNames, P)
<1> SUFFICES ASSUME NEW x \in PlaceNames
             PROVE  Len(P[x]) \in Nat /\ \A i \in 1 .. Len(P[x]) : P[x][i].no \in Int
    BY DEF Arrangement
<1>1. P[x] \in Seq(Mbuf)
    OBVIOUS
<1>2. ASSUME NEW m \in Mbuf PROVE m.no \in Int
    BY PipelineAssumption DEF Mbuf
<1> QED BY <1>1, <1>2

LEMMA WaysMove ==
    ASSUME NEW P \in [PlaceNames -> Seq(Mbuf)], NEW Q, NEW F, NEW A, Ways(P, F, A),
           NEW p \in PlaceNames, NEW q \in PlaceNames, rank[q] = rank[p] - 1,
           NEW n \in 0 .. Len(P[p]), Moves(PlaceNames, P, Q, p, q, n),
           \A i \in 1 .. n : P[p][i].flow \in site[q]
    PROVE  Ways(Q, F, A)
<1>1. Sited(PlaceNames, site, Q) /\ InOrder(PlaceNames, rank, Q)
    BY MovesOrder, RankSite, Arranged DEF Ways
<1>2. p # q
  <2>1. rank[p] \in Int
      BY RankSite
  <2> QED BY <2>1
<1>3. Held(PlaceNames, Q) = Held(PlaceNames, P)
    BY <1>2, MovesHeld, Arranged
<1> QED BY <1>1, <1>3 DEF Ways

LEMMA WaysLeave ==
    ASSUME NEW P \in [PlaceNames -> Seq(Mbuf)], NEW Q, NEW F \in [Freers -> SUBSET Mbuf],
           NEW A, Ways(P, F, A), NEW p \in PlaceNames, NEW n \in 0 .. Len(P[p]),
           Leaves(PlaceNames, P, Q, p, n), NEW t \in Freers, NEW G,
           Frees(F, G, t, Firsts(P[p], n))
    PROVE  Ways(Q, G, A)
<1> DEFINE gone == Firsts(P[p], n)
           H == Held(PlaceNames, P)
           K == Held(PlaceNames, Q)
<1>1. Sited(PlaceNames, site, Q) /\ InOrder(PlaceNames, rank, Q)
    BY LeavesOrder, RankSite, Arranged DEF Ways
<1>2. H = K \cup gone /\ K \cap gone = {}
  <2>1. /\ Sited(PlaceNames, site, P) /\ InOrder(PlaceNames, rank, P)
        /\ Arrangement(PlaceNames, P) /\ Exclusive(PlaceNames, rank, site)
        /\ rank \in [PlaceNames -> Int]
      BY RankSite, Arranged DEF Ways
  <2> QED BY <2>1, LeavesHeld
<1>3. Apart(H, F) /\ Exactly(H, F, A)
    BY DEF Ways
<1>4. /\ \A u \in Freers \ {t} : G[u] = F[u]
      /\ G[t] = F[t] \cup gone
    BY DEF Frees
<1> HIDE DEF gone, H, K
<1>5. Apart(K, G)
  <2>1. \A u \in Freers : K \cap G[u] = {}
      BY <1>2, <1>3, <1>4 DEF Apart
  <2>2. ASSUME NEW u \in Freers, NEW v \in Freers, u # v PROVE G[u] \cap G[v] = {}
    <3>1. CASE u = t
        BY <1>2, <1>3, <1>4, <2>2, <3>1 DEF Apart
    <3>2. CASE v = t
        BY <1>2, <1>3, <1>4, <2>2, <3>2 DEF Apart
    <3>3. CASE u # t /\ v # t
        BY <1>3, <1>4, <2>2, <3>3 DEF Apart
    <3> QED BY <3>1, <3>2, <3>3
  <2> QED BY <2>1, <2>2 DEF Apart
<1>6. Exactly(K, G, A)
  <2>1. K \cup UNION {G[u] : u \in Freers} = H \cup UNION {F[u] : u \in Freers}
    <3>1. ASSUME NEW m
          PROVE  /\ m \in UNION {G[u] : u \in Freers} <=> \E u \in Freers : m \in G[u]
                 /\ m \in UNION {F[u] : u \in Freers} <=> \E u \in Freers : m \in F[u]
        OBVIOUS
    <3>2. ASSUME NEW m
          PROVE  m \in K \/ (\E u \in Freers : m \in G[u])
                    <=> m \in H \/ (\E u \in Freers : m \in F[u])
        BY <1>2, <1>4
    <3> QED BY <3>1, <3>2
  <2> QED BY <1>3, <2>1 DEF Exactly
<1> QED BY <1>1, <1>5, <1>6 DEF Ways, K

LEMMA SiteOf ==
    /\ \A k \in Single : <<k, 0>> \in PlaceNames /\ site[<<k, 0>>] = Flow
    /\ \A k \in PerWorker, w \in Worker :
           <<k, w>> \in PlaceNames /\ site[<<k, w>>] = {f \in Flow : WorkerOf[f] = w}
<1>1. ASSUME NEW k \in Single PROVE <<k, 0>> \in PlaceNames /\ site[<<k, 0>>] = Flow
  <2>1. <<k, 0>> \in PlaceNames
      BY DEF PlaceNames, Single
  <2>2. site[<<k, 0>>] = {f \in Flow : k \in PerWorker => WorkerOf[f] = 0}
      BY <2>1 DEF site, PerWorker
  <2>3. k \notin PerWorker
      BY DEF Single, PerWorker
  <2> QED BY <2>1, <2>2, <2>3
<1>2. ASSUME NEW k \in PerWorker, NEW w \in Worker
      PROVE  <<k, w>> \in PlaceNames /\ site[<<k, w>>] = {f \in Flow : WorkerOf[f] = w}
  <2>1. <<k, w>> \in PlaceNames
      BY DEF PlaceNames, PerWorker
  <2>2. site[<<k, w>>] = {f \in Flow : k \in PerWorker => WorkerOf[f] = w}
      BY <2>1 DEF site, PerWorker
  <2> QED BY <2>1, <2>2
<1> QED BY <1>1, <1>2

LEMMA RankPlace ==
    /\ rank[<<"nic", 0>>] = 1 /\ rank[<<"tx", 0>>] = 2 /\ rank[<<"tx_ring", 0>>] = 3
    /\ rank[<<"rx", 0>>] = 8
    /\ \A w \in Worker : /\ rank[<<"fwd", w>>] = 4 /\ rank[<<"bufs", w>>] = 5
                         /\ rank[<<"ring", w>>] = 6 /\ rank[<<"dest", w>>] = 7
    /\ \A x \in PlaceNames : rank[x] <= 8
<1>1. \A x \in PlaceNames : rank[x] = Rank(x)
    BY DEF rank
<1>2. \A k \in Single : <<k, 0>> \in PlaceNames
    BY SiteOf
<1>3. \A k \in PerWorker, w \in Worker : <<k, w>> \in PlaceNames
    BY SiteOf
<1>4. ASSUME NEW x \in PlaceNames PROVE rank[x] <= 8
  <2>1. Rank(x) <= 8
      BY PlaceCases, RankOf DEF Single, PerWorker
  <2> QED BY <1>1, <2>1
<1>5. \A k \in Single : rank[<<k, 0>>] = Rank(<<k, 0>>)
    BY <1>1, <1>2
<1>6. \A k \in PerWorker, w \in Worker : rank[<<k, w>>] = Rank(<<k, w>>)
    BY <1>1, <1>3
<1>7. /\ rank[<<"nic", 0>>] = 1 /\ rank[<<"tx", 0>>] = 2 /\ rank[<<"tx_ring", 0>>] = 3
      /\ rank[<<"rx", 0>>] = 8
    BY <1>5, RankOf DEF Single
<1>8. \A w \in Worker : /\ rank[<<"fwd", w>>] = 4 /\ rank[<<"bufs", w>>] = 5
                        /\ rank[<<"ring", w>>] = 6 /\ rank[<<"dest", w>>] = 7
    BY <1>6, RankOf DEF PerWorker
<1> QED BY <1>4, <1>7, <1>8

LEMMA RankDown ==
    /\ rank[<<"nic", 0>>] = rank[<<"tx", 0>>] - 1
    /\ rank[<<"tx", 0>>] = rank[<<"tx_ring", 0>>] - 1
    /\ \A w \in Worker : /\ rank[<<"tx_ring", 0>>] = rank[<<"fwd", w>>] - 1
                         /\ rank[<<"fwd", w>>] = rank[<<"bufs", w>>] - 1
                         /\ rank[<<"bufs", w>>] = rank[<<"ring", w>>] - 1
                         /\ rank[<<"ring", w>>] = rank[<<"dest", w>>] - 1
                         /\ rank[<<"dest", w>>] = rank[<<"rx", 0>>] - 1
<1>1. 1 = 2 - 1 /\ 2 = 3 - 1 /\ 3 = 4 - 1 /\ 4 = 5 - 1 /\ 5 = 6 - 1 /\ 6 = 7 - 1 /\ 7 = 8 - 1
    OBVIOUS
<1> QED BY <1>1, RankPlace, Zenon

LEMMA MbufFields == \A m \in Mbuf : m.flow \in Flow /\ m.no \in 1 .. MaxRx
BY DEF Mbuf

(* n mbufs go on from place p to place q. *)
LEMMA WaysTake ==
    ASSUME NEW P \in [PlaceNames -> Seq(Mbuf)], NEW Q, NEW F, NEW A, Ways(P, F, A),
           NEW p \in PlaceNames, NEW q \in PlaceNames, rank[q] = rank[p] - 1,
           NEW n \in 0 .. Len(P[p]),
           \A x \in PlaceNames \ {p, q} : Q[x] = P[x],
           Q[p] = Rest(P[p], n), Q[q] = P[q] \o Take(P[p], n),
           \A i \in 1 .. n : P[p][i].flow \in site[q]
    PROVE  Ways(Q, F, A)
<1>1. P[p] \in Seq(Mbuf) /\ P[q] \in Seq(Mbuf)
    OBVIOUS
<1>2. /\ Take(P[p], n) \in Seq(Mbuf) /\ Len(Take(P[p], n)) = n
      /\ \A i \in 1 .. n : Take(P[p], n)[i] = P[p][i]
      /\ Rest(P[p], n) \in Seq(Mbuf) /\ Len(Rest(P[p], n)) = Len(P[p]) - n
      /\ \A i \in 1 .. Len(P[p]) - n : Rest(P[p], n)[i] = P[p][i + n]
    BY <1>1, TakeRest
<1>3. /\ Len(Q[q]) = Len(P[q]) + n
      /\ \A i \in 1 .. Len(P[q]) : Q[q][i] = P[q][i]
      /\ \A i \in 1 .. n : Q[q][Len(P[q]) + i] = P[p][i]
  <2>1. Joins(Q[q], P[q], Take(P[p], n))
      BY <1>1, <1>2, Joined
  <2> QED BY <1>2, <2>1 DEF Joins
<1>4. Moves(PlaceNames, P, Q, p, q, n)
    BY <1>2, <1>3 DEF Moves
<1> QED BY <1>4, WaysMove

(* The first mbuf of p goes on to q. *)
LEMMA WaysNext ==
    ASSUME NEW P \in [PlaceNames -> Seq(Mbuf)], NEW Q, NEW F, NEW A, Ways(P, F, A),
           NEW p \in PlaceNames, NEW q \in PlaceNames, rank[q] = rank[p] - 1,
           P[p] # << >>,
           \A x \in PlaceNames \ {p, q} : Q[x] = P[x],
           Q[p] = Tail(P[p]), Q[q] = Append(P[q], Head(P[p])),
           Head(P[p]).flow \in site[q]
    PROVE  Ways(Q, F, A)
<1>1. P[p] \in Seq(Mbuf) /\ P[q] \in Seq(Mbuf)
    OBVIOUS
<1>2. /\ 1 \in 0 .. Len(P[p]) /\ Head(P[p]) = P[p][1]
      /\ Len(Q[p]) = Len(P[p]) - 1 /\ \A i \in 1 .. Len(P[p]) - 1 : Q[p][i] = P[p][i + 1]
    BY <1>1
<1>3. /\ Len(Q[q]) = Len(P[q]) + 1
      /\ \A i \in 1 .. Len(P[q]) : Q[q][i] = P[q][i]
      /\ \A i \in 1 .. 1 : Q[q][Len(P[q]) + i] = P[p][i]
    BY <1>1, <1>2
<1>4. Moves(PlaceNames, P, Q, p, q, 1)
    BY <1>2, <1>3 DEF Moves
<1>5. \A i \in 1 .. 1 : P[p][i].flow \in site[q]
    BY <1>2
<1> QED BY <1>2, <1>4, <1>5, WaysMove

LEMMA SeqSet ==
    ASSUME NEW s PROVE ToSet(s) = Firsts(s, Len(s))
BY DEF ToSet, Firsts

(* All mbufs of place p are freed by thread t. *)
LEMMA WaysFree ==
    ASSUME NEW P \in [PlaceNames -> Seq(Mbuf)], NEW Q, NEW F \in [Freers -> SUBSET Mbuf],
           NEW A, Ways(P, F, A), NEW p \in PlaceNames,
           \A x \in PlaceNames \ {p} : Q[x] = P[x], Q[p] = << >>,
           NEW t \in Freers, NEW G, Frees(F, G, t, ToSet(P[p]))
    PROVE  Ways(Q, G, A)
<1>1. P[p] \in Seq(Mbuf) /\ Len(P[p]) \in 0 .. Len(P[p])
    OBVIOUS
<1>2. Leaves(PlaceNames, P, Q, p, Len(P[p]))
    BY <1>1 DEF Leaves
<1>3. Frees(F, G, t, Firsts(P[p], Len(P[p])))
    BY SeqSet
<1> QED BY <1>1, <1>2, <1>3, WaysLeave

(* The first mbuf of place p is freed by thread t. *)
LEMMA WaysFreeOne ==
    ASSUME NEW P \in [PlaceNames -> Seq(Mbuf)], NEW Q, NEW F \in [Freers -> SUBSET Mbuf],
           NEW A, Ways(P, F, A), NEW p \in PlaceNames, P[p] # << >>,
           \A x \in PlaceNames \ {p} : Q[x] = P[x], Q[p] = Tail(P[p]),
           NEW t \in Freers, NEW G, Frees(F, G, t, {Head(P[p])})
    PROVE  Ways(Q, G, A)
<1>1. /\ P[p] \in Seq(Mbuf) /\ 1 \in 0 .. Len(P[p]) /\ Head(P[p]) = P[p][1]
      /\ Len(Q[p]) = Len(P[p]) - 1 /\ \A i \in 1 .. Len(P[p]) - 1 : Q[p][i] = P[p][i + 1]
    OBVIOUS
<1>2. Leaves(PlaceNames, P, Q, p, 1)
    BY <1>1 DEF Leaves
<1>3. Firsts(P[p], 1) = {Head(P[p])}
    BY <1>1 DEF Firsts
<1>4. Frees(F, G, t, Firsts(P[p], 1))
    BY <1>3
<1> QED BY <1>1, <1>2, <1>4, WaysLeave

(* n mbufs go on from p to q, and thread t frees the others of p. *)
LEMMA WaysSplit ==
    ASSUME NEW P \in [PlaceNames -> Seq(Mbuf)], NEW Q, NEW F \in [Freers -> SUBSET Mbuf],
           NEW A, Ways(P, F, A), NEW p \in PlaceNames, NEW q \in PlaceNames,
           rank[q] = rank[p] - 1, NEW n \in 0 .. Len(P[p]),
           \A x \in PlaceNames \ {p, q} : Q[x] = P[x],
           Q[p] = << >>, Q[q] = P[q] \o Take(P[p], n),
           \A i \in 1 .. n : P[p][i].flow \in site[q],
           NEW t \in Freers, NEW G, Frees(F, G, t, ToSet(Rest(P[p], n)))
    PROVE  Ways(Q, G, A)
<1> DEFINE R == [P EXCEPT ![p] = Rest(P[p], n), ![q] = P[q] \o Take(P[p], n)]
<1>0. p # q
  <2>1. rank[p] \in Int
      BY RankSite
  <2> QED BY <2>1
<1>1. P[p] \in Seq(Mbuf) /\ P[q] \in Seq(Mbuf)
    OBVIOUS
<1>2. Take(P[p], n) \in Seq(Mbuf) /\ Rest(P[p], n) \in Seq(Mbuf)
    BY <1>1, TakeRest
<1>3. P[q] \o Take(P[p], n) \in Seq(Mbuf)
    BY <1>1, <1>2, Joined
<1>4. /\ R \in [PlaceNames -> Seq(Mbuf)]
      /\ R[p] = Rest(P[p], n) /\ R[q] = P[q] \o Take(P[p], n)
      /\ \A x \in PlaceNames \ {p, q} : R[x] = P[x]
    BY <1>0, <1>2, <1>3
<1> HIDE DEF R
<1>5. Ways(R, F, A)
    BY <1>4, WaysTake
<1>6. \A x \in PlaceNames \ {p} : Q[x] = R[x]
    BY <1>4
<1>7. Frees(F, G, t, ToSet(R[p]))
    BY <1>4
<1> QED BY <1>4, <1>5, <1>6, <1>7, WaysFree

(* New mbufs B come to the first place. *)
LEMMA WaysArrive ==
    ASSUME NEW P \in [PlaceNames -> Seq(Mbuf)], NEW Q, NEW F, NEW A \in Seq(Mbuf),
           NEW B \in Seq(Mbuf), Ways(P, F, A), NEW p \in PlaceNames, p = <<"rx", 0>>,
           \A x \in PlaceNames \ {p} : Q[x] = P[x], P[p] = << >>, Q[p] = B,
           \A i \in 1 .. Len(B) : B[i].no = Len(A) + i
    PROVE  Ways(Q, F, A \o B)
<1> DEFINE H == Held(PlaceNames, P)
           K == Held(PlaceNames, Q)
           C == A \o B
<1>0. Len(A) \in Nat /\ Len(B) \in Nat /\ Len(P[p]) = 0 /\ Joins(C, A, B)
    BY Joined
<1>1. Sited(PlaceNames, site, P) /\ InOrder(PlaceNames, rank, P) /\ Apart(H, F) /\ Exactly(H, F, A)
    BY DEF Ways
<1>2. rank[p] = 8 /\ site[p] = Flow /\ \A x \in PlaceNames : rank[x] \in Int /\ rank[x] <= 8
    BY RankPlace, SiteOf, RankSite DEF Single
<1>3. \A i \in 1 .. Len(B) : B[i] \in Mbuf /\ B[i].flow \in Flow /\ B[i].no \in Int
  <2>1. \A i \in 1 .. Len(B) : B[i] \in Mbuf
      OBVIOUS
  <2> QED BY <1>0, <2>1, MbufFields
<1>4. ASSUME NEW m, m \in H \/ \E t \in Freers : m \in F[t]
      PROVE  m.no \in Int /\ m.no <= Len(A)
  <2>1. m \in {A[i] : i \in 1 .. Len(A)}
      BY <1>1, <1>4 DEF Exactly
  <2>2. PICK i \in 1 .. Len(A) : m = A[i]
      BY <2>1
  <2> QED BY <1>0, <1>1, <2>2 DEF Exactly
<1>5. Sited(PlaceNames, site, Q)
    BY <1>1, <1>2, <1>3 DEF Sited
<1>6. InOrder(PlaceNames, rank, Q)
  <2> SUFFICES ASSUME NEW x \in PlaceNames, NEW y \in PlaceNames,
                      NEW i \in 1 .. Len(Q[x]), NEW j \in 1 .. Len(Q[y]),
                      Q[x][i].flow = Q[y][j].flow,
                      rank[x] < rank[y] \/ (x = y /\ i < j)
               PROVE  Q[x][i].no < Q[y][j].no
      BY DEF InOrder
  <2>1. CASE x # p /\ y # p
    <3>1. Q[x] = P[x] /\ Q[y] = P[y]
        BY <1>1, <2>1
    <3>2. /\ i \in 1 .. Len(P[x]) /\ j \in 1 .. Len(P[y]) /\ P[x][i].flow = P[y][j].flow
        BY <3>1
    <3>3. P[x][i].no < P[y][j].no
        BY <1>1, <3>2, Zenon DEF InOrder
    <3> QED BY <3>1, <3>3
  <2>2. CASE x = p /\ y # p
      BY <1>2, <2>2
  <2>3. CASE x # p /\ y = p
    <3>1. Q[x][i] \in H
        BY <2>3, HeldAt
    <3>2. Q[x][i].no \in Int /\ Q[x][i].no <= Len(A)
        BY <1>4, <3>1
    <3>3. Q[y][j].no = Len(A) + j /\ j \in Int /\ j > 0
        BY <1>0, <2>3
    <3> QED BY <1>0, <3>2, <3>3
  <2>4. CASE x = p /\ y = p
    <3>1. i \in Int /\ j \in Int /\ i < j
        BY <1>0, <1>2, <2>4
    <3>2. Q[x][i].no = Len(A) + i /\ Q[y][j].no = Len(A) + j
        BY <2>4
    <3> QED BY <1>0, <3>1, <3>2
  <2> QED BY <2>1, <2>2, <2>3, <2>4
<1>7. \A m : m \in K <=> m \in H \/ \E i \in 1 .. Len(B) : m = B[i]
  <2>0. \A x \in PlaceNames : Len(Q[x]) \in Int /\ Len(P[x]) \in Int
    <3>1. \A x \in PlaceNames : Len(P[x]) \in Int
        OBVIOUS
    <3> QED BY <1>0, <3>1
  <2>1. ASSUME NEW m \in K PROVE m \in H \/ \E i \in 1 .. Len(B) : m = B[i]
    <3>1. PICK x \in PlaceNames, i \in Int : i \in 1 .. Len(Q[x]) /\ m = Q[x][i]
        BY <2>0, HeldAt
    <3>2. CASE x = p
        BY <3>1, <3>2
    <3>3. CASE x # p
        BY <3>1, <3>3, HeldAt
    <3> QED BY <3>2, <3>3
  <2>2. ASSUME NEW m \in H PROVE m \in K
    <3>1. PICK x \in PlaceNames, i \in Int : i \in 1 .. Len(P[x]) /\ m = P[x][i]
        BY <2>0, HeldAt
    <3>2. x # p
      <4>1. Len(P[x]) # 0
          BY <3>1
      <4> QED BY <1>0, <4>1
    <3> QED BY <3>1, <3>2, HeldAt
  <2>3. \A i \in 1 .. Len(B) : B[i] \in K
      BY HeldAt
  <2> QED BY <2>1, <2>2, <2>3
<1>8. Apart(K, F)
  <2>1. ASSUME NEW t \in Freers, NEW m, m \in K, m \in F[t] PROVE FALSE
    <3>1. CASE m \in H
        BY <1>1, <2>1, <3>1 DEF Apart
    <3>2. CASE \E i \in 1 .. Len(B) : m = B[i]
      <4>1. PICK i \in 1 .. Len(B) : m = B[i]
          BY <3>2
      <4>2. m.no = Len(A) + i /\ i > 0 /\ i \in Int
          BY <1>0, <4>1
      <4>3. m.no <= Len(A)
          BY <1>4, <2>1
      <4> QED BY <1>0, <4>2, <4>3
    <3> QED BY <1>7, <2>1, <3>1, <3>2
  <2> QED BY <1>1, <2>1 DEF Apart
<1>9. Exactly(K, F, C)
  <2>1. ASSUME NEW m PROVE Among(C, m) <=> Among(A, m) \/ Among(B, m)
    <3>1. ASSUME NEW k \in 1 .. Len(C), m = C[k]
          PROVE  \/ \E i \in 1 .. Len(A) : m = A[i]
                 \/ \E i \in 1 .. Len(B) : m = B[i]
      <4>0. k \in 1 .. Len(A) + Len(B) /\ k \in Int
          BY <1>0 DEF Joins
      <4>1. CASE k <= Len(A)
        <5>1. k \in 1 .. Len(A)
            BY <1>0, <4>0, <4>1
        <5> HIDE DEF C
        <5> QED BY <1>0, <3>1, <5>1 DEF Joins
      <4>2. CASE k > Len(A)
        <5> DEFINE c == k - Len(A)
        <5>1. c \in 1 .. Len(B) /\ k = Len(A) + c
            BY <1>0, <4>0, <4>2
        <5> HIDE DEF c, C
        <5> QED BY <1>0, <3>1, <5>1 DEF Joins
      <4> QED BY <1>0, <4>0, <4>1, <4>2
    <3>2. ASSUME NEW i \in 1 .. Len(A), m = A[i] PROVE \E k \in 1 .. Len(C) : m = C[k]
      <4>1. i \in 1 .. Len(C)
          BY <1>0 DEF Joins
      <4> HIDE DEF C
      <4> QED BY <1>0, <3>2, <4>1 DEF Joins
    <3>3. ASSUME NEW i \in 1 .. Len(B), m = B[i] PROVE \E k \in 1 .. Len(C) : m = C[k]
      <4> DEFINE c == Len(A) + i
      <4>1. c \in 1 .. Len(C) /\ c = Len(A) + i
          BY <1>0 DEF Joins
      <4> HIDE DEF C
      <4>2. C[c] = B[i]
          BY <1>0, <3>3 DEF Joins
      <4> HIDE DEF c
      <4> QED BY <3>3, <4>1, <4>2
    <3> QED BY <3>1, <3>2, <3>3 DEF Among
  <2>2. ASSUME NEW k \in 1 .. Len(C) PROVE C[k].no = k
    <3>0. k \in 1 .. Len(A) + Len(B) /\ k \in Int
        BY <1>0 DEF Joins
    <3> HIDE DEF C
    <3>1. CASE k <= Len(A)
      <4>1. k \in 1 .. Len(A)
          BY <1>0, <3>0, <3>1
      <4> QED BY <1>0, <1>1, <4>1 DEF Joins, Exactly
    <3>2. CASE k > Len(A)
      <4> DEFINE c == k - Len(A)
      <4>1. c \in 1 .. Len(B) /\ k = Len(A) + c
          BY <1>0, <3>0, <3>2
      <4> HIDE DEF c
      <4>2. C[k] = B[c]
          BY <1>0, <4>1 DEF Joins
      <4> QED BY <4>1, <4>2
    <3> QED BY <1>0, <3>0, <3>1, <3>2
  <2> HIDE DEF C
  <2>3. ASSUME NEW m
        PROVE  m \in K \cup UNION {F[t] : t \in Freers} <=> m \in {C[k] : k \in 1 .. Len(C)}
    <3>1. m \in H \cup UNION {F[t] : t \in Freers} <=> \E i \in 1 .. Len(A) : m = A[i]
        BY <1>1 DEF Exactly
    <3> DEFINE U == UNION {F[t] : t \in Freers}
    <3>2. m \in H \cup U <=> \E i \in 1 .. Len(A) : m = A[i]
        BY <3>1
    <3>3. m \in {C[k] : k \in 1 .. Len(C)} <=> \E k \in 1 .. Len(C) : m = C[k]
        OBVIOUS
    <3>4. m \in K \cup U <=> m \in H \cup U \/ \E i \in 1 .. Len(B) : m = B[i]
      <4> HIDE DEF H, K, U
      <4> QED BY <1>7
    <3> HIDE DEF H, K, U
    <3>5. m \in K \cup U <=> m \in {C[k] : k \in 1 .. Len(C)}
      <4>1. Among(C, m) <=> Among(A, m) \/ Among(B, m)
          BY <2>1, Zenon
      <4>2. m \in H \cup U <=> Among(A, m)
          BY <3>2 DEF Among
      <4>3. m \in {C[k] : k \in 1 .. Len(C)} <=> Among(C, m)
          BY <3>3 DEF Among
      <4>4. m \in K \cup U <=> m \in H \cup U \/ Among(B, m)
          BY <3>4 DEF Among
      <4> QED BY <4>1, <4>2, <4>3, <4>4, Zenon
    <3> QED BY <3>5 DEF U
  <2> QED BY <2>2, <2>3 DEF Exactly
<1> QED BY <1>5, <1>6, <1>8, <1>9 DEF Ways

-----------------------------------------------------------------------------
(* The places of a state, and of the next. *)
PlacesNow ==
    /\ places[<<"rx", 0>>] = rx.bufs /\ places[<<"tx_ring", 0>>] = tx_ring
    /\ places[<<"tx", 0>>] = tx.bufs /\ places[<<"nic", 0>>] = nic
    /\ \A w \in Worker :
           /\ places[<<"dest", w>>] = rx.dest[w] /\ places[<<"ring", w>>] = ring[w]
           /\ places[<<"bufs", w>>] = wk[w].bufs /\ places[<<"fwd", w>>] = wk[w].fwd

LEMMA PlacesAt == PlacesNow
<1>1. \A x \in PlaceNames : places[x] = At(x)
    BY DEF places
<1>2. \A k \in Single : <<k, 0>> \in PlaceNames
    BY SiteOf
<1>3. \A k \in PerWorker, w \in Worker : <<k, w>> \in PlaceNames
    BY SiteOf
<1>4. /\ At(<<"rx", 0>>) = rx.bufs /\ At(<<"tx_ring", 0>>) = tx_ring
      /\ At(<<"tx", 0>>) = tx.bufs /\ At(<<"nic", 0>>) = nic
    BY DEF At
<1>5. \A w \in Worker :
           /\ At(<<"dest", w>>) = rx.dest[w] /\ At(<<"ring", w>>) = ring[w]
           /\ At(<<"bufs", w>>) = wk[w].bufs /\ At(<<"fwd", w>>) = wk[w].fwd
    BY DEF At
<1> QED BY <1>1, <1>2, <1>3, <1>4, <1>5 DEF Single, PerWorker, PlacesNow

LEMMA PlacesNext == PlacesNow'
BY PlacesAt, PTL

LEMMA Unmoved ==
    ASSUME NEW x \in PlaceNames,
           x = <<"rx", 0>> => rx'.bufs = rx.bufs,
           x = <<"tx_ring", 0>> => tx_ring' = tx_ring,
           x = <<"tx", 0>> => tx'.bufs = tx.bufs,
           x = <<"nic", 0>> => nic' = nic,
           \A w \in Worker : x = <<"dest", w>> => rx'.dest[w] = rx.dest[w],
           \A w \in Worker : x = <<"ring", w>> => ring'[w] = ring[w],
           \A w \in Worker : x = <<"bufs", w>> => wk'[w].bufs = wk[w].bufs,
           \A w \in Worker : x = <<"fwd", w>> => wk'[w].fwd = wk[w].fwd
    PROVE  places'[x] = places[x]
<1>1. CASE \E k \in Single : x = <<k, 0>>
    BY <1>1, PlacesAt, PlacesNext DEF Single, PlacesNow
<1>2. CASE \E k \in PerWorker, w \in Worker : x = <<k, w>>
  <2>1. PICK k \in PerWorker, w \in Worker : x = <<k, w>>
      BY <1>2
  <2>2. k = "dest" \/ k = "ring" \/ k = "bufs" \/ k = "fwd"
      BY DEF PerWorker
  <2>3. CASE k = "dest"
    <3>1. places[<<"dest", w>>] = rx.dest[w] /\ places'[<<"dest", w>>] = rx'.dest[w]
        BY PlacesAt, PlacesNext DEF PlacesNow
    <3> QED BY <2>1, <2>3, <3>1
  <2>4. CASE k = "ring"
    <3>1. places[<<"ring", w>>] = ring[w] /\ places'[<<"ring", w>>] = ring'[w]
        BY PlacesAt, PlacesNext DEF PlacesNow
    <3> QED BY <2>1, <2>4, <3>1
  <2>5. CASE k = "bufs"
    <3>1. places[<<"bufs", w>>] = wk[w].bufs /\ places'[<<"bufs", w>>] = wk'[w].bufs
        BY PlacesAt, PlacesNext DEF PlacesNow
    <3> QED BY <2>1, <2>5, <3>1
  <2>6. CASE k = "fwd"
    <3>1. places[<<"fwd", w>>] = wk[w].fwd /\ places'[<<"fwd", w>>] = wk'[w].fwd
        BY PlacesAt, PlacesNext DEF PlacesNow
    <3> QED BY <2>1, <2>6, <3>1
  <2> QED BY <2>2, <2>3, <2>4, <2>5, <2>6
<1> QED BY <1>1, <1>2, PlaceCases

-----------------------------------------------------------------------------
(* Type correctness *)
LEMMA TypeInit == Init => TypeOK
<1> SUFFICES ASSUME Init PROVE TypeOK
    OBVIOUS
<1> USE PipelineAssumption DEF Init
<1>1. 0 \in Worker /\ NoShares \in [Worker -> Seq(Mbuf)] /\ \A w \in Worker : NoShares[w] = << >>
    BY DEF Worker, NoShares
<1>2. /\ main \in [pc : MainPc, res : SUBSET Shared]
      /\ rx \in [pc : RxPc, bufs : Seq(Mbuf), nb_rx : 0 .. Burst,
                dest : [Worker -> Seq(Mbuf)], next : Worker]
      /\ ring \in [Worker -> Seq(Mbuf)]
      /\ tx \in [pc : TxPc, bufs : Seq(Mbuf)]
    BY <1>1 DEF MainPc, RxPc, TxPc
<1>3. wk \in [Worker -> [pc : WorkerPc, bufs : Seq(Mbuf), fwd : Seq(Mbuf), sent : 0 .. Burst]]
  <2>1. 0 \in 0 .. Burst /\ "off" \in WorkerPc
      BY DEF WorkerPc
  <2> QED BY <2>1
<1>4. cnt \in [Counters -> Nat] /\ freed \in [Freers -> SUBSET Mbuf]
    OBVIOUS
<1>5. Len(tx_ring) <= TxCap /\ Len(tx.bufs) <= Burst
    OBVIOUS
<1>6. \A w \in Worker : /\ Len(ring[w]) <= RingCap
                        /\ Len(rx.bufs) + Len(rx.dest[w]) <= Burst
                        /\ Len(wk[w].bufs) + Len(wk[w].fwd) <= Burst
    BY <1>1
<1> QED BY <1>2, <1>3, <1>4, <1>5, <1>6 DEF TypeOK

(* The parts of TypeOK about RX, about a worker, and about the rest. *)
RxRec == [pc : RxPc, bufs : Seq(Mbuf), nb_rx : 0 .. Burst,
          dest : [Worker -> Seq(Mbuf)], next : Worker]
RxType == /\ rx \in RxRec
          /\ \A w \in Worker : Len(rx.bufs) + Len(rx.dest[w]) <= Burst
RingType == ring \in [Worker -> Seq(Mbuf)] /\ \A w \in Worker : Len(ring[w]) <= RingCap
WorkerRec == [pc : WorkerPc, bufs : Seq(Mbuf), fwd : Seq(Mbuf), sent : 0 .. Burst]
WorkerType == /\ wk \in [Worker -> WorkerRec]
              /\ \A w \in Worker : Len(wk[w].bufs) + Len(wk[w].fwd) <= Burst
TxRingType == tx_ring \in Seq(Mbuf) /\ Len(tx_ring) <= TxCap
TxType == tx \in [pc : TxPc, bufs : Seq(Mbuf)] /\ Len(tx.bufs) <= Burst
HistType == /\ cnt \in [Counters -> Nat] /\ arrived \in Seq(Mbuf) /\ nic \in Seq(Mbuf)
            /\ freed \in [Freers -> SUBSET Mbuf]
ControlType == /\ force_quit \in BOOLEAN /\ main \in [pc : MainPc, res : SUBSET Shared]
               /\ stats \in {"off", "run", "exit"}

Types == /\ RxType /\ RingType /\ WorkerType /\ TxRingType /\ TxType /\ HistType /\ ControlType

LEMMA TypeParts == TypeOK <=> Types
BY DEF TypeOK, Types, RxType, RxRec, RingType, WorkerType, WorkerRec, TxRingType, TxType, HistType, ControlType

LEMMA RecFields ==
    ASSUME NEW e \in WorkerRec
    PROVE  /\ e.pc \in WorkerPc /\ e.bufs \in Seq(Mbuf) /\ e.fwd \in Seq(Mbuf)
           /\ e.sent \in 0 .. Burst /\ e.sent \in Nat
           /\ Len(e.bufs) \in Nat /\ Len(e.fwd) \in Nat
<1>1. e.pc \in WorkerPc /\ e.bufs \in Seq(Mbuf) /\ e.fwd \in Seq(Mbuf)
    BY DEF WorkerRec
<1>2. e.sent \in 0 .. Burst
    BY DEF WorkerRec
<1>3. e.sent \in Nat
    BY <1>2, PipelineAssumption
<1> QED BY <1>1, <1>2, <1>3

LEMMA WorkerFields ==
    ASSUME WorkerType, NEW w \in Worker
    PROVE  /\ wk[w] \in WorkerRec
           /\ wk[w].pc \in WorkerPc /\ wk[w].bufs \in Seq(Mbuf) /\ wk[w].fwd \in Seq(Mbuf)
           /\ wk[w].sent \in 0 .. Burst /\ wk[w].sent \in Nat
           /\ Len(wk[w].bufs) + Len(wk[w].fwd) <= Burst
           /\ Len(wk[w].bufs) \in Nat /\ Len(wk[w].fwd) \in Nat
<1>1. wk[w] \in WorkerRec /\ Len(wk[w].bufs) + Len(wk[w].fwd) <= Burst
    BY DEF WorkerType
<1> QED BY <1>1, RecFields

LEMMA RxFields ==
    ASSUME RxType
    PROVE  /\ rx.pc \in RxPc /\ rx.bufs \in Seq(Mbuf) /\ rx.dest \in [Worker -> Seq(Mbuf)]
           /\ rx.next \in Worker /\ rx.nb_rx \in 0 .. Burst /\ Len(rx.bufs) \in Nat
           /\ \A w \in Worker : rx.dest[w] \in Seq(Mbuf) /\ Len(rx.dest[w]) \in Nat
BY DEF RxType, RxRec

(* What an action leaves alone keeps its type and its arrays. *)
LEMMA Kept ==
    ASSUME Types, Locals
    PROVE  /\ rx' = rx => RxType' /\ RxLocals'
           /\ ring' = ring => RingType'
           /\ wk' = wk => WorkerType' /\ WorkerLocals'
           /\ tx_ring' = tx_ring => TxRingType'
           /\ tx' = tx => TxType' /\ TxLocals'
           /\ UNCHANGED <<cnt, arrived, nic, freed>> => HistType'
           /\ UNCHANGED <<force_quit, main, stats>> => ControlType'
<1>1. rx' = rx => RxType' /\ RxLocals'
    BY DEF Types, RxType, Locals, RxLocals
<1>2. ring' = ring => RingType'
    BY DEF Types, RingType
<1>3. wk' = wk => WorkerType' /\ WorkerLocals'
    BY DEF Types, WorkerType, Locals, WorkerLocals
<1>4. tx_ring' = tx_ring => TxRingType'
    BY DEF Types, TxRingType
<1>5. tx' = tx => TxType' /\ TxLocals'
    BY DEF Types, TxType, Locals, TxLocals
<1>6. UNCHANGED <<cnt, arrived, nic, freed>> => HistType'
    BY DEF Types, HistType
<1>7. UNCHANGED <<force_quit, main, stats>> => ControlType'
    BY DEF Types, ControlType
<1> QED BY <1>1, <1>2, <1>3, <1>4, <1>5, <1>6, <1>7

LEMMA PlacesType ==
    ASSUME Types PROVE places \in [PlaceNames -> Seq(Mbuf)]
<1>1. ASSUME NEW x \in PlaceNames PROVE places[x] \in Seq(Mbuf)
  <2>1. CASE \E k \in Single : x = <<k, 0>>
      BY <2>1, PlacesAt, RxFields DEF Single, PlacesNow, Types, TxRingType, TxType, HistType
  <2>2. CASE \E k \in PerWorker, w \in Worker : x = <<k, w>>
    <3>1. PICK k \in PerWorker, w \in Worker : x = <<k, w>>
        BY <2>2
    <3>2. /\ places[<<"dest", w>>] = rx.dest[w] /\ places[<<"ring", w>>] = ring[w]
          /\ places[<<"bufs", w>>] = wk[w].bufs /\ places[<<"fwd", w>>] = wk[w].fwd
        BY PlacesAt DEF PlacesNow
    <3>3. /\ rx.dest[w] \in Seq(Mbuf) /\ wk[w].bufs \in Seq(Mbuf) /\ wk[w].fwd \in Seq(Mbuf)
          /\ ring[w] \in Seq(Mbuf)
        BY RxFields, WorkerFields DEF Types, RingType
    <3> QED BY <3>1, <3>2, <3>3 DEF PerWorker
  <2> QED BY <2>1, <2>2, PlaceCases
<1> QED BY <1>1 DEF places

(* A step that moves no mbuf. *)
LEMMA WaysKept ==
    ASSUME Ways(places, freed, arrived), UNCHANGED <<ring, tx_ring, nic, freed, arrived>>,
           rx'.bufs = rx.bufs, rx'.dest = rx.dest, tx'.bufs = tx.bufs,
           \A w \in Worker : wk'[w].bufs = wk[w].bufs /\ wk'[w].fwd = wk[w].fwd
    PROVE  Ways(places', freed', arrived')
<1>1. \A x \in PlaceNames : places'[x] = places[x]
    BY Unmoved
<1>2. places' = places
    BY <1>1 DEF places
<1> QED BY <1>2

LEMMA PhasesKept ==
    ASSUME Phases, UNCHANGED <<main, stats>>,
           rx'.pc = rx.pc \/ rx.pc \notin {"off", "exit"},
           tx'.pc = tx.pc \/ tx.pc \notin {"off", "exit"},
           \A w \in Worker : wk'[w].pc = wk[w].pc \/ wk[w].pc \notin {"off", "exit"}
    PROVE  Phases'
<1>1. AllExited => AllExited'
    BY DEF AllExited
<1> QED BY <1>1 DEF Phases

-----------------------------------------------------------------------------
(* The books: Accounting, one equation by another, and that the pool holds *)
(* finitely many mbufs.                                                    *)
Seen == cnt["rx"] + rx.nb_rx
BooksRx == Seen = cnt["rx_dropped"] + cnt["classified"] + Len(rx.bufs)
                     + Sum(OnTheWay, NumWorkers)
BooksWorker == cnt["classified"] = cnt["dropped"] + cnt["forwarded"] + Sum(Decided, NumWorkers)
BooksTx == cnt["forwarded"] + Sum(Uncounted, NumWorkers)
              = Len(tx_ring) + Len(tx.bufs) + cnt["tx"] + Cardinality(freed["tx"])
BooksPool == /\ cnt["rx_dropped"] = Cardinality(freed["rx"])
             /\ cnt["dropped"] = Cardinality(freed["worker"])
             /\ \A t \in Freers : IsFiniteSet(freed[t])
BooksNic == cnt["tx"] = Len(nic)
Books == BooksRx /\ BooksWorker /\ BooksTx /\ BooksPool /\ BooksNic

LEMMA BooksParts == Books <=> Accounting /\ \A t \in Freers : IsFiniteSet(freed[t])
BY DEF Books, BooksRx, Seen, BooksWorker, BooksTx, BooksPool, BooksNic, Accounting

(* The numbers of the books. *)
CntType == /\ Seen \in Int /\ cnt["rx_dropped"] \in Int /\ cnt["classified"] \in Int
           /\ cnt["dropped"] \in Int /\ cnt["forwarded"] \in Int /\ cnt["tx"] \in Int
SumsType == /\ Sum(OnTheWay, NumWorkers) \in Int /\ Sum(Decided, NumWorkers) \in Int
            /\ Sum(Uncounted, NumWorkers) \in Int
LensType == /\ Len(rx.bufs) \in Int /\ Len(tx_ring) \in Int /\ Len(tx.bufs) \in Int
            /\ Len(nic) \in Int
CardType == /\ Cardinality(freed["rx"]) \in Int /\ Cardinality(freed["worker"]) \in Int
            /\ Cardinality(freed["tx"]) \in Int

Arrays == \A w \in Worker :
             /\ OnTheWay[w] = Len(rx.dest[w]) + Len(ring[w]) + Len(wk[w].bufs)
             /\ Decided[w] = Len(wk[w].fwd) + wk[w].sent
             /\ Uncounted[w] = wk[w].sent
             /\ OnTheWay[w] \in Int /\ Decided[w] \in Int /\ Uncounted[w] \in Int
             /\ Len(rx.dest[w]) \in Int /\ Len(ring[w]) \in Int /\ Len(wk[w].bufs) \in Int
             /\ Len(wk[w].fwd) \in Int /\ wk[w].sent \in Int

LEMMA ArraysAt == Types => Arrays
<1> SUFFICES ASSUME Types, NEW w \in Worker
             PROVE  /\ OnTheWay[w] = Len(rx.dest[w]) + Len(ring[w]) + Len(wk[w].bufs)
                    /\ Decided[w] = Len(wk[w].fwd) + wk[w].sent
                    /\ Uncounted[w] = wk[w].sent
                    /\ OnTheWay[w] \in Int /\ Decided[w] \in Int /\ Uncounted[w] \in Int
                    /\ Len(rx.dest[w]) \in Int /\ Len(ring[w]) \in Int
                    /\ Len(wk[w].bufs) \in Int
                    /\ Len(wk[w].fwd) \in Int /\ wk[w].sent \in Int
    BY DEF Arrays
<1>1. /\ OnTheWay[w] = Len(rx.dest[w]) + Len(ring[w]) + Len(wk[w].bufs)
      /\ Decided[w] = Len(wk[w].fwd) + wk[w].sent
      /\ Uncounted[w] = wk[w].sent
    BY DEF OnTheWay, Decided, Uncounted
<1>2. Len(rx.dest[w]) \in Int
    BY RxFields DEF Types
<1>3. Len(ring[w]) \in Int
  <2>1. ring[w] \in Seq(Mbuf)
      BY DEF Types, RingType
  <2> QED BY <2>1
<1>4. Len(wk[w].bufs) \in Int /\ Len(wk[w].fwd) \in Int /\ wk[w].sent \in Int
  <2>1. WorkerType
      BY DEF Types
  <2>2. Len(wk[w].bufs) \in Nat /\ Len(wk[w].fwd) \in Nat /\ wk[w].sent \in Nat
      BY <2>1, WorkerFields
  <2> QED BY <2>2
<1> QED BY <1>1, <1>2, <1>3, <1>4

LEMMA Numbers ==
    ASSUME Types, Books PROVE CntType /\ SumsType /\ LensType /\ CardType
<1>1. CntType
  <2>1. cnt["rx"] \in Int /\ rx.nb_rx \in Int
      BY RxFields DEF Types, HistType, Counters
  <2>2. Seen \in Int
      BY <2>1 DEF Seen
  <2> QED BY <2>2 DEF Types, HistType, CntType, Counters
<1>2. SumsType
  <2>1. NumWorkers \in Nat /\ Worker = 0 .. NumWorkers - 1
      BY PipelineAssumption DEF Worker
  <2> QED BY <2>1, ArraysAt, SumType DEF SumsType, Arrays
<1>3. LensType
  <2>1. rx.bufs \in Seq(Mbuf) /\ tx_ring \in Seq(Mbuf) /\ tx.bufs \in Seq(Mbuf) /\ nic \in Seq(Mbuf)
      BY RxFields DEF Types, TxRingType, TxType, HistType
  <2> QED BY <2>1 DEF LensType
<1>4. CardType
  <2>1. IsFiniteSet(freed["rx"]) /\ IsFiniteSet(freed["worker"]) /\ IsFiniteSet(freed["tx"])
      BY DEF Books, BooksPool, Freers
  <2> QED BY <2>1, FS_CardinalityType DEF CardType
<1> QED BY <1>1, <1>2, <1>3, <1>4

(* An array of the workers changes for one worker, or not at all. *)
LEMMA SumShift ==
    ASSUME NEW g, NEW h, NEW w \in Worker, NEW d \in Int,
           \A v \in Worker : g[v] \in Int /\ h[v] \in Int,
           \A v \in Worker \ {w} : h[v] = g[v], h[w] = g[w] + d
    PROVE  Sum(h, NumWorkers) = Sum(g, NumWorkers) + d
<1>1. NumWorkers \in Nat /\ Worker = 0 .. NumWorkers - 1
    BY PipelineAssumption DEF Worker
<1>2. \A v \in 0 .. NumWorkers - 1 : g[v] \in Int /\ h[v] \in Int
    BY <1>1
<1>3. \A v \in 0 .. NumWorkers - 1 : v # w => h[v] = g[v]
    BY <1>1
<1>4. w \in 0 .. NumWorkers - 1
    BY <1>1
<1>5. Sum(h, NumWorkers) = Sum(g, NumWorkers) + (h[w] - g[w])
    BY <1>1, <1>2, <1>3, <1>4, SumChange
<1>6. g[w] \in Int /\ h[w] - g[w] = d
    OBVIOUS
<1> QED BY <1>5, <1>6

LEMMA SumStays ==
    ASSUME NEW g, NEW h, \A v \in Worker : h[v] = g[v]
    PROVE  Sum(h, NumWorkers) = Sum(g, NumWorkers)
<1>1. NumWorkers \in Nat /\ Worker = 0 .. NumWorkers - 1
    BY PipelineAssumption DEF Worker
<1> QED BY <1>1, SumSame

LEMMA WayKept ==
    ASSUME \A w \in Worker : /\ rx'.dest[w] = rx.dest[w] /\ ring'[w] = ring[w]
                             /\ wk'[w].bufs = wk[w].bufs
    PROVE  Sum(OnTheWay, NumWorkers)' = Sum(OnTheWay, NumWorkers)
<1>1. \A v \in Worker : OnTheWay'[v] = OnTheWay[v]
    BY DEF OnTheWay
<1> HIDE DEF OnTheWay
<1> QED BY <1>1, SumStays

LEMMA DecidedKept ==
    ASSUME \A w \in Worker : wk'[w].fwd = wk[w].fwd /\ wk'[w].sent = wk[w].sent
    PROVE  /\ Sum(Decided, NumWorkers)' = Sum(Decided, NumWorkers)
           /\ Sum(Uncounted, NumWorkers)' = Sum(Uncounted, NumWorkers)
<1>1. \A v \in Worker : Decided'[v] = Decided[v]
    BY DEF Decided
<1>2. \A v \in Worker : Uncounted'[v] = Uncounted[v]
    BY DEF Uncounted
<1> QED BY <1>1, <1>2, SumStays

LEMMA Units == 0 \in Int /\ 1 \in Int /\ -1 \in Int
OBVIOUS

LEMMA NothingAdded == \A x \in Int : x + 0 = x
OBVIOUS

(* The arrays change for worker w only. *)
WayDelta(w, i, j, k) ==
    /\ \A v \in Worker \ {w} : /\ rx'.dest[v] = rx.dest[v] /\ ring'[v] = ring[v]
                              /\ wk'[v].bufs = wk[v].bufs
    /\ Len(rx'.dest[w]) = Len(rx.dest[w]) + i /\ Len(ring'[w]) = Len(ring[w]) + j
    /\ Len(wk'[w].bufs) = Len(wk[w].bufs) + k

LEMMA WaySum ==
    ASSUME Types, Types', NEW w \in Worker, NEW i \in Int, NEW j \in Int, NEW k \in Int,
           WayDelta(w, i, j, k)
    PROVE  Sum(OnTheWay, NumWorkers)' = Sum(OnTheWay, NumWorkers) + (i + j + k)
<1>0. /\ \A v \in Worker \ {w} : /\ rx'.dest[v] = rx.dest[v] /\ ring'[v] = ring[v]
                                /\ wk'[v].bufs = wk[v].bufs
      /\ Len(rx'.dest[w]) = Len(rx.dest[w]) + i /\ Len(ring'[w]) = Len(ring[w]) + j
      /\ Len(wk'[w].bufs) = Len(wk[w].bufs) + k
    BY DEF WayDelta
<1>1. Arrays /\ Arrays'
    BY ArraysAt, PTL
<1>2. PICK g, h : g = OnTheWay /\ h = OnTheWay'
    OBVIOUS
<1>3. /\ \A v \in Worker : g[v] \in Int /\ h[v] \in Int
      /\ \A v \in Worker : g[v] = Len(rx.dest[v]) + Len(ring[v]) + Len(wk[v].bufs)
      /\ \A v \in Worker : h[v] = Len(rx'.dest[v]) + Len(ring'[v]) + Len(wk'[v].bufs)
    BY <1>1, <1>2 DEF Arrays
<1>4. h[w] = g[w] + (i + j + k)
  <2>1. PICK a \in Int, b \in Int, c \in Int :
             a = Len(rx.dest[w]) /\ b = Len(ring[w]) /\ c = Len(wk[w].bufs)
      BY <1>1 DEF Arrays
  <2>2. g[w] = a + b + c /\ h[w] = (a + i) + (b + j) + (c + k)
      BY <1>0, <1>3, <2>1
  <2>3. (a + i) + (b + j) + (c + k) = a + b + c + (i + j + k)
      OBVIOUS
  <2> QED BY <2>2, <2>3
<1>5. \A v \in Worker \ {w} : h[v] = g[v]
  <2>1. ASSUME NEW v \in Worker \ {w} PROVE h[v] = g[v]
    <3>1. rx'.dest[v] = rx.dest[v] /\ ring'[v] = ring[v] /\ wk'[v].bufs = wk[v].bufs
        BY <1>0, Zenon
    <3>2. /\ g[v] = Len(rx.dest[v]) + Len(ring[v]) + Len(wk[v].bufs)
          /\ h[v] = Len(rx'.dest[v]) + Len(ring'[v]) + Len(wk'[v].bufs)
        BY <1>3, Zenon
    <3> QED BY <3>1, <3>2, Zenon
  <2> QED BY <2>1, Zenon
<1>6. PICK d \in Int : d = i + j + k
    OBVIOUS
<1>7. h[w] = g[w] + d
    BY <1>4, <1>6
<1>8. Sum(h, NumWorkers) = Sum(g, NumWorkers) + d
    BY <1>3, <1>5, <1>7, SumShift
<1> QED BY <1>2, <1>6, <1>8

LEMMA DecidedSum ==
    ASSUME Types, Types', NEW w \in Worker, NEW d \in Int, NEW k \in Int,
           \A v \in Worker \ {w} : wk'[v].fwd = wk[v].fwd /\ wk'[v].sent = wk[v].sent,
           Len(wk'[w].fwd) + wk'[w].sent = Len(wk[w].fwd) + wk[w].sent + d,
           wk'[w].sent = wk[w].sent + k
    PROVE  /\ Sum(Decided, NumWorkers)' = Sum(Decided, NumWorkers) + d
           /\ Sum(Uncounted, NumWorkers)' = Sum(Uncounted, NumWorkers) + k
<1>1. Arrays /\ Arrays'
    BY ArraysAt, PTL
<1>2. PICK g, h, x, y : g = Decided /\ h = Decided' /\ x = Uncounted /\ y = Uncounted'
    OBVIOUS
<1>3. /\ \A v \in Worker : g[v] \in Int /\ h[v] \in Int /\ x[v] \in Int /\ y[v] \in Int
      /\ \A v \in Worker : g[v] = Len(wk[v].fwd) + wk[v].sent /\ x[v] = wk[v].sent
      /\ \A v \in Worker : h[v] = Len(wk'[v].fwd) + wk'[v].sent /\ y[v] = wk'[v].sent
    BY <1>1, <1>2 DEF Arrays
<1>4. /\ h[w] = g[w] + d /\ \A v \in Worker \ {w} : h[v] = g[v]
      /\ y[w] = x[w] + k /\ \A v \in Worker \ {w} : y[v] = x[v]
  <2>1. h[w] = g[w] + d /\ y[w] = x[w] + k
      BY <1>3, Zenon
  <2>2. ASSUME NEW v \in Worker \ {w} PROVE h[v] = g[v] /\ y[v] = x[v]
      BY <1>3, Zenon
  <2> QED BY <2>1, <2>2, Zenon
<1>5. Sum(h, NumWorkers) = Sum(g, NumWorkers) + d
  <2>1. \A v \in Worker : g[v] \in Int /\ h[v] \in Int
      BY <1>3, Zenon
  <2> QED BY <1>4, <2>1, SumShift, Zenon
<1>6. Sum(y, NumWorkers) = Sum(x, NumWorkers) + k
  <2>1. \A v \in Worker : x[v] \in Int /\ y[v] \in Int
      BY <1>3, Zenon
  <2> QED BY <1>4, <2>1, SumShift, Zenon
<1> QED BY <1>2, <1>5, <1>6

(* A step that moves no mbuf and counts nothing. *)
LEMMA BooksKept ==
    ASSUME Books, UNCHANGED <<ring, tx_ring, nic, freed, cnt>>,
           rx'.bufs = rx.bufs, rx'.nb_rx = rx.nb_rx, rx'.dest = rx.dest, tx'.bufs = tx.bufs,
           \A w \in Worker : /\ wk'[w].bufs = wk[w].bufs /\ wk'[w].fwd = wk[w].fwd
                             /\ wk'[w].sent = wk[w].sent
    PROVE  Books'
<1>1. /\ Sum(OnTheWay, NumWorkers)' = Sum(OnTheWay, NumWorkers)
      /\ Sum(Decided, NumWorkers)' = Sum(Decided, NumWorkers)
      /\ Sum(Uncounted, NumWorkers)' = Sum(Uncounted, NumWorkers)
    BY WayKept, DecidedKept
<1>2. BooksRx' /\ BooksWorker' /\ BooksTx'
    BY <1>1 DEF Books, BooksRx, Seen, BooksWorker, BooksTx
<1>3. BooksPool' /\ BooksNic'
    BY DEF Books, BooksPool, BooksNic
<1> QED BY <1>2, <1>3 DEF Books

(* An equation of the books still holds when both of its sides change by   *)
(* the same amount.                                                        *)
LEMMA RxBalance ==
    ASSUME Types, Books, NEW i \in Int, NEW j \in Int, NEW k \in Int, NEW d \in Int,
           Seen' = Seen, cnt'["rx_dropped"] = cnt["rx_dropped"] + i,
           cnt'["classified"] = cnt["classified"] + j, Len(rx'.bufs) = Len(rx.bufs) + k,
           Sum(OnTheWay, NumWorkers)' = Sum(OnTheWay, NumWorkers) + d, i + j + k + d = 0
    PROVE  BooksRx'
<1>1. PICK a \in Int, b \in Int, c \in Int, e \in Int, f \in Int :
        /\ a = Seen /\ b = cnt["rx_dropped"] /\ c = cnt["classified"]
        /\ e = Len(rx.bufs) /\ f = Sum(OnTheWay, NumWorkers)
    BY Numbers DEF CntType, LensType, SumsType
<1>2. a = b + c + e + f
    BY <1>1 DEF Books, BooksRx
<1>3. a = (b + i) + (c + j) + (e + k) + (f + d)
    BY <1>2
<1>4. /\ Seen' = a /\ cnt'["rx_dropped"] = b + i /\ cnt'["classified"] = c + j
      /\ Len(rx'.bufs) = e + k /\ Sum(OnTheWay, NumWorkers)' = f + d
    BY <1>1
<1> QED BY <1>3, <1>4 DEF BooksRx

TxDelta(i, j, k, l, m, n) ==
    /\ cnt'["forwarded"] = cnt["forwarded"] + i
    /\ Sum(Uncounted, NumWorkers)' = Sum(Uncounted, NumWorkers) + j
    /\ Len(tx_ring') = Len(tx_ring) + k /\ Len(tx'.bufs) = Len(tx.bufs) + l
    /\ cnt'["tx"] = cnt["tx"] + m
    /\ Cardinality(freed'["tx"]) = Cardinality(freed["tx"]) + n

LEMMA TxBalance ==
    ASSUME Types, Books, NEW i \in Int, NEW j \in Int, NEW k \in Int, NEW l \in Int,
           NEW m \in Int, NEW n \in Int, TxDelta(i, j, k, l, m, n), i + j = k + l + m + n
    PROVE  BooksTx'
<1>1. PICK a \in Int, b \in Int, c \in Int, d \in Int, e \in Int, f \in Int :
        /\ a = cnt["forwarded"] /\ b = Sum(Uncounted, NumWorkers) /\ c = Len(tx_ring)
        /\ d = Len(tx.bufs) /\ e = cnt["tx"] /\ f = Cardinality(freed["tx"])
    BY Numbers DEF CntType, LensType, SumsType, CardType
<1>2. a + b = c + d + e + f
    BY <1>1 DEF Books, BooksTx
<1>3. (a + i) + (b + j) = (c + k) + (d + l) + (e + m) + (f + n)
    BY <1>2
<1>4. /\ cnt'["forwarded"] = a + i /\ Sum(Uncounted, NumWorkers)' = b + j
      /\ Len(tx_ring') = c + k /\ Len(tx'.bufs) = d + l /\ cnt'["tx"] = e + m
      /\ Cardinality(freed'["tx"]) = f + n
    BY <1>1 DEF TxDelta
<1> QED BY <1>3, <1>4 DEF BooksTx

(* The mbufs of a sequence without repetition join a set that had none. *)
LEMMA CardAdded ==
    ASSUME NEW F, IsFiniteSet(F), NEW s \in Seq(Mbuf),
           \A i, j \in 1 .. Len(s) : s[i] = s[j] => i = j,
           \A i \in 1 .. Len(s) : s[i] \notin F
    PROVE  /\ IsFiniteSet(F \cup ToSet(s))
           /\ Cardinality(F \cup ToSet(s)) = Cardinality(F) + Len(s)
<1>1. Len(s) \in Nat
    OBVIOUS
<1>2. IsFiniteSet(1 .. Len(s)) /\ Cardinality(1 .. Len(s)) = Len(s)
  <2>1. PICK n \in Nat : n = Len(s)
      BY <1>1
  <2>2. IsFiniteSet(1 .. n) /\ Cardinality(1 .. n) = IF 1 > n THEN 0 ELSE n - 1 + 1
      BY FS_Interval
  <2> QED BY <2>1, <2>2
<1>3. ExistsBijection(1 .. Len(s), ToSet(s))
  <2> DEFINE f == [i \in 1 .. Len(s) |-> s[i]]
  <2>1. f \in [1 .. Len(s) -> ToSet(s)]
      BY DEF ToSet
  <2>2. \A a, b \in 1 .. Len(s) : f[a] = f[b] => a = b
      OBVIOUS
  <2>3. \A t \in ToSet(s) : \E i \in 1 .. Len(s) : f[i] = t
      BY DEF ToSet
  <2> HIDE DEF f
  <2>4. f \in Bijection(1 .. Len(s), ToSet(s))
      BY <2>1, <2>2, <2>3 DEF Bijection, Injection, Surjection, IsInjective
  <2> QED BY <2>4 DEF ExistsBijection
<1>4. IsFiniteSet(ToSet(s)) /\ Cardinality(ToSet(s)) = Len(s)
    BY <1>2, <1>3, FS_Bijection
<1>5. F \cap ToSet(s) = {}
    BY DEF ToSet
<1>6. Cardinality(F \cap ToSet(s)) = 0
    BY <1>5, FS_EmptySet
<1>7. /\ IsFiniteSet(F \cup ToSet(s))
      /\ Cardinality(F \cup ToSet(s)) = Cardinality(F) + Cardinality(ToSet(s))
                                          - Cardinality(F \cap ToSet(s))
    BY <1>4, FS_Union
<1>8. Cardinality(F) \in Nat
    BY FS_CardinalityType
<1> QED BY <1>1, <1>4, <1>6, <1>7, <1>8

(* The mbufs of a place are distinct and not in the pool. *)
LEMMA PlaceDistinct ==
    ASSUME Types, Ways(places, freed, arrived), NEW x \in PlaceNames
    PROVE  /\ \A i, j \in 1 .. Len(places[x]) : places[x][i] = places[x][j] => i = j
           /\ \A t \in Freers, i \in 1 .. Len(places[x]) : places[x][i] \notin freed[t]
<1>1. /\ Sited(PlaceNames, site, places) /\ InOrder(PlaceNames, rank, places)
      /\ Apart(Held(PlaceNames, places), freed)
      /\ Arrangement(PlaceNames, places) /\ Exclusive(PlaceNames, rank, site)
      /\ rank \in [PlaceNames -> Int]
    BY PlacesType, Arranged, RankSite DEF Ways
<1>2. \A i, j \in 1 .. Len(places[x]) : places[x][i] = places[x][j] => i = j
    BY <1>1, Unique
<1>3. \A i \in 1 .. Len(places[x]) : places[x][i] \in Held(PlaceNames, places)
    BY HeldAt
<1> QED BY <1>1, <1>2, <1>3 DEF Apart

(* Thread t frees all but the first n mbufs of a place. *)
LEMMA CardFreed ==
    ASSUME Types, Ways(places, freed, arrived), Books, NEW x \in PlaceNames,
           NEW n \in 0 .. Len(places[x]), NEW t \in Freers,
           Frees(freed, freed', t, ToSet(Rest(places[x], n)))
    PROVE  /\ \A u \in Freers : IsFiniteSet(freed'[u])
           /\ \A u \in Freers \ {t} : freed'[u] = freed[u]
           /\ Cardinality(freed'[t]) = Cardinality(freed[t]) + (Len(places[x]) - n)
<1>1. PICK s \in Seq(Mbuf) : s = places[x]
    BY PlacesType
<1>2. PICK u \in Seq(Mbuf) : /\ u = Rest(s, n) /\ Len(u) = Len(s) - n
                             /\ \A i \in 1 .. Len(s) - n : u[i] = s[i + n]
  <2>1. n \in 0 .. Len(s)
      BY <1>1
  <2>2. /\ Rest(s, n) \in Seq(Mbuf) /\ Len(Rest(s, n)) = Len(s) - n
        /\ \A i \in 1 .. Len(s) - n : Rest(s, n)[i] = s[i + n]
      BY <2>1, TakeRest
  <2> QED BY <2>2, Zenon
<1>3. n \in Nat /\ Len(s) \in Nat /\ n <= Len(s)
    BY <1>1
<1>4. \A i \in 1 .. Len(u) : i \in Int /\ i + n \in 1 .. Len(s) /\ u[i] = s[i + n]
    BY <1>2, <1>3
<1>5. /\ \A i, j \in 1 .. Len(s) : s[i] = s[j] => i = j
      /\ \A i \in 1 .. Len(s) : s[i] \notin freed[t]
    BY <1>1, PlaceDistinct
<1>6. ASSUME NEW i \in 1 .. Len(u), NEW j \in 1 .. Len(u), u[i] = u[j] PROVE i = j
  <2>1. i \in Int /\ j \in Int /\ i + n = j + n
      BY <1>4, <1>5, <1>6
  <2> QED BY <1>3, <2>1
<1>7. \A i \in 1 .. Len(u) : u[i] \notin freed[t]
    BY <1>4, <1>5
<1>8. IsFiniteSet(freed[t])
    BY DEF Books, BooksPool
<1>9. /\ IsFiniteSet(freed[t] \cup ToSet(u))
      /\ Cardinality(freed[t] \cup ToSet(u)) = Cardinality(freed[t]) + Len(u)
    BY <1>6, <1>7, <1>8, CardAdded
<1>10. /\ freed'[t] = freed[t] \cup ToSet(u)
       /\ \A v \in Freers \ {t} : freed'[v] = freed[v]
    BY <1>1, <1>2 DEF Frees
<1>11. \A v \in Freers : IsFiniteSet(freed'[v])
    BY <1>9, <1>10 DEF Books, BooksPool
<1> QED BY <1>1, <1>2, <1>9, <1>10, <1>11

(* A counter goes up by k. *)
LEMMA Counted ==
    ASSUME HistType, NEW c \in Counters, NEW k, Add(c, k)
    PROVE  cnt'[c] = cnt[c] + k /\ \A d \in Counters \ {c} : cnt'[d] = cnt[d]
BY DEF HistType, Add

LEMMA Added ==
    ASSUME HistType, NEW c \in Counters, NEW k \in Nat, Add(c, k)
    PROVE  cnt' \in [Counters -> Nat]
BY DEF HistType, Add

LEMMA CountedTwo ==
    ASSUME HistType, NEW c \in Counters, NEW d \in Counters, c # d, NEW i, NEW j,
           cnt' = [cnt EXCEPT ![c] = @ + i, ![d] = @ + j]
    PROVE  /\ cnt'[c] = cnt[c] + i /\ cnt'[d] = cnt[d] + j
           /\ \A b \in Counters \ {c, d} : cnt'[b] = cnt[b]
BY DEF HistType

-----------------------------------------------------------------------------
(* The RX thread *)
LEMMA StepRxCheck ==
    ASSUME Types, Phases, Locals, Ways(places, freed, arrived), Books, RxCheck
    PROVE  Types' /\ Phases' /\ Locals' /\ Ways(places', freed', arrived') /\ Books'
<1> DEFINE pc2 == IF force_quit THEN "exit" ELSE "poll"
<1>1. /\ rx.pc = "check" /\ rx' = [rx EXCEPT !.pc = pc2]
      /\ UNCHANGED <<force_quit, main, ring, wk, tx_ring, tx, stats, cnt, arrived, nic, freed>>
    BY DEF RxCheck
<1>2. pc2 \in RxPc /\ pc2 \notin {"spread", "enqueue"}
    BY DEF RxPc
<1> HIDE DEF pc2
<1>3. /\ rx'.pc = pc2 /\ rx'.bufs = rx.bufs /\ rx'.dest = rx.dest /\ rx'.next = rx.next
      /\ rx'.nb_rx = rx.nb_rx /\ rx' \in RxRec
    BY <1>1, <1>2 DEF Types, RxType, RxRec
<1>4. RxType'
    BY <1>3 DEF Types, RxType
<1>5. RxLocals'
    BY <1>1, <1>2, <1>3 DEF Locals, RxLocals
<1>6. Types'
    BY <1>1, <1>4, Kept DEF Types
<1>7. Locals'
    BY <1>1, <1>5, Kept DEF Locals
<1>8. Phases'
    BY <1>1, PhasesKept
<1>9. Ways(places', freed', arrived')
    BY <1>1, <1>3, WaysKept
<1>b. Books'
    BY <1>1, <1>3, BooksKept
<1> QED BY <1>6, <1>7, <1>8, <1>9, <1>b

LEMMA StepRxPoll ==
    ASSUME Types, Phases, Locals, Ways(places, freed, arrived), Books,
           NEW n \in 0 .. Burst, NEW fs \in [1 .. n -> Flow], RxPoll(fs)
    PROVE  Types' /\ Phases' /\ Locals' /\ Ways(places', freed', arrived') /\ Books'
<1> DEFINE bufs == [i \in 1 .. Len(fs) |-> [flow |-> fs[i], no |-> Len(arrived) + i]]
           pc2 == IF fs = << >> THEN "check" ELSE "spread"
           p == <<"rx", 0>>
<1>0. n \in Nat /\ n <= Burst
    BY PipelineAssumption
<1>1. fs \in Seq(Flow) /\ Len(fs) = n
    BY <1>0
<1>2. /\ rx.pc = "poll" /\ Len(arrived) + Len(fs) <= MaxRx
      /\ rx' = [pc |-> pc2, bufs |-> bufs, nb_rx |-> n, dest |-> NoShares, next |-> 0]
      /\ arrived' = arrived \o bufs
      /\ UNCHANGED <<force_quit, main, ring, wk, tx_ring, tx, stats, cnt, nic, freed>>
    BY <1>1 DEF RxPoll
<1>3. arrived \in Seq(Mbuf) /\ Len(arrived) \in Nat
    BY DEF Types, HistType
<1>4. \A i \in 1 .. n : [flow |-> fs[i], no |-> Len(arrived) + i] \in Mbuf
  <2>1. ASSUME NEW i \in 1 .. n PROVE Len(arrived) + i \in 1 .. MaxRx /\ fs[i] \in Flow
      BY <1>0, <1>1, <1>2, <1>3, PipelineAssumption
  <2> QED BY <2>1 DEF Mbuf
<1>5. /\ bufs \in Seq(Mbuf) /\ Len(bufs) = n
      /\ \A i \in 1 .. Len(bufs) : bufs[i].no = Len(arrived) + i
    BY <1>0, <1>1, <1>4
<1>6. /\ pc2 \in {"check", "spread"} /\ (pc2 = "spread" <=> bufs # << >>)
      /\ pc2 # "spread" => n = 0
  <2>1. fs = << >> <=> n = 0
      BY <1>0, <1>1
  <2>2. bufs = << >> <=> n = 0
      BY <1>0, <1>5
  <2> HIDE DEF bufs
  <2> QED BY <2>1, <2>2
<1> HIDE DEF bufs, pc2
<1>7. /\ rx'.pc = pc2 /\ rx'.bufs = bufs /\ rx'.dest = NoShares /\ rx'.next = 0
      /\ rx'.nb_rx = n
      /\ 0 \in Worker /\ NoShares \in [Worker -> Seq(Mbuf)] /\ pc2 \in RxPc
      /\ \A w \in Worker : NoShares[w] = << >>
    BY <1>2, <1>6, PipelineAssumption DEF Worker, NoShares, RxPc
<1>8. RxType'
  <2>1. rx' \in RxRec
      BY <1>2, <1>5, <1>7 DEF RxRec
  <2>2. \A w \in Worker : Len(rx'.bufs) + Len(rx'.dest[w]) <= Burst
      BY <1>0, <1>5, <1>7, PipelineAssumption
  <2> QED BY <2>1, <2>2 DEF RxType
<1>9. RxLocals'
    BY <1>6, <1>7 DEF RxLocals
<1>10. HistType'
  <2>1. arrived' \in Seq(Mbuf)
      BY <1>2, <1>3, <1>5, Joined
  <2> QED BY <1>2, <2>1 DEF Types, HistType
<1>11. Types'
    BY <1>2, <1>8, <1>10, Kept DEF Types
<1>12. Locals'
    BY <1>2, <1>9, Kept DEF Locals
<1>13. Phases'
    BY <1>2, PhasesKept
<1>14. Ways(places', freed', arrived')
  <2>1. rx.bufs = << >> /\ \A w \in Worker : rx.dest[w] = << >>
      BY <1>2 DEF Locals, RxLocals
  <2>2. p \in PlaceNames
      BY SiteOf DEF Single
  <2>3. places[p] = << >> /\ places'[p] = bufs
      BY <1>7, <2>1, PlacesAt, PlacesNext DEF PlacesNow
  <2>4. ASSUME NEW x \in PlaceNames \ {p} PROVE places'[x] = places[x]
      BY <1>2, <1>7, <2>1, <2>4, Unmoved
  <2>5. places \in [PlaceNames -> Seq(Mbuf)]
      BY PlacesType
  <2>6. Ways(places', freed, arrived \o bufs)
      BY <1>3, <1>5, <2>2, <2>3, <2>4, <2>5, WaysArrive
  <2> QED BY <1>2, <2>6
<1>b. Books'
  <2>1. Seen' = Seen + n /\ n \in Int
    <3>1. cnt["rx"] \in Nat /\ rx.nb_rx = 0
        BY <1>2 DEF Types, HistType, Counters, Locals, RxLocals
    <3>2. cnt'["rx"] = cnt["rx"] /\ rx'.nb_rx = n
        BY <1>2, <1>7
    <3> QED BY <1>0, <3>1, <3>2 DEF Seen
  <2>2. rx.bufs = << >> /\ \A w \in Worker : rx.dest[w] = << >>
      BY <1>2 DEF Locals, RxLocals
  <2>3. Sum(OnTheWay, NumWorkers)' = Sum(OnTheWay, NumWorkers)
      BY <1>2, <1>7, <2>2, WayKept
  <2>4. /\ Sum(Decided, NumWorkers)' = Sum(Decided, NumWorkers)
        /\ Sum(Uncounted, NumWorkers)' = Sum(Uncounted, NumWorkers)
      BY <1>2, DecidedKept
  <2>5. Len(rx.bufs) = 0 /\ Len(rx'.bufs) = n
      BY <1>5, <1>7, <2>2
  <2>6. CntType /\ SumsType
      BY Numbers
  <2>7. BooksRx'
    <3>1. PICK a \in Int, b \in Int, c \in Int, d \in Int :
              /\ a = Seen /\ b = cnt["rx_dropped"] /\ c = cnt["classified"]
              /\ d = Sum(OnTheWay, NumWorkers)
        BY <2>6 DEF CntType, SumsType
    <3>2. a = b + c + 0 + d
        BY <2>5, <3>1 DEF Books, BooksRx
    <3>3. a + n = b + c + n + d
        BY <2>1, <3>2
    <3>4. /\ Seen' = a + n /\ cnt'["rx_dropped"] = b /\ cnt'["classified"] = c
          /\ Len(rx'.bufs) = n /\ Sum(OnTheWay, NumWorkers)' = d
        BY <1>2, <2>1, <2>3, <2>5, <3>1
    <3> QED BY <3>3, <3>4 DEF BooksRx
  <2>8. BooksWorker' /\ BooksTx' /\ BooksPool' /\ BooksNic'
      BY <1>2, <2>4 DEF Books, BooksWorker, BooksTx, BooksPool, BooksNic
  <2> QED BY <2>7, <2>8 DEF Books
<1> QED BY <1>11, <1>12, <1>13, <1>14, <1>b

LEMMA EmptyLen == \A s \in Seq(Mbuf) : s = << >> <=> Len(s) = 0
OBVIOUS

LEMMA LessSum ==
    ASSUME NEW i \in Nat, NEW j \in Nat, NEW k \in Nat, NEW n \in Nat, i <= j, j + k <= n
    PROVE  i + k <= n
OBVIOUS

(* RX's record gets a new share d for worker w. *)
LEMMA RxUpdate ==
    ASSUME RxType, NEW a \in RxPc, NEW b \in Seq(Mbuf), NEW w \in Worker,
           NEW d \in Seq(Mbuf), NEW k \in Worker, NEW c \in 0 .. Burst,
           NEW e, e = [rx.dest EXCEPT ![w] = d],
           rx' = [pc |-> a, bufs |-> b, nb_rx |-> c, dest |-> e, next |-> k],
           Len(b) <= Len(rx.bufs), Len(b) + Len(d) <= Burst
    PROVE  /\ RxType'
           /\ rx'.pc = a /\ rx'.bufs = b /\ rx'.nb_rx = c /\ rx'.next = k /\ rx'.dest[w] = d
           /\ \A v \in Worker \ {w} : rx'.dest[v] = rx.dest[v]
<1>0. /\ rx.bufs \in Seq(Mbuf) /\ rx.dest \in [Worker -> Seq(Mbuf)] /\ Len(rx.bufs) \in Nat
      /\ \A v \in Worker : rx.dest[v] \in Seq(Mbuf) /\ Len(rx.dest[v]) \in Nat
    BY RxFields
<1>1. rx'.pc = a /\ rx'.bufs = b /\ rx'.nb_rx = c /\ rx'.next = k /\ rx'.dest = e
    OBVIOUS
<1>2. /\ e[w] = d /\ e \in [Worker -> Seq(Mbuf)]
      /\ \A v \in Worker \ {w} : e[v] = rx.dest[v]
    BY <1>0
<1>3. rx' \in RxRec
    BY <1>2 DEF RxRec
<1>4. ASSUME NEW v \in Worker PROVE Len(rx'.bufs) + Len(rx'.dest[v]) <= Burst
  <2>1. Len(rx.bufs) + Len(rx.dest[v]) <= Burst /\ Burst \in Nat
      BY PipelineAssumption DEF RxType
  <2>2. Len(b) \in Nat /\ Len(rx.dest[v]) \in Nat
      BY <1>0
  <2>3. CASE v = w
      BY <1>1, <1>2, <2>3
  <2>4. CASE v # w
    <3>1. Len(b) + Len(rx.dest[v]) <= Burst
        BY <1>0, <2>1, <2>2, LessSum
    <3> QED BY <1>1, <1>2, <2>4, <3>1
  <2> QED BY <2>3, <2>4
<1> QED BY <1>1, <1>2, <1>3, <1>4 DEF RxType

LEMMA StepRxSpread ==
    ASSUME Types, Phases, Locals, Ways(places, freed, arrived), Books, RxSpread
    PROVE  Types' /\ Phases' /\ Locals' /\ Ways(places', freed', arrived') /\ Books'
<1>0. /\ RxType /\ rx.bufs \in Seq(Mbuf) /\ rx.dest \in [Worker -> Seq(Mbuf)]
      /\ Len(rx.bufs) \in Nat
      /\ \A v \in Worker : rx.dest[v] \in Seq(Mbuf) /\ Len(rx.dest[v]) \in Nat
    BY RxFields DEF Types
<1>1. rx.pc = "spread" /\ rx.bufs # << >> /\ rx.next = 0 /\ 0 \in Worker
    BY PipelineAssumption DEF RxSpread, Locals, RxLocals, Worker
<1>2. PICK b \in Seq(Mbuf), m \in Mbuf : b = rx.bufs /\ b # << >> /\ m = Head(b)
    BY <1>0, <1>1
<1>3. m.flow \in Flow /\ WorkerOf[m.flow] \in Worker
    BY MbufFields, PipelineAssumption DEF Worker
<1>4. PICK w \in Worker : w = WorkerOf[m.flow]
    BY <1>3
<1>5. PICK s \in Seq(Mbuf) : s = rx.dest[w]
    BY <1>0
<1>6. PICK a : a = IF Len(b) = 1 THEN "enqueue" ELSE "spread"
    OBVIOUS
<1>7. /\ Tail(b) \in Seq(Mbuf) /\ Len(Tail(b)) = Len(b) - 1 /\ Len(b) \in Nat /\ Len(s) \in Nat
      /\ Append(s, m) \in Seq(Mbuf) /\ Len(Append(s, m)) = Len(s) + 1
    BY <1>2
<1>8. /\ a \in {"spread", "enqueue"} /\ a \in RxPc
      /\ a = "spread" <=> Tail(b) # << >>
  <2>1. a \in {"spread", "enqueue"} /\ a \in RxPc /\ (a = "spread" <=> Len(b) # 1)
      BY <1>6 DEF RxPc
  <2>2. Tail(b) # << >> <=> Len(b) # 1
    <3>1. Tail(b) # << >> <=> Len(Tail(b)) # 0
        BY <1>7, EmptyLen
    <3> QED BY <1>7, <3>1
  <2> QED BY <2>1, <2>2
<1>e. PICK e : e = [rx.dest EXCEPT ![w] = Append(s, m)]
    OBVIOUS
<1>n. PICK n \in 0 .. Burst : n = rx.nb_rx
    BY <1>0, RxFields
<1>c. PICK c \in 0 .. Burst, i \in 0 .. Burst :
          /\ c = (IF Len(b) = 1 THEN 0 ELSE n) /\ i = (IF Len(b) = 1 THEN n ELSE 0)
          /\ i + c = n /\ (a # "spread" => c = 0)
  <2>1. 0 \in 0 .. Burst /\ 0 + n = n /\ n + 0 = n
      BY PipelineAssumption
  <2>2. CASE Len(b) = 1
      BY <2>1, <2>2
  <2>3. CASE Len(b) # 1
      BY <1>6, <2>1, <2>3
  <2> QED BY <2>2, <2>3
<1>9. /\ rx' = [pc |-> a, bufs |-> Tail(b), nb_rx |-> c, dest |-> e, next |-> 0]
      /\ Add("rx", i)
      /\ UNCHANGED <<force_quit, main, ring, wk, tx_ring, tx, stats, arrived, nic, freed>>
    BY <1>0, <1>1, <1>2, <1>4, <1>5, <1>6, <1>e, <1>n, <1>c DEF RxSpread, RxType, RxRec
<1>10. Len(b) + Len(s) <= Burst
    BY <1>0, <1>2, <1>5 DEF RxType
<1>11. /\ RxType'
       /\ rx'.pc = a /\ rx'.bufs = Tail(b) /\ rx'.nb_rx = c /\ rx'.next = 0 /\ rx'.dest[w] = Append(s, m)
       /\ \A v \in Worker \ {w} : rx'.dest[v] = rx.dest[v]
  <2>1. ASSUME NEW k \in Nat, NEW j \in Nat, k + j <= Burst
        PROVE  k - 1 <= k /\ (k - 1) + (j + 1) <= Burst
      BY <2>1, PipelineAssumption
  <2>2. Len(Tail(b)) <= Len(rx.bufs) /\ Len(Tail(b)) + Len(Append(s, m)) <= Burst
      BY <1>2, <1>7, <1>10, <2>1
  <2>3. PICK t \in Seq(Mbuf), g \in Seq(Mbuf) : t = Tail(b) /\ g = Append(s, m)
      BY <1>7
  <2>4. /\ rx' = [pc |-> a, bufs |-> t, nb_rx |-> c, dest |-> e, next |-> 0]
        /\ e = [rx.dest EXCEPT ![w] = g]
        /\ Len(t) <= Len(rx.bufs) /\ Len(t) + Len(g) <= Burst
      BY <1>e, <1>9, <2>2, <2>3
  <2>5. /\ RxType'
        /\ rx'.pc = a /\ rx'.bufs = t /\ rx'.nb_rx = c /\ rx'.next = 0 /\ rx'.dest[w] = g
        /\ \A v \in Worker \ {w} : rx'.dest[v] = rx.dest[v]
      BY <1>0, <1>1, <1>8, <2>4, RxUpdate
  <2> QED BY <2>3, <2>5
<1>12. RxLocals'
  <2>1. \A v \in Worker : 0 <= v
      BY DEF Worker
  <2> QED BY <1>8, <1>c, <1>11, <2>1 DEF RxLocals
<1>h. HistType'
  <2>1. "rx" \in Counters /\ i \in Nat /\ HistType
      BY PipelineAssumption DEF Counters, Types
  <2>2. cnt' \in [Counters -> Nat]
      BY <1>9, <2>1, Added
  <2> QED BY <1>9, <2>1, <2>2 DEF HistType
<1>13. Types'
    BY <1>9, <1>11, <1>h, Kept DEF Types
<1>14. Locals'
    BY <1>9, <1>12, Kept DEF Locals
<1>15. Phases'
    BY <1>1, <1>9, PhasesKept
<1>16. Ways(places', freed', arrived')
  <2>1. PICK p, q : p = <<"rx", 0>> /\ q = <<"dest", w>>
      OBVIOUS
  <2>2. p \in PlaceNames /\ q \in PlaceNames /\ site[q] = {f \in Flow : WorkerOf[f] = w}
      BY <2>1, SiteOf DEF Single, PerWorker
  <2>3. rank[q] = rank[p] - 1
      BY <2>1, RankDown
  <2>4. /\ places[p] = b /\ places'[p] = Tail(b)
        /\ places[q] = s /\ places'[q] = Append(s, m)
      BY <1>2, <1>5, <1>11, <2>1, PlacesAt, PlacesNext DEF PlacesNow
  <2>5. ASSUME NEW x \in PlaceNames \ {p, q} PROVE places'[x] = places[x]
    <3>1. \A v \in Worker : x = <<"dest", v>> => rx'.dest[v] = rx.dest[v]
        BY <1>11, <2>1, <2>5
    <3> QED BY <1>9, <2>1, <2>5, <3>1, Unmoved
  <2>6. places \in [PlaceNames -> Seq(Mbuf)]
      BY PlacesType
  <2>7. Head(places[p]).flow \in site[q] /\ places[p] # << >>
      BY <1>2, <1>3, <1>4, <2>2, <2>4
  <2>8. places'[p] = Tail(places[p]) /\ places'[q] = Append(places[q], Head(places[p]))
      BY <1>2, <2>4
  <2>9. Ways(places', freed, arrived)
      BY <2>2, <2>3, <2>5, <2>6, <2>7, <2>8, WaysNext
  <2> QED BY <1>9, <2>9
<1>b. Books'
  <2>1. Arrays /\ SumsType /\ LensType /\ CntType
      BY ArraysAt, Numbers
  <2>2. Len(rx'.dest[w]) = Len(rx.dest[w]) + 1 /\ Len(rx'.bufs) = Len(rx.bufs) - 1
      BY <1>2, <1>5, <1>7, <1>11
  <2>3. /\ Len(ring'[w]) = Len(ring[w]) + 0 /\ Len(wk'[w].bufs) = Len(wk[w].bufs) + 0
        /\ \A v \in Worker \ {w} : /\ rx'.dest[v] = rx.dest[v] /\ ring'[v] = ring[v]
                                   /\ wk'[v].bufs = wk[v].bufs
      BY <1>9, <1>11, <2>1 DEF Arrays
  <2>4. Sum(OnTheWay, NumWorkers)' = Sum(OnTheWay, NumWorkers) + 1
    <3>d. WayDelta(w, 1, 0, 0)
        BY <2>2, <2>3 DEF WayDelta
    <3>1. Sum(OnTheWay, NumWorkers)' = Sum(OnTheWay, NumWorkers) + (1 + 0 + 0)
        BY <1>13, <3>d, WaySum, Units
    <3> QED BY <3>1
  <2>5. /\ Sum(Decided, NumWorkers)' = Sum(Decided, NumWorkers)
        /\ Sum(Uncounted, NumWorkers)' = Sum(Uncounted, NumWorkers)
      BY <1>9, DecidedKept
  <2>c. /\ cnt'["rx"] = cnt["rx"] + i
        /\ \A d \in Counters \ {"rx"} : cnt'[d] = cnt[d]
    <3>1. HistType /\ "rx" \in Counters
        BY DEF Types, Counters
    <3> QED BY <1>9, <3>1, Counted
  <2>6. BooksRx'
    <3>0. Seen' = Seen
      <4>1. PICK k \in Int : k = cnt["rx"]
          BY DEF Types, HistType, Counters
      <4>2. (k + i) + c = k + n
          BY <1>c, PipelineAssumption
      <4>3. cnt'["rx"] = k + i /\ rx'.nb_rx = c /\ cnt["rx"] = k /\ rx.nb_rx = n
          BY <1>n, <1>11, <2>c, <4>1
      <4> QED BY <4>2, <4>3 DEF Seen
    <3>1. /\ cnt'["rx_dropped"] = cnt["rx_dropped"] + 0
          /\ cnt'["classified"] = cnt["classified"] + 0
          /\ Len(rx'.bufs) = Len(rx.bufs) + (-1) /\ 0 + 0 + (-1) + 1 = 0
        BY <2>c, <2>1, <2>2 DEF CntType, LensType, Counters
    <3> QED BY <2>4, <3>0, <3>1, RxBalance, Units
  <2>7. BooksWorker' /\ BooksTx' /\ BooksPool' /\ BooksNic'
      BY <1>9, <2>c, <2>5 DEF Books, BooksWorker, BooksTx, BooksPool, BooksNic, Counters
  <2> QED BY <2>6, <2>7 DEF Books
<1> QED BY <1>13, <1>14, <1>15, <1>16, <1>b

LEMMA NextWorker ==
    ASSUME NEW w \in Worker
    PROVE  IF w = NumWorkers - 1 THEN (w + 1) % NumWorkers = 0
                                 ELSE (w + 1) % NumWorkers = w + 1 /\ w + 1 \in Worker
BY PipelineAssumption DEF Worker

(* The counters and the pool after thread t has freed the mbufs S. *)
LEMMA HistUpdate ==
    ASSUME HistType, cnt' \in [Counters -> Nat], arrived' = arrived, nic' \in Seq(Mbuf),
           NEW t \in Freers, NEW S \in SUBSET Mbuf, Free(t, S)
    PROVE  HistType' /\ Frees(freed, freed', t, S)
<1>1. freed' \in [Freers -> SUBSET Mbuf]
    BY DEF HistType, Free
<1>2. Frees(freed, freed', t, S)
    BY DEF Frees, Free, HistType
<1> QED BY <1>1, <1>2 DEF HistType

LEMMA SeqRange == \A s \in Seq(Mbuf) : ToSet(s) \in SUBSET Mbuf
BY DEF ToSet

LEMMA AddedTwo ==
    ASSUME HistType, NEW c \in Counters, NEW d \in Counters, c # d, NEW i \in Nat, NEW j \in Nat,
           cnt' = [cnt EXCEPT ![c] = @ + i, ![d] = @ + j]
    PROVE  cnt' \in [Counters -> Nat]
<1>1. cnt \in [Counters -> Nat] /\ cnt[c] + i \in Nat /\ cnt[d] + j \in Nat
    BY DEF HistType
<1>2. PICK x \in Nat, y \in Nat : x = cnt[c] + i /\ y = cnt[d] + j
    BY <1>1
<1>3. cnt' = [cnt EXCEPT ![c] = x, ![d] = y]
    BY <1>2
<1> QED BY <1>1, <1>3

LEMMA HeadTail ==
    ASSUME NEW b \in Seq(Mbuf), b # << >>
    PROVE  /\ Head(b) \in Mbuf /\ Head(b) = b[1] /\ 1 \in 1 .. Len(b)
           /\ Tail(b) \in Seq(Mbuf) /\ Len(Tail(b)) = Len(b) - 1
OBVIOUS

LEMMA Appended ==
    ASSUME NEW f \in Seq(Mbuf), NEW m \in Mbuf
    PROVE  Append(f, m) \in Seq(Mbuf) /\ Len(Append(f, m)) = Len(f) + 1
OBVIOUS

LEMMA RingUpdate ==
    ASSUME RingType, NEW w \in Worker, NEW s \in Seq(Mbuf), Len(s) <= RingCap,
           ring' = [ring EXCEPT ![w] = s]
    PROVE  RingType' /\ ring'[w] = s /\ \A v \in Worker \ {w} : ring'[v] = ring[v]
<1>1. \A v \in Worker : ring'[v] = IF v = w THEN s ELSE ring[v]
    BY DEF RingType
<1>2. ring' \in [Worker -> Seq(Mbuf)]
    BY DEF RingType
<1> QED BY <1>1, <1>2 DEF RingType

LEMMA StepRxEnqueue ==
    ASSUME Types, Phases, Locals, Ways(places, freed, arrived), Books, RxEnqueue
    PROVE  Types' /\ Phases' /\ Locals' /\ Ways(places', freed', arrived') /\ Books'
<1>0. /\ RxType /\ RingType /\ HistType /\ rx.bufs \in Seq(Mbuf)
      /\ rx.dest \in [Worker -> Seq(Mbuf)] /\ Len(rx.bufs) \in Nat
      /\ \A v \in Worker : rx.dest[v] \in Seq(Mbuf) /\ Len(rx.dest[v]) \in Nat
      /\ rx.next \in Worker
    BY RxFields DEF Types
<1>1. PICK w \in Worker : w = rx.next
    BY <1>0
<1>2. PICK s \in Seq(Mbuf), r \in Seq(Mbuf) : s = rx.dest[w] /\ r = ring[w] /\ Len(r) <= RingCap
    BY <1>0 DEF RingType
<1>3. PICK n \in 0 .. Len(s) : n = Fits(r, s, RingCap) /\ Len(r) + n <= RingCap
    BY <1>2, FitsBound, PipelineAssumption
<1>4. PICK a, k : /\ a = IF w = NumWorkers - 1 THEN "check" ELSE "enqueue"
                  /\ k = (w + 1) % NumWorkers
    OBVIOUS
<1>5. rx.pc = "enqueue" /\ rx.bufs = << >> /\ rx.nb_rx = 0 /\ \A v \in Worker : rx.dest[v] # << >> => w <= v
    BY <1>1 DEF RxEnqueue, Locals, RxLocals
<1>6. /\ IF w = NumWorkers - 1 THEN a = "check" /\ k = 0 ELSE a = "enqueue" /\ k = w + 1
      /\ k \in Worker /\ a \in RxPc
  <2>1. 0 \in Worker
      BY PipelineAssumption DEF Worker
  <2> QED BY <1>4, <2>1, NextWorker DEF RxPc
<1>7. PICK t \in Seq(Mbuf), u \in Seq(Mbuf) :
           t = Take(s, n) /\ Len(t) = n /\ u = Rest(s, n) /\ Len(u) = Len(s) - n
    BY TakeRest
<1>8. /\ ring' = [ring EXCEPT ![w] = r \o t]
      /\ Free("rx", ToSet(u))
      /\ Add("rx_dropped", Len(s) - n)
      /\ UNCHANGED <<force_quit, main, wk, tx_ring, tx, stats, arrived, nic>>
    BY <1>1, <1>2, <1>3, <1>7 DEF RxEnqueue
<1>e. PICK e : e = [rx.dest EXCEPT ![w] = << >>]
    OBVIOUS
<1>9. rx' = [pc |-> a, bufs |-> << >>, nb_rx |-> 0, dest |-> e, next |-> k]
    BY <1>0, <1>1, <1>4, <1>5, <1>e DEF RxEnqueue, RxType, RxRec
<1>10. /\ RxType'
       /\ rx'.pc = a /\ rx'.bufs = << >> /\ rx'.nb_rx = 0 /\ rx'.next = k /\ rx'.dest[w] = << >>
       /\ \A v \in Worker \ {w} : rx'.dest[v] = rx.dest[v]
  <2>1. 0 \in 0 .. Burst /\ << >> \in Seq(Mbuf) /\ Len(<< >>) <= Len(rx.bufs) /\ Len(<< >>) + Len(<< >>) <= Burst
      BY <1>5, PipelineAssumption
  <2>2. PICK z : z = << >>
      OBVIOUS
  <2> QED BY <1>0, <1>6, <1>e, <1>9, <2>1, <2>2, RxUpdate
<1>11. RxLocals'
  <2>1. a # "spread" /\ (a # "enqueue" => k = 0)
      BY <1>6
  <2>2. ASSUME NEW v \in Worker, rx'.dest[v] # << >> PROVE a = "enqueue" /\ k <= v
    <3>1. v # w /\ w <= v
        BY <1>5, <1>10, <2>2
    <3>2. v \in Int /\ w \in Int /\ v <= NumWorkers - 1 /\ NumWorkers \in Int
        BY PipelineAssumption DEF Worker
    <3> QED BY <1>6, <3>1, <3>2
  <2> QED BY <1>10, <2>1, <2>2 DEF RxLocals
<1>12. RingType' /\ ring'[w] = r \o t /\ \A v \in Worker \ {w} : ring'[v] = ring[v]
  <2>1. r \o t \in Seq(Mbuf) /\ Len(r \o t) = Len(r) + Len(t)
      BY Joined DEF Joins
  <2>2. PICK z \in Seq(Mbuf) : z = r \o t
      BY <2>1
  <2>3. Len(z) <= RingCap /\ ring' = [ring EXCEPT ![w] = z]
      BY <1>3, <1>7, <1>8, <2>1, <2>2
  <2> QED BY <1>0, <2>2, <2>3, RingUpdate
<1>13. HistType' /\ Frees(freed, freed', "rx", ToSet(u)) /\ "rx" \in Freers
  <2>1. PICK d \in Nat : d = Len(s) - n
      BY <1>7
  <2>2. nic' \in Seq(Mbuf) /\ "rx" \in Freers /\ "rx_dropped" \in Counters
      BY <1>0, <1>8 DEF HistType, Freers, Counters
  <2>3. cnt' \in [Counters -> Nat]
      BY <1>0, <1>8, <2>1, <2>2, Added
  <2>4. ToSet(u) \in SUBSET Mbuf
      BY SeqRange
  <2> QED BY <1>0, <1>8, <2>2, <2>3, <2>4, HistUpdate
<1>14. Types'
    BY <1>8, <1>10, <1>12, <1>13, Kept DEF Types
<1>15. Locals'
    BY <1>8, <1>11, Kept DEF Locals
<1>16. Phases'
    BY <1>5, <1>8, PhasesKept
<1>17. Ways(places', freed', arrived')
  <2>1. PICK p, q : p = <<"dest", w>> /\ q = <<"ring", w>>
      OBVIOUS
  <2>2. p \in PlaceNames /\ q \in PlaceNames /\ site[q] = site[p]
      BY <2>1, SiteOf DEF PerWorker
  <2>3. rank[q] = rank[p] - 1
      BY <2>1, RankDown
  <2>4. /\ places[p] = s /\ places'[p] = << >>
        /\ places[q] = r /\ places'[q] = r \o t
      BY <1>2, <1>10, <1>12, <2>1, PlacesAt, PlacesNext DEF PlacesNow
  <2>5. ASSUME NEW x \in PlaceNames \ {p, q} PROVE places'[x] = places[x]
    <3>1. \A v \in Worker : x = <<"dest", v>> => rx'.dest[v] = rx.dest[v]
        BY <1>10, <2>1, <2>5
    <3>2. \A v \in Worker : x = <<"ring", v>> => ring'[v] = ring[v]
        BY <1>12, <2>1, <2>5
    <3> QED BY <1>5, <1>8, <1>10, <3>1, <3>2, Unmoved
  <2>6. places \in [PlaceNames -> Seq(Mbuf)] /\ freed \in [Freers -> SUBSET Mbuf]
      BY <1>0, PlacesType DEF HistType
  <2>7. \A i \in 1 .. n : places[p][i].flow \in site[q]
    <3>1. \A i \in 1 .. n : i \in 1 .. Len(s)
        OBVIOUS
    <3> QED BY <2>2, <2>4, <3>1 DEF Ways, Sited
  <2>8. /\ places'[q] = places[q] \o Take(places[p], n)
        /\ Frees(freed, freed', "rx", ToSet(Rest(places[p], n)))
        /\ n \in 0 .. Len(places[p])
      BY <1>7, <1>13, <2>4
  <2>9. Ways(places', freed', arrived)
      BY <1>13, <2>2, <2>3, <2>4, <2>5, <2>6, <2>7, <2>8, WaysSplit
  <2> QED BY <1>8, <2>9
<1>b. Books'
  <2>1. Arrays /\ SumsType /\ CntType /\ CardType
      BY ArraysAt, Numbers
  <2>2. PICK d \in Int : d = Len(s) - n
      BY <1>7
  <2>3. /\ cnt'["rx_dropped"] = cnt["rx_dropped"] + d
        /\ \A c \in Counters \ {"rx_dropped"} : cnt'[c] = cnt[c]
    <3>1. HistType /\ "rx_dropped" \in Counters
        BY <1>0 DEF Counters
    <3> QED BY <1>8, <2>2, <3>1, Counted
  <2>4. Sum(OnTheWay, NumWorkers)' = Sum(OnTheWay, NumWorkers) + (0 - d)
    <3>1. Len(rx'.dest[w]) = 0 /\ Len(ring'[w]) = Len(ring[w]) + n /\ wk' = wk
      <4>1. Len(r \o t) = Len(r) + Len(t)
          BY Joined DEF Joins
      <4> QED BY <1>2, <1>7, <1>8, <1>10, <1>12, <4>1
    <3>2. Len(rx.dest[w]) = n + d /\ n \in Int
        BY <1>2, <2>2
    <3>3. PICK i \in Int : i = 0 - (n + d)
        BY <3>2
    <3>4. /\ Len(rx'.dest[w]) = Len(rx.dest[w]) + i
          /\ Len(wk'[w].bufs) = Len(wk[w].bufs) + 0
      <4>1. 0 = (n + d) + i
          BY <3>2, <3>3
      <4> QED BY <2>1, <3>1, <3>2, <4>1 DEF Arrays
    <3>5. \A v \in Worker \ {w} : /\ rx'.dest[v] = rx.dest[v] /\ ring'[v] = ring[v]
                                  /\ wk'[v].bufs = wk[v].bufs
        BY <1>10, <1>12, <3>1
    <3>d. WayDelta(w, i, n, 0)
        BY <3>1, <3>4, <3>5 DEF WayDelta
    <3>6. Sum(OnTheWay, NumWorkers)' = Sum(OnTheWay, NumWorkers) + (i + n + 0)
        BY <1>14, <3>2, <3>d, WaySum, Units
    <3>7. i + n + 0 = 0 - d
        BY <3>2, <3>3
    <3> QED BY <3>6, <3>7
  <2>5. /\ Sum(Decided, NumWorkers)' = Sum(Decided, NumWorkers)
        /\ Sum(Uncounted, NumWorkers)' = Sum(Uncounted, NumWorkers)
      BY <1>8, DecidedKept
  <2>6. /\ \A v \in Freers : IsFiniteSet(freed'[v])
        /\ \A v \in Freers \ {"rx"} : freed'[v] = freed[v]
        /\ Cardinality(freed'["rx"]) = Cardinality(freed["rx"]) + d
    <3>1. PICK p \in PlaceNames : p = <<"dest", w>>
        BY SiteOf DEF PerWorker
    <3>2. places[p] = s
        BY <1>2, <3>1, PlacesAt DEF PlacesNow
    <3>3. n \in 0 .. Len(places[p]) /\ Frees(freed, freed', "rx", ToSet(Rest(places[p], n)))
        BY <1>7, <1>13, <3>2
    <3> QED BY <1>13, <2>2, <3>2, <3>3, CardFreed
  <2>7. BooksRx'
    <3>0. Seen' = Seen
        BY <1>5, <1>10, <2>3 DEF Seen, Counters
    <3>1. /\ cnt'["classified"] = cnt["classified"] + 0
          /\ Len(rx'.bufs) = Len(rx.bufs) + 0
        BY <1>5, <1>10, <2>1, <2>3 DEF CntType, Counters
    <3>2. PICK i \in Int : i = 0 - d /\ d + 0 + 0 + i = 0
        OBVIOUS
    <3>3. Sum(OnTheWay, NumWorkers)' = Sum(OnTheWay, NumWorkers) + i
        BY <2>4, <3>2
    <3> QED BY <2>3, <3>0, <3>1, <3>2, <3>3, RxBalance, Units
  <2>8. BooksPool'
      BY <2>1, <2>3, <2>6 DEF Books, BooksPool, CntType, CardType, Counters, Freers
  <2>9. BooksWorker' /\ BooksTx' /\ BooksNic'
      BY <1>8, <2>3, <2>5, <2>6 DEF Books, BooksWorker, BooksTx, BooksNic, Counters, Freers
  <2> QED BY <2>7, <2>8, <2>9 DEF Books
<1> QED BY <1>14, <1>15, <1>16, <1>17, <1>b

-----------------------------------------------------------------------------
(* The worker threads.  The record of worker w is replaced. *)
LEMMA WorkerUpdate ==
    ASSUME WorkerType, WorkerLocals, NEW w \in Worker, NEW e \in WorkerRec,
           Len(e.bufs) + Len(e.fwd) <= Burst, wk' = [wk EXCEPT ![w] = e],
           e.bufs # << >> => e.pc = "batch", e.fwd # << >> => e.pc \in {"batch", "count"},
           e.sent # 0 => e.pc = "count"
    PROVE  /\ WorkerType' /\ WorkerLocals' /\ wk'[w] = e
           /\ \A v \in Worker \ {w} : wk'[v] = wk[v]
<1>1. \A v \in Worker : wk'[v] = IF v = w THEN e ELSE wk[v]
    BY DEF WorkerType
<1>2. wk' \in [Worker -> WorkerRec]
    BY DEF WorkerType
<1>3. WorkerType'
    BY <1>1, <1>2 DEF WorkerType
<1>4. WorkerLocals'
    BY <1>1 DEF WorkerLocals
<1> QED BY <1>1, <1>3, <1>4

(* A worker goes from one phase of its loop to the next. *)
LEMMA WorkerTurn ==
    ASSUME Types, Phases, Locals, Ways(places, freed, arrived), Books, NEW w \in Worker,
           wk[w].pc \in {"init", "check"}, NEW a \in {"check", "poll", "exit"},
           wk' = [wk EXCEPT ![w].pc = a],
           UNCHANGED <<force_quit, main, rx, ring, tx_ring, tx, stats, cnt, arrived, nic, freed>>
    PROVE  Types' /\ Phases' /\ Locals' /\ Ways(places', freed', arrived') /\ Books'
<1>0. WorkerType /\ WorkerLocals
    BY DEF Types, Locals
<1>1. PICK r \in WorkerRec : r = wk[w]
    BY <1>0, WorkerFields
<1>2. PICK e : e = [r EXCEPT !.pc = a]
    OBVIOUS
<1>3. wk' = [wk EXCEPT ![w] = e]
    BY <1>0, <1>1, <1>2 DEF WorkerType
<1>4. e \in WorkerRec /\ e.pc = a /\ e.bufs = r.bufs /\ e.fwd = r.fwd /\ e.sent = r.sent
    BY <1>1, <1>2 DEF WorkerRec, WorkerPc
<1>5. r.bufs = << >> /\ r.fwd = << >> /\ r.sent = 0
    BY <1>0, <1>1 DEF WorkerLocals
<1>6. /\ WorkerType' /\ WorkerLocals' /\ wk'[w] = e
      /\ \A v \in Worker \ {w} : wk'[v] = wk[v]
  <2>1. Len(e.bufs) + Len(e.fwd) <= Burst
      BY <1>4, <1>5, PipelineAssumption
  <2>2. /\ e \in WorkerRec
        /\ e.bufs # << >> => e.pc = "batch"
        /\ e.fwd # << >> => e.pc \in {"batch", "count"}
        /\ e.sent # 0 => e.pc = "count"
      BY <1>4, <1>5
  <2> QED BY <1>0, <1>3, <2>1, <2>2, WorkerUpdate, Zenon
<1>7. Types'
    BY <1>6, Kept DEF Types
<1>8. Locals'
    BY <1>6, Kept DEF Locals
<1>9. Phases'
    BY <1>6, PhasesKept
<1>10. Ways(places', freed', arrived')
    BY <1>1, <1>4, <1>6, WaysKept
<1>b. Books'
    BY <1>1, <1>4, <1>6, BooksKept
<1> QED BY <1>7, <1>8, <1>9, <1>10, <1>b

LEMMA StepWInit ==
    ASSUME Types, Phases, Locals, Ways(places, freed, arrived), Books, NEW w \in Worker, WInit(w)
    PROVE  Types' /\ Phases' /\ Locals' /\ Ways(places', freed', arrived') /\ Books'
<1>1. PICK a \in {"check", "poll", "exit"} : wk' = [wk EXCEPT ![w].pc = a]
    BY DEF WInit
<1> QED BY <1>1, WorkerTurn DEF WInit

LEMMA StepWCheck ==
    ASSUME Types, Phases, Locals, Ways(places, freed, arrived), Books, NEW w \in Worker, WCheck(w)
    PROVE  Types' /\ Phases' /\ Locals' /\ Ways(places', freed', arrived') /\ Books'
<1>1. PICK a \in {"check", "poll", "exit"} : wk' = [wk EXCEPT ![w].pc = a]
    BY DEF WCheck
<1> QED BY <1>1, WorkerTurn DEF WCheck

LEMMA StepWDequeue ==
    ASSUME Types, Phases, Locals, Ways(places, freed, arrived), Books, NEW w \in Worker, WDequeue(w)
    PROVE  Types' /\ Phases' /\ Locals' /\ Ways(places', freed', arrived') /\ Books'
<1>0. WorkerType /\ WorkerLocals /\ RingType /\ HistType
    BY DEF Types, Locals
<1>1. wk[w].pc = "poll" /\ wk[w].bufs = << >> /\ wk[w].fwd = << >> /\ wk[w].sent = 0
    BY DEF WDequeue, Locals, WorkerLocals
<1>2. PICK r \in Seq(Mbuf) : r = ring[w] /\ Len(r) <= RingCap
    BY <1>0 DEF RingType
<1>3. PICK n \in 0 .. Len(r) : n = Len(Take(r, Burst)) /\ n <= Burst /\ Take(r, Burst) = Take(r, n)
    BY TakeLen, PipelineAssumption
<1>4. PICK t \in Seq(Mbuf), u \in Seq(Mbuf) :
           t = Take(r, n) /\ Len(t) = n /\ u = Rest(r, n) /\ Len(u) = Len(r) - n
    BY TakeRest
<1>5. PICK a : a = IF r = << >> THEN "check" ELSE "batch"
    OBVIOUS
<1>6. a \in WorkerPc /\ (t # << >> => a = "batch")
  <2>1. r = << >> => Len(r) = 0
      BY EmptyLen
  <2>2. Len(r) = 0 => Len(t) = 0
      BY <1>4
  <2>3. Len(t) = 0 => t = << >>
      BY EmptyLen
  <2> QED BY <1>5, <2>1, <2>2, <2>3 DEF WorkerPc
<1>o. PICK o \in WorkerRec : o = wk[w]
    BY <1>0, WorkerFields
<1>7. PICK e : o = wk[w] /\ e = [o EXCEPT !.pc = a, !.bufs = t]
    BY <1>o
<1>8. /\ wk' = [wk EXCEPT ![w] = e]
      /\ ring' = [ring EXCEPT ![w] = u]
      /\ UNCHANGED <<force_quit, main, rx, tx_ring, tx, stats, cnt, arrived, nic, freed>>
  <2>1. wk' = [wk EXCEPT ![w].pc = a, ![w].bufs = t]
      BY <1>2, <1>3, <1>4, <1>5 DEF WDequeue
  <2>2. wk' = [wk EXCEPT ![w] = e]
      BY <1>0, <1>7, <2>1 DEF WorkerType
  <2> QED BY <1>2, <1>3, <1>4, <2>2 DEF WDequeue
<1>9. e \in WorkerRec /\ e.pc = a /\ e.bufs = t /\ e.fwd = << >> /\ e.sent = 0
    BY <1>1, <1>6, <1>7 DEF WorkerRec
<1>10. /\ WorkerType' /\ WorkerLocals' /\ wk'[w] = e
       /\ \A v \in Worker \ {w} : wk'[v] = wk[v]
  <2>1. Len(e.bufs) + Len(e.fwd) <= Burst
    <3>1. Len(t) + Len(<< >>) <= Burst
        BY <1>3, <1>4, PipelineAssumption
    <3> QED BY <1>9, <3>1
  <2> QED BY <1>0, <1>6, <1>8, <1>9, <2>1, WorkerUpdate
<1>11. RingType' /\ ring'[w] = u /\ \A v \in Worker \ {w} : ring'[v] = ring[v]
  <2>1. Len(u) <= RingCap
      BY <1>2, <1>3, <1>4, PipelineAssumption
  <2> QED BY <1>0, <1>8, <2>1, RingUpdate
<1>12. Types'
    BY <1>8, <1>10, <1>11, Kept DEF Types
<1>13. Locals'
    BY <1>8, <1>10, Kept DEF Locals
<1>14. Phases'
    BY <1>1, <1>8, <1>10, PhasesKept
<1>15. Ways(places', freed', arrived')
  <2>1. PICK p, q : p = <<"ring", w>> /\ q = <<"bufs", w>>
      OBVIOUS
  <2>2. p \in PlaceNames /\ q \in PlaceNames /\ site[q] = site[p]
      BY <2>1, SiteOf DEF PerWorker
  <2>3. rank[q] = rank[p] - 1
      BY <2>1, RankDown
  <2>4. /\ places[p] = r /\ places'[p] = u
        /\ places[q] = << >> /\ places'[q] = t
      BY <1>1, <1>2, <1>9, <1>10, <1>11, <2>1, PlacesAt, PlacesNext DEF PlacesNow
  <2>5. ASSUME NEW x \in PlaceNames \ {p, q} PROVE places'[x] = places[x]
    <3>1. \A v \in Worker : x = <<"ring", v>> => ring'[v] = ring[v]
        BY <1>11, <2>1, <2>5
    <3>2. \A v \in Worker : x = <<"bufs", v>> => wk'[v].bufs = wk[v].bufs
        BY <1>10, <2>1, <2>5
    <3>3. \A v \in Worker : x = <<"fwd", v>> => wk'[v].fwd = wk[v].fwd
        BY <1>1, <1>9, <1>10
    <3> QED BY <1>8, <3>1, <3>2, <3>3, Unmoved
  <2>6. places \in [PlaceNames -> Seq(Mbuf)]
      BY PlacesType
  <2>7. \A i \in 1 .. n : places[p][i].flow \in site[q]
    <3>1. \A i \in 1 .. n : i \in 1 .. Len(r)
        OBVIOUS
    <3> QED BY <2>2, <2>4, <3>1 DEF Ways, Sited
  <2>8. /\ places'[q] = places[q] \o Take(places[p], n)
        /\ places'[p] = Rest(places[p], n)
        /\ n \in 0 .. Len(places[p])
    <3>1. << >> \o t = t
        OBVIOUS
    <3> QED BY <1>4, <2>4, <3>1
  <2>9. Ways(places', freed, arrived)
      BY <2>2, <2>3, <2>5, <2>6, <2>7, <2>8, WaysTake
  <2> QED BY <1>8, <2>9
<1>b. Books'
  <2>1. Arrays /\ SumsType
      BY ArraysAt, Numbers
  <2>2. Sum(OnTheWay, NumWorkers)' = Sum(OnTheWay, NumWorkers)
    <3>1. /\ Len(ring'[w]) = Len(ring[w]) - n /\ n \in Int
          /\ Len(wk'[w].bufs) = n /\ Len(wk[w].bufs) = 0 /\ rx' = rx
        BY <1>1, <1>2, <1>4, <1>8, <1>9, <1>10, <1>11
    <3>2. PICK i \in Int : i = 0 - n /\ 0 + i + n = 0
        BY <3>1
    <3>3. /\ Len(rx'.dest[w]) = Len(rx.dest[w]) + 0 /\ Len(ring'[w]) = Len(ring[w]) + i
          /\ Len(wk'[w].bufs) = Len(wk[w].bufs) + n
      <4>1. PICK l \in Int : l = Len(ring[w])
          BY <2>1 DEF Arrays
      <4>2. l - n = l + i /\ n = 0 + n
          BY <3>1, <3>2
      <4>3. Len(ring'[w]) = Len(ring[w]) + i /\ Len(wk'[w].bufs) = Len(wk[w].bufs) + n
          BY <3>1, <4>1, <4>2
      <4>4. Len(rx'.dest[w]) = Len(rx.dest[w]) + 0
          BY <2>1, <3>1 DEF Arrays
      <4> QED BY <4>3, <4>4
    <3>4. \A v \in Worker \ {w} : /\ rx'.dest[v] = rx.dest[v] /\ ring'[v] = ring[v]
                                  /\ wk'[v].bufs = wk[v].bufs
        BY <1>10, <1>11, <3>1
    <3>d. WayDelta(w, 0, i, n)
        BY <3>3, <3>4 DEF WayDelta
    <3>5. Sum(OnTheWay, NumWorkers)' = Sum(OnTheWay, NumWorkers) + (0 + i + n)
        BY <1>12, <3>1, <3>d, WaySum, Units
    <3> QED BY <2>1, <3>2, <3>5 DEF SumsType
  <2>3. /\ Sum(Decided, NumWorkers)' = Sum(Decided, NumWorkers)
        /\ Sum(Uncounted, NumWorkers)' = Sum(Uncounted, NumWorkers)
      BY <1>1, <1>9, <1>10, DecidedKept
  <2>4. BooksRx' /\ BooksWorker' /\ BooksTx'
      BY <1>8, <2>2, <2>3 DEF Books, BooksRx, Seen, BooksWorker, BooksTx
  <2>5. BooksPool' /\ BooksNic'
      BY <1>8 DEF Books, BooksPool, BooksNic
  <2> QED BY <2>4, <2>5 DEF Books
<1> QED BY <1>12, <1>13, <1>14, <1>15, <1>b

LEMMA StepWDrop ==
    ASSUME Types, Phases, Locals, Ways(places, freed, arrived), Books, NEW w \in Worker, WDrop(w)
    PROVE  Types' /\ Phases' /\ Locals' /\ Ways(places', freed', arrived') /\ Books'
<1>0. WorkerType /\ WorkerLocals /\ HistType
    BY DEF Types, Locals
<1>1. PICK o \in WorkerRec : o = wk[w]
    BY <1>0, WorkerFields
<1>2. PICK b \in Seq(Mbuf), f \in Seq(Mbuf) : b = o.bufs /\ f = o.fwd
    BY RecFields
<1>3. /\ o.pc = "batch" /\ b # << >> /\ o.sent = 0 /\ Len(b) + Len(f) <= Burst
      /\ Len(b) \in Nat /\ Len(f) \in Nat
  <2>1. o.pc = "batch" /\ b # << >> /\ o.sent = 0
      BY <1>0, <1>1, <1>2 DEF WDrop, WorkerLocals
  <2>2. Len(b) + Len(f) <= Burst
      BY <1>0, <1>1, <1>2 DEF WorkerType
  <2> QED BY <2>1, <2>2
<1>4. PICK m \in Mbuf, t \in Seq(Mbuf) : m = Head(b) /\ t = Tail(b) /\ Len(t) = Len(b) - 1
    BY <1>3, HeadTail
<1>5. PICK e : e = [o EXCEPT !.bufs = t]
    OBVIOUS
<1>6. e \in WorkerRec /\ e.pc = "batch" /\ e.bufs = t /\ e.fwd = f /\ e.sent = 0
    BY <1>2, <1>3, <1>5 DEF WorkerRec
<1>7. /\ wk' = [wk EXCEPT ![w] = e] /\ Free("worker", {m})
      /\ cnt' = [cnt EXCEPT !["classified"] = @ + 1, !["dropped"] = @ + 1]
      /\ UNCHANGED <<force_quit, main, rx, ring, tx_ring, tx, stats, arrived, nic>>
  <2>1. wk' = [wk EXCEPT ![w].bufs = t]
      BY <1>1, <1>2, <1>4 DEF WDrop
  <2>2. wk' = [wk EXCEPT ![w] = e]
      BY <1>0, <1>1, <1>5, <2>1 DEF WorkerType
  <2> QED BY <1>1, <1>2, <1>4, <2>2 DEF WDrop
<1>8. /\ WorkerType' /\ WorkerLocals' /\ wk'[w] = e
      /\ \A v \in Worker \ {w} : wk'[v] = wk[v]
  <2>1. Len(t) + Len(f) <= Burst
      BY <1>3, <1>4, PipelineAssumption
  <2> QED BY <1>0, <1>6, <1>7, <2>1, WorkerUpdate
<1>9. HistType' /\ Frees(freed, freed', "worker", {m}) /\ "worker" \in Freers
  <2>1. nic' \in Seq(Mbuf) /\ "worker" \in Freers /\ {m} \in SUBSET Mbuf
      BY <1>0, <1>7 DEF HistType, Freers
  <2>2. cnt' \in [Counters -> Nat]
      BY <1>0, <1>7, AddedTwo DEF Counters
  <2> QED BY <1>0, <1>7, <2>1, <2>2, HistUpdate
<1>10. Types'
    BY <1>7, <1>8, <1>9, Kept DEF Types
<1>11. Locals'
    BY <1>7, <1>8, Kept DEF Locals
<1>12. Phases'
    BY <1>1, <1>3, <1>7, <1>8, PhasesKept
<1>13. Ways(places', freed', arrived')
  <2>1. PICK p \in PlaceNames : p = <<"bufs", w>>
      BY SiteOf DEF PerWorker
  <2>2. places[p] = b /\ places'[p] = t
      BY <1>1, <1>2, <1>6, <1>8, <2>1, PlacesAt, PlacesNext DEF PlacesNow
  <2>3. ASSUME NEW x \in PlaceNames \ {p} PROVE places'[x] = places[x]
    <3>1. \A v \in Worker : x = <<"bufs", v>> => wk'[v].bufs = wk[v].bufs
        BY <1>8, <2>1, <2>3
    <3>2. \A v \in Worker : x = <<"fwd", v>> => wk'[v].fwd = wk[v].fwd
        BY <1>1, <1>2, <1>6, <1>8
    <3> QED BY <1>7, <3>1, <3>2, Unmoved
  <2>4. places \in [PlaceNames -> Seq(Mbuf)] /\ freed \in [Freers -> SUBSET Mbuf]
      BY <1>0, PlacesType DEF HistType
  <2>5. /\ places[p] # << >> /\ places'[p] = Tail(places[p])
        /\ Frees(freed, freed', "worker", {Head(places[p])})
      BY <1>3, <1>4, <1>9, <2>2
  <2>6. Ways(places', freed', arrived)
      BY <1>9, <2>3, <2>4, <2>5, WaysFreeOne
  <2> QED BY <1>7, <2>6
<1>b. Books'
  <2>1. Arrays /\ SumsType /\ LensType /\ CntType /\ CardType
      BY ArraysAt, Numbers
  <2>2. /\ cnt'["classified"] = cnt["classified"] + 1 /\ cnt'["dropped"] = cnt["dropped"] + 1
        /\ \A c \in Counters \ {"classified", "dropped"} : cnt'[c] = cnt[c]
      BY <1>0, <1>7, CountedTwo DEF Counters
  <2>3. Sum(OnTheWay, NumWorkers)' = Sum(OnTheWay, NumWorkers) + (-1)
    <3>1. Len(wk'[w].bufs) = Len(wk[w].bufs) - 1 /\ rx' = rx /\ ring' = ring
        BY <1>1, <1>2, <1>4, <1>6, <1>7, <1>8
    <3>2. /\ Len(rx'.dest[w]) = Len(rx.dest[w]) + 0 /\ Len(ring'[w]) = Len(ring[w]) + 0
          /\ Len(wk'[w].bufs) = Len(wk[w].bufs) + (-1)
        BY <2>1, <3>1 DEF Arrays
    <3>3. \A v \in Worker \ {w} : /\ rx'.dest[v] = rx.dest[v] /\ ring'[v] = ring[v]
                                  /\ wk'[v].bufs = wk[v].bufs
        BY <1>8, <3>1
    <3>d. WayDelta(w, 0, 0, -1)
        BY <3>2, <3>3 DEF WayDelta
    <3>4. Sum(OnTheWay, NumWorkers)' = Sum(OnTheWay, NumWorkers) + (0 + 0 + (-1))
        BY <1>10, <3>d, WaySum, Units
    <3> QED BY <3>4
  <2>4. /\ Sum(Decided, NumWorkers)' = Sum(Decided, NumWorkers)
        /\ Sum(Uncounted, NumWorkers)' = Sum(Uncounted, NumWorkers)
      BY <1>1, <1>2, <1>3, <1>6, <1>8, DecidedKept
  <2>5. /\ freed'["worker"] = freed["worker"] \cup {m}
        /\ \A t2 \in Freers \ {"worker"} : freed'[t2] = freed[t2]
      BY <1>9 DEF Frees
  <2>6. /\ IsFiniteSet(freed'["worker"])
        /\ Cardinality(freed'["worker"]) = Cardinality(freed["worker"]) + 1
    <3>1. PICK p \in PlaceNames : p = <<"bufs", w>>
        BY SiteOf DEF PerWorker
    <3>2. places[p] = b
        BY <1>1, <1>2, <3>1, PlacesAt DEF PlacesNow
    <3>3. 1 \in 1 .. Len(b) /\ m = b[1]
        BY <1>3, <1>4, HeadTail
    <3>4. m \notin freed["worker"]
        BY <1>9, <3>2, <3>3, PlaceDistinct
    <3>5. IsFiniteSet(freed["worker"])
        BY <1>9 DEF Books, BooksPool
    <3> QED BY <2>5, <3>4, <3>5, FS_AddElement
  <2>7. BooksRx'
    <3>0. rx' = rx /\ cnt'["rx"] = cnt["rx"] /\ cnt'["rx_dropped"] = cnt["rx_dropped"]
        BY <1>7, <2>2 DEF Counters
    <3>1. /\ Seen' = Seen /\ cnt'["rx_dropped"] = cnt["rx_dropped"] + 0
          /\ Len(rx'.bufs) = Len(rx.bufs) + 0 /\ 0 + 1 + 0 + (-1) = 0
        BY <2>1, <3>0 DEF Seen, CntType, LensType
    <3> QED BY <2>2, <2>3, <3>1, RxBalance, Units
  <2>8. BooksWorker'
    <3>1. PICK a \in Int, c \in Int, g \in Int, h \in Int :
            /\ a = cnt["classified"] /\ c = cnt["dropped"] /\ g = cnt["forwarded"]
            /\ h = Sum(Decided, NumWorkers)
        BY <2>1 DEF CntType, SumsType
    <3>2. cnt'["forwarded"] = g
        BY <2>2, <3>1 DEF Counters
    <3>3. a = c + g + h
        BY <3>1 DEF Books, BooksWorker
    <3>4. a + 1 = (c + 1) + g + h
        BY <3>3
    <3> QED BY <2>2, <2>4, <3>1, <3>2, <3>4 DEF BooksWorker
  <2>9. BooksPool'
      BY <2>1, <2>2, <2>5, <2>6 DEF Books, BooksPool, CntType, CardType, Counters, Freers
  <2>10. BooksTx' /\ BooksNic'
      BY <1>7, <2>2, <2>4, <2>5 DEF Books, BooksTx, BooksNic, Counters, Freers
  <2> QED BY <2>7, <2>8, <2>9, <2>10 DEF Books
<1> QED BY <1>10, <1>11, <1>12, <1>13, <1>b

LEMMA StepWForward ==
    ASSUME Types, Phases, Locals, Ways(places, freed, arrived), Books, NEW w \in Worker, WForward(w)
    PROVE  Types' /\ Phases' /\ Locals' /\ Ways(places', freed', arrived') /\ Books'
<1>0. WorkerType /\ WorkerLocals /\ HistType
    BY DEF Types, Locals
<1>1. PICK o \in WorkerRec : o = wk[w]
    BY <1>0, WorkerFields
<1>2. PICK b \in Seq(Mbuf), f \in Seq(Mbuf) : b = o.bufs /\ f = o.fwd
    BY RecFields
<1>3. /\ o.pc = "batch" /\ b # << >> /\ o.sent = 0 /\ Len(b) + Len(f) <= Burst
      /\ Len(b) \in Nat /\ Len(f) \in Nat
  <2>1. o.pc = "batch" /\ b # << >> /\ o.sent = 0
      BY <1>0, <1>1, <1>2 DEF WForward, WorkerLocals
  <2>2. Len(b) + Len(f) <= Burst
      BY <1>0, <1>1, <1>2 DEF WorkerType
  <2> QED BY <2>1, <2>2
<1>4. PICK m \in Mbuf, t \in Seq(Mbuf) : m = Head(b) /\ t = Tail(b) /\ Len(t) = Len(b) - 1
    BY <1>3, HeadTail
<1>5. PICK g \in Seq(Mbuf) : g = Append(f, m) /\ Len(g) = Len(f) + 1
    BY Appended
<1>6. PICK e : e = [o EXCEPT !.bufs = t, !.fwd = g]
    OBVIOUS
<1>7. e \in WorkerRec /\ e.pc = "batch" /\ e.bufs = t /\ e.fwd = g /\ e.sent = 0
    BY <1>2, <1>3, <1>6 DEF WorkerRec
<1>8. /\ wk' = [wk EXCEPT ![w] = e] /\ Add("classified", 1)
      /\ UNCHANGED <<force_quit, main, rx, ring, tx_ring, tx, stats, arrived, nic, freed>>
  <2>1. wk' = [wk EXCEPT ![w].bufs = t, ![w].fwd = g]
    <3>1. wk' = [wk EXCEPT ![w].bufs = Tail(wk[w].bufs),
                           ![w].fwd = Append(wk[w].fwd, Head(wk[w].bufs))]
        BY <1>0 DEF WForward, WorkerType
    <3> QED BY <1>1, <1>2, <1>4, <1>5, <3>1
  <2>2. wk' = [wk EXCEPT ![w] = e]
      BY <1>0, <1>1, <1>6, <2>1 DEF WorkerType
  <2> QED BY <2>2 DEF WForward
<1>9. /\ WorkerType' /\ WorkerLocals' /\ wk'[w] = e
      /\ \A v \in Worker \ {w} : wk'[v] = wk[v]
  <2>1. Len(t) + Len(g) <= Burst
      BY <1>3, <1>4, <1>5, PipelineAssumption
  <2> QED BY <1>0, <1>7, <1>8, <2>1, WorkerUpdate
<1>10. HistType'
  <2>1. cnt' \in [Counters -> Nat]
      BY <1>0, <1>8, Added DEF Counters
  <2> QED BY <1>0, <1>8, <2>1 DEF HistType
<1>11. Types'
    BY <1>8, <1>9, <1>10, Kept DEF Types
<1>12. Locals'
    BY <1>8, <1>9, Kept DEF Locals
<1>13. Phases'
    BY <1>1, <1>3, <1>8, <1>9, PhasesKept
<1>14. Ways(places', freed', arrived')
  <2>1. PICK p \in PlaceNames, q \in PlaceNames : p = <<"bufs", w>> /\ q = <<"fwd", w>>
      BY SiteOf DEF PerWorker
  <2>2. site[q] = site[p]
      BY <2>1, SiteOf DEF PerWorker
  <2>3. rank[q] = rank[p] - 1
      BY <2>1, RankDown
  <2>4. places[p] = b /\ places'[p] = t /\ places[q] = f /\ places'[q] = g
      BY <1>1, <1>2, <1>7, <1>9, <2>1, PlacesAt, PlacesNext DEF PlacesNow
  <2>5. ASSUME NEW x \in PlaceNames \ {p, q} PROVE places'[x] = places[x]
    <3>1. \A v \in Worker : x = <<"bufs", v>> => wk'[v].bufs = wk[v].bufs
        BY <1>9, <2>1, <2>5
    <3>2. \A v \in Worker : x = <<"fwd", v>> => wk'[v].fwd = wk[v].fwd
        BY <1>9, <2>1, <2>5
    <3> QED BY <1>8, <3>1, <3>2, Unmoved
  <2>6. places \in [PlaceNames -> Seq(Mbuf)]
      BY PlacesType
  <2>7. Head(places[p]).flow \in site[q] /\ places[p] # << >>
    <3>1. 1 \in 1 .. Len(b) /\ m = b[1]
        BY <1>3, <1>4
    <3> QED BY <1>3, <1>4, <2>2, <2>4, <3>1 DEF Ways, Sited
  <2>8. places'[p] = Tail(places[p]) /\ places'[q] = Append(places[q], Head(places[p]))
      BY <1>4, <1>5, <2>4
  <2>9. Ways(places', freed, arrived)
      BY <2>3, <2>5, <2>6, <2>7, <2>8, WaysNext
  <2> QED BY <1>8, <2>9
<1>b. Books'
  <2>1. Arrays /\ SumsType /\ LensType /\ CntType
      BY ArraysAt, Numbers
  <2>2. /\ cnt'["classified"] = cnt["classified"] + 1
        /\ \A c \in Counters \ {"classified"} : cnt'[c] = cnt[c]
      BY <1>0, <1>8, Counted DEF Counters
  <2>3. Sum(OnTheWay, NumWorkers)' = Sum(OnTheWay, NumWorkers) + (-1)
    <3>1. Len(wk'[w].bufs) = Len(wk[w].bufs) - 1 /\ rx' = rx /\ ring' = ring
        BY <1>1, <1>2, <1>4, <1>7, <1>8, <1>9
    <3>2. /\ Len(rx'.dest[w]) = Len(rx.dest[w]) + 0 /\ Len(ring'[w]) = Len(ring[w]) + 0
          /\ Len(wk'[w].bufs) = Len(wk[w].bufs) + (-1)
        BY <2>1, <3>1 DEF Arrays
    <3>3. \A v \in Worker \ {w} : /\ rx'.dest[v] = rx.dest[v] /\ ring'[v] = ring[v]
                                  /\ wk'[v].bufs = wk[v].bufs
        BY <1>9, <3>1
    <3>d. WayDelta(w, 0, 0, -1)
        BY <3>2, <3>3 DEF WayDelta
    <3>4. Sum(OnTheWay, NumWorkers)' = Sum(OnTheWay, NumWorkers) + (0 + 0 + (-1))
        BY <1>11, <3>d, WaySum, Units
    <3> QED BY <3>4
  <2>4. /\ Sum(Decided, NumWorkers)' = Sum(Decided, NumWorkers) + 1
        /\ Sum(Uncounted, NumWorkers)' = Sum(Uncounted, NumWorkers)
    <3>1. Len(wk'[w].fwd) = Len(wk[w].fwd) + 1 /\ wk[w].sent = 0 /\ wk'[w].sent = 0
        BY <1>1, <1>2, <1>3, <1>5, <1>7, <1>9
    <3>2. /\ Len(wk'[w].fwd) + wk'[w].sent = Len(wk[w].fwd) + wk[w].sent + 1
          /\ wk'[w].sent = wk[w].sent + 0
        BY <2>1, <3>1 DEF Arrays
    <3>3. /\ Sum(Decided, NumWorkers)' = Sum(Decided, NumWorkers) + 1
          /\ Sum(Uncounted, NumWorkers)' = Sum(Uncounted, NumWorkers) + 0
        BY <1>9, <1>11, <3>2, DecidedSum
    <3> QED BY <2>1, <3>3 DEF SumsType
  <2>5. BooksRx'
    <3>1. /\ Seen' = Seen /\ cnt'["rx_dropped"] = cnt["rx_dropped"] + 0
          /\ Len(rx'.bufs) = Len(rx.bufs) + 0 /\ 0 + 1 + 0 + (-1) = 0
        BY <1>8, <2>1, <2>2 DEF Seen, CntType, LensType, Counters
    <3> QED BY <2>2, <2>3, <3>1, RxBalance, Units
  <2>6. BooksWorker'
    <3>1. PICK a \in Int, z \in Int, c \in Int, d \in Int :
              /\ a = cnt["classified"] /\ z = cnt["dropped"] /\ c = cnt["forwarded"]
              /\ d = Sum(Decided, NumWorkers)
        BY <2>1 DEF CntType, SumsType
    <3>2. /\ cnt'["classified"] = a + 1 /\ cnt'["dropped"] = z /\ cnt'["forwarded"] = c
          /\ Sum(Decided, NumWorkers)' = d + 1
        BY <2>2, <2>4, <3>1 DEF Counters
    <3>3. a = z + c + d
        BY <3>1 DEF Books, BooksWorker
    <3>4. a + 1 = z + c + (d + 1)
        BY <3>3
    <3> QED BY <3>2, <3>4 DEF BooksWorker
  <2>7. BooksPool' /\ BooksTx' /\ BooksNic'
      BY <1>8, <2>2, <2>4 DEF Books, BooksPool, BooksTx, BooksNic, Counters
  <2> QED BY <2>5, <2>6, <2>7 DEF Books
<1> QED BY <1>11, <1>12, <1>13, <1>14, <1>b

LEMMA StepWEnqueue ==
    ASSUME Types, Phases, Locals, Ways(places, freed, arrived), Books, NEW w \in Worker, WEnqueue(w)
    PROVE  Types' /\ Phases' /\ Locals' /\ Ways(places', freed', arrived') /\ Books'
<1>0. WorkerType /\ WorkerLocals /\ HistType /\ TxRingType
    BY DEF Types, Locals
<1>1. PICK o \in WorkerRec : o = wk[w]
    BY <1>0, WorkerFields
<1>2. PICK f \in Seq(Mbuf), r \in Seq(Mbuf) : f = o.fwd /\ r = tx_ring /\ Len(r) <= TxCap
    BY <1>0, RecFields DEF TxRingType
<1>3. /\ o.pc = "batch" /\ o.bufs = << >> /\ Len(f) <= Burst /\ Len(f) \in Nat
  <2>1. o.pc = "batch" /\ o.bufs = << >>
      BY <1>1 DEF WEnqueue
  <2>2. Len(o.bufs) + Len(f) <= Burst
      BY <1>0, <1>1, <1>2 DEF WorkerType
  <2>3. Len(<< >>) + Len(f) <= Burst /\ Len(f) \in Nat
      BY <2>1, <2>2
  <2> QED BY <2>1, <2>3
<1>4. PICK n \in 0 .. Len(f) : n = Fits(r, f, TxCap) /\ Len(r) + n <= TxCap
    BY <1>2, FitsBound, PipelineAssumption
<1>5. PICK t \in Seq(Mbuf), u \in Seq(Mbuf) :
           t = Take(f, n) /\ Len(t) = n /\ u = Rest(f, n) /\ Len(u) = Len(f) - n
    BY TakeRest
<1>6. PICK a : a = IF f = << >> THEN "check" ELSE "count"
    OBVIOUS
<1>7. PICK e : e = [o EXCEPT !.pc = a, !.sent = n, !.fwd = u]
    OBVIOUS
<1>8. n \in 0 .. Burst /\ n \in Nat /\ Len(u) \in Nat /\ Len(u) <= Burst
    BY <1>3, <1>5, PipelineAssumption
<1>9. e \in WorkerRec /\ e.pc = a /\ e.bufs = << >> /\ e.fwd = u /\ e.sent = n
    BY <1>3, <1>6, <1>7, <1>8 DEF WorkerRec, WorkerPc
<1>10. (u # << >> => a = "count") /\ (n # 0 => a = "count")
  <2>1. f = << >> => Len(f) = 0
      BY EmptyLen
  <2>2. Len(f) = 0 => n = 0 /\ Len(u) = 0
    <3>1. n <= Len(f)
        OBVIOUS
    <3>2. ASSUME NEW i \in Nat, i <= 0 PROVE i = 0 /\ 0 - i = 0
        BY <3>2
    <3> QED BY <1>5, <1>8, <3>1, <3>2
  <2>3. Len(u) = 0 => u = << >>
      BY EmptyLen
  <2> QED BY <1>6, <2>1, <2>2, <2>3
<1>11. /\ wk' = [wk EXCEPT ![w] = e] /\ tx_ring' = r \o t
       /\ UNCHANGED <<force_quit, main, rx, ring, tx, stats, cnt, arrived, nic, freed>>
  <2>1. wk' = [wk EXCEPT ![w].pc = a, ![w].sent = n, ![w].fwd = u]
    <3>1. wk' = [wk EXCEPT ![w].pc = a, ![w].sent = n, ![w].fwd = Rest(wk[w].fwd, n)]
        BY <1>0, <1>1, <1>2, <1>4, <1>6 DEF WEnqueue, WorkerType
    <3> QED BY <1>1, <1>2, <1>5, <3>1
  <2>2. wk' = [wk EXCEPT ![w] = e]
      BY <1>0, <1>1, <1>7, <2>1 DEF WorkerType
  <2> QED BY <1>1, <1>2, <1>4, <1>5, <2>2 DEF WEnqueue
<1>12. /\ WorkerType' /\ WorkerLocals' /\ wk'[w] = e
       /\ \A v \in Worker \ {w} : wk'[v] = wk[v]
  <2>1. Len(e.bufs) + Len(e.fwd) <= Burst
    <3>1. Len(<< >>) + Len(u) <= Burst
        BY <1>8
    <3> QED BY <1>9, <3>1
  <2>2. /\ e.bufs # << >> => e.pc = "batch"
        /\ e.fwd # << >> => e.pc \in {"batch", "count"}
        /\ e.sent # 0 => e.pc = "count"
      BY <1>9, <1>10
  <2> QED BY <1>0, <1>9, <1>11, <2>1, <2>2, WorkerUpdate
<1>13. TxRingType'
  <2>1. r \o t \in Seq(Mbuf) /\ Len(r \o t) = Len(r) + Len(t)
      BY Joined DEF Joins
  <2> QED BY <1>4, <1>5, <1>11, <2>1 DEF TxRingType
<1>14. Types'
    BY <1>11, <1>12, <1>13, Kept DEF Types
<1>15. Locals'
    BY <1>11, <1>12, Kept DEF Locals
<1>16. Phases'
    BY <1>1, <1>3, <1>11, <1>12, PhasesKept
<1>17. Ways(places', freed', arrived')
  <2>1. PICK p \in PlaceNames, q \in PlaceNames : p = <<"fwd", w>> /\ q = <<"tx_ring", 0>>
      BY SiteOf DEF PerWorker, Single
  <2>2. site[q] = Flow
      BY <2>1, SiteOf DEF Single
  <2>3. rank[q] = rank[p] - 1
      BY <2>1, RankDown
  <2>4. places[p] = f /\ places'[p] = u /\ places[q] = r /\ places'[q] = r \o t
      BY <1>1, <1>2, <1>9, <1>11, <1>12, <2>1, PlacesAt, PlacesNext DEF PlacesNow
  <2>5. ASSUME NEW x \in PlaceNames \ {p, q} PROVE places'[x] = places[x]
    <3>1. \A v \in Worker : x = <<"bufs", v>> => wk'[v].bufs = wk[v].bufs
        BY <1>1, <1>3, <1>9, <1>12
    <3>2. \A v \in Worker : x = <<"fwd", v>> => wk'[v].fwd = wk[v].fwd
        BY <1>12, <2>1, <2>5
    <3> QED BY <1>11, <2>1, <2>5, <3>1, <3>2, Unmoved
  <2>6. places \in [PlaceNames -> Seq(Mbuf)]
      BY PlacesType
  <2>7. \A i \in 1 .. n : places[p][i].flow \in site[q]
    <3>1. \A i \in 1 .. n : f[i] \in Mbuf
        OBVIOUS
    <3> QED BY <2>2, <2>4, <3>1, MbufFields
  <2>8. /\ places'[q] = places[q] \o Take(places[p], n)
        /\ places'[p] = Rest(places[p], n)
        /\ n \in 0 .. Len(places[p])
      BY <1>5, <2>4
  <2>9. Ways(places', freed, arrived)
      BY <2>3, <2>5, <2>6, <2>7, <2>8, WaysTake
  <2> QED BY <1>11, <2>9
<1>b. Books'
  <2>1. Arrays /\ SumsType /\ CntType /\ LensType /\ CardType
      BY ArraysAt, Numbers
  <2>2. Sum(OnTheWay, NumWorkers)' = Sum(OnTheWay, NumWorkers)
      BY <1>1, <1>3, <1>9, <1>11, <1>12, WayKept
  <2>3. /\ Sum(Decided, NumWorkers)' = Sum(Decided, NumWorkers)
        /\ Sum(Uncounted, NumWorkers)' = Sum(Uncounted, NumWorkers) + n
    <3>1. /\ Len(wk'[w].fwd) = Len(wk[w].fwd) - n /\ wk[w].sent = 0 /\ wk'[w].sent = n
          /\ n \in Int
      <4>1. o.sent = 0
          BY <1>0, <1>1, <1>3 DEF WorkerLocals
      <4>2. wk'[w].fwd = u /\ wk'[w].sent = n /\ wk[w].fwd = f /\ wk[w].sent = 0
          BY <1>1, <1>2, <1>9, <1>12, <4>1
      <4> QED BY <1>5, <1>8, <4>2
    <3>2. /\ Len(wk'[w].fwd) + wk'[w].sent = Len(wk[w].fwd) + wk[w].sent + 0
          /\ wk'[w].sent = wk[w].sent + n
        BY <2>1, <3>1 DEF Arrays
    <3>3. /\ Sum(Decided, NumWorkers)' = Sum(Decided, NumWorkers) + 0
          /\ Sum(Uncounted, NumWorkers)' = Sum(Uncounted, NumWorkers) + n
      <4>1. \A v \in Worker \ {w} : wk'[v].fwd = wk[v].fwd /\ wk'[v].sent = wk[v].sent
          BY <1>12, Zenon
      <4>2. n \in Int /\ 0 \in Int
          BY <3>1
      <4> QED BY <1>14, <3>2, <4>1, <4>2, DecidedSum, Zenon
    <3> QED BY <2>1, <3>3 DEF SumsType
  <2>4. Len(tx_ring') = Len(tx_ring) + n
    <3>1. Len(r \o t) = Len(r) + Len(t)
        BY Joined DEF Joins
    <3> QED BY <1>2, <1>5, <1>11, <3>1
  <2>5. BooksTx'
    <3>1. n \in Int
        BY <1>8
    <3>2. /\ cnt'["forwarded"] = cnt["forwarded"] + 0 /\ cnt'["tx"] = cnt["tx"] + 0
          /\ Len(tx'.bufs) = Len(tx.bufs) + 0
          /\ Cardinality(freed'["tx"]) = Cardinality(freed["tx"]) + 0
          /\ 0 + n = n + 0 + 0 + 0
      <4>1. cnt' = cnt /\ tx' = tx /\ freed' = freed
          BY <1>11
      <4>2. /\ cnt["forwarded"] \in Int /\ cnt["tx"] \in Int /\ Len(tx.bufs) \in Int
            /\ Cardinality(freed["tx"]) \in Int
          BY <2>1 DEF CntType, LensType, CardType
      <4>3. 0 + n = n + 0 + 0 + 0
          BY <3>1
      <4> QED BY <4>1, <4>2, <4>3, NothingAdded, Zenon
    <3>9. TxDelta(0, n, n, 0, 0, 0)
        BY <2>3, <2>4, <3>2 DEF TxDelta
    <3> QED BY <3>1, <3>2, <3>9, TxBalance, Units
  <2>6. BooksRx' /\ BooksWorker'
      BY <1>11, <2>2, <2>3 DEF Books, BooksRx, Seen, BooksWorker
  <2>7. BooksPool' /\ BooksNic'
      BY <1>11 DEF Books, BooksPool, BooksNic
  <2> QED BY <2>5, <2>6, <2>7 DEF Books
<1> QED BY <1>14, <1>15, <1>16, <1>17, <1>b

LEMMA StepWCount ==
    ASSUME Types, Phases, Locals, Ways(places, freed, arrived), Books, NEW w \in Worker, WCount(w)
    PROVE  Types' /\ Phases' /\ Locals' /\ Ways(places', freed', arrived') /\ Books'
<1>0. WorkerType /\ WorkerLocals /\ HistType
    BY DEF Types, Locals
<1>1. PICK o \in WorkerRec : o = wk[w]
    BY <1>0, WorkerFields
<1>2. PICK f \in Seq(Mbuf), n \in Nat : f = o.fwd /\ n = o.sent /\ Len(f) \in Nat
    BY RecFields
<1>3. o.pc = "count" /\ o.bufs = << >>
    BY <1>0, <1>1 DEF WCount, WorkerLocals
<1>4. PICK e : e = [o EXCEPT !.pc = "check", !.fwd = << >>, !.sent = 0]
    OBVIOUS
<1>5. e \in WorkerRec /\ e.pc = "check" /\ e.bufs = << >> /\ e.fwd = << >> /\ e.sent = 0
  <2>1. "check" \in WorkerPc /\ << >> \in Seq(Mbuf) /\ 0 \in 0 .. Burst
      BY PipelineAssumption DEF WorkerPc
  <2> QED BY <1>3, <1>4, <2>1 DEF WorkerRec
<1>6. /\ wk' = [wk EXCEPT ![w] = e] /\ Free("worker", ToSet(f))
      /\ cnt' = [cnt EXCEPT !["forwarded"] = @ + n, !["dropped"] = @ + Len(f)]
      /\ UNCHANGED <<force_quit, main, rx, ring, tx_ring, tx, stats, arrived, nic>>
  <2>1. wk' = [wk EXCEPT ![w].pc = "check", ![w].fwd = << >>, ![w].sent = 0]
      BY DEF WCount
  <2>2. wk' = [wk EXCEPT ![w] = e]
      BY <1>0, <1>1, <1>4, <2>1 DEF WorkerType
  <2> QED BY <1>1, <1>2, <2>2 DEF WCount
<1>7. /\ WorkerType' /\ WorkerLocals' /\ wk'[w] = e
      /\ \A v \in Worker \ {w} : wk'[v] = wk[v]
  <2>1. Len(e.bufs) + Len(e.fwd) <= Burst
    <3>1. Len(<< >>) + Len(<< >>) <= Burst
        BY PipelineAssumption
    <3> QED BY <1>5, <3>1
  <2> QED BY <1>0, <1>5, <1>6, <2>1, WorkerUpdate
<1>8. HistType' /\ Frees(freed, freed', "worker", ToSet(f)) /\ "worker" \in Freers
  <2>1. nic' \in Seq(Mbuf) /\ "worker" \in Freers /\ ToSet(f) \in SUBSET Mbuf
      BY <1>0, <1>6, SeqRange DEF HistType, Freers
  <2>2. cnt' \in [Counters -> Nat]
      BY <1>0, <1>2, <1>6, AddedTwo DEF Counters
  <2> QED BY <1>0, <1>6, <2>1, <2>2, HistUpdate
<1>9. Types'
    BY <1>6, <1>7, <1>8, Kept DEF Types
<1>10. Locals'
    BY <1>6, <1>7, Kept DEF Locals
<1>11. Phases'
    BY <1>1, <1>3, <1>6, <1>7, PhasesKept
<1>12. Ways(places', freed', arrived')
  <2>1. PICK p \in PlaceNames : p = <<"fwd", w>>
      BY SiteOf DEF PerWorker
  <2>2. places[p] = f /\ places'[p] = << >>
      BY <1>1, <1>2, <1>5, <1>7, <2>1, PlacesAt, PlacesNext DEF PlacesNow
  <2>3. ASSUME NEW x \in PlaceNames \ {p} PROVE places'[x] = places[x]
    <3>1. \A v \in Worker : x = <<"bufs", v>> => wk'[v].bufs = wk[v].bufs
        BY <1>1, <1>3, <1>5, <1>7
    <3>2. \A v \in Worker : x = <<"fwd", v>> => wk'[v].fwd = wk[v].fwd
        BY <1>7, <2>1, <2>3
    <3> QED BY <1>6, <3>1, <3>2, Unmoved
  <2>4. places \in [PlaceNames -> Seq(Mbuf)] /\ freed \in [Freers -> SUBSET Mbuf]
      BY <1>0, PlacesType DEF HistType
  <2>5. Frees(freed, freed', "worker", ToSet(places[p]))
      BY <1>8, <2>2
  <2>6. Ways(places', freed', arrived)
      BY <1>8, <2>2, <2>3, <2>4, <2>5, WaysFree
  <2> QED BY <1>6, <2>6
<1>b. Books'
  <2>1. Arrays /\ SumsType /\ CntType /\ LensType /\ CardType
      BY ArraysAt, Numbers
  <2>2. PICK k \in Int : k = Len(f)
      BY <1>2
  <2>3. /\ cnt'["forwarded"] = cnt["forwarded"] + n /\ cnt'["dropped"] = cnt["dropped"] + k
        /\ \A c \in Counters \ {"forwarded", "dropped"} : cnt'[c] = cnt[c]
    <3>1. HistType /\ "forwarded" \in Counters /\ "dropped" \in Counters
        BY <1>0 DEF Counters
    <3>2. PICK c \in Counters, d \in Counters : c = "forwarded" /\ d = "dropped"
        BY <3>1
    <3>3. c # d /\ cnt' = [cnt EXCEPT ![c] = @ + n, ![d] = @ + k]
        BY <1>6, <2>2, <3>2
    <3>4. /\ cnt'[c] = cnt[c] + n /\ cnt'[d] = cnt[d] + k
          /\ \A b \in Counters \ {c, d} : cnt'[b] = cnt[b]
        BY <1>0, <3>3, CountedTwo
    <3> QED BY <3>2, <3>4
  <2>4. Sum(OnTheWay, NumWorkers)' = Sum(OnTheWay, NumWorkers)
      BY <1>1, <1>3, <1>5, <1>6, <1>7, WayKept
  <2>5. /\ Sum(Decided, NumWorkers)' = Sum(Decided, NumWorkers) + (0 - (k + n))
        /\ Sum(Uncounted, NumWorkers)' = Sum(Uncounted, NumWorkers) + (0 - n)
    <3>1. /\ Len(wk[w].fwd) = k /\ wk[w].sent = n
          /\ Len(wk'[w].fwd) = 0 /\ wk'[w].sent = 0
        BY <1>1, <1>2, <1>5, <1>7, <2>2
    <3>2. 0 + 0 = k + n + (0 - (k + n)) /\ 0 = n + (0 - n)
        OBVIOUS
    <3>3. PICK i \in Int, j \in Int : i = 0 - (k + n) /\ j = 0 - n
        OBVIOUS
    <3>4. /\ Len(wk'[w].fwd) + wk'[w].sent = Len(wk[w].fwd) + wk[w].sent + i
          /\ wk'[w].sent = wk[w].sent + j
        BY <3>1, <3>2, <3>3
    <3>5. /\ Sum(Decided, NumWorkers)' = Sum(Decided, NumWorkers) + i
          /\ Sum(Uncounted, NumWorkers)' = Sum(Uncounted, NumWorkers) + j
        BY <1>7, <1>9, <3>4, DecidedSum
    <3> QED BY <3>3, <3>5
  <2>6. /\ \A v \in Freers : IsFiniteSet(freed'[v])
        /\ \A v \in Freers \ {"worker"} : freed'[v] = freed[v]
        /\ Cardinality(freed'["worker"]) = Cardinality(freed["worker"]) + k
    <3>1. PICK p \in PlaceNames : p = <<"fwd", w>>
        BY SiteOf DEF PerWorker
    <3>2. places[p] = f
        BY <1>1, <1>2, <3>1, PlacesAt DEF PlacesNow
    <3>3. Rest(f, 0) = f
        BY DEF Rest
    <3>4. 0 \in 0 .. Len(places[p]) /\ Frees(freed, freed', "worker", ToSet(Rest(places[p], 0)))
        BY <1>2, <1>8, <3>2, <3>3
    <3>5. /\ \A v \in Freers : IsFiniteSet(freed'[v])
          /\ \A v \in Freers \ {"worker"} : freed'[v] = freed[v]
          /\ Cardinality(freed'["worker"]) = Cardinality(freed["worker"]) + (Len(places[p]) - 0)
        BY <1>8, <3>4, CardFreed
    <3> QED BY <2>2, <3>2, <3>5
  <2>7. BooksWorker'
    <3>1. PICK a \in Int, b \in Int, c \in Int, d \in Int :
              /\ a = cnt["classified"] /\ b = cnt["dropped"] /\ c = cnt["forwarded"]
              /\ d = Sum(Decided, NumWorkers)
        BY <2>1 DEF CntType, SumsType
    <3>2. /\ cnt'["classified"] = a /\ cnt'["dropped"] = b + k /\ cnt'["forwarded"] = c + n
          /\ Sum(Decided, NumWorkers)' = d + (0 - (k + n))
        BY <2>3, <2>5, <3>1 DEF Counters
    <3>3. a = b + c + d
        BY <3>1 DEF Books, BooksWorker
    <3>4. a = (b + k) + (c + n) + (d + (0 - (k + n)))
        BY <3>3
    <3> QED BY <3>2, <3>4 DEF BooksWorker
  <2>8. BooksTx'
    <3>0. UNCHANGED <<tx_ring, tx>> /\ cnt'["tx"] = cnt["tx"]
        BY <1>6, <2>3 DEF Counters
    <3>1. /\ cnt'["tx"] = cnt["tx"] + 0 /\ Len(tx_ring') = Len(tx_ring) + 0
          /\ Len(tx'.bufs) = Len(tx.bufs) + 0
        BY <2>1, <3>0 DEF CntType, LensType
    <3>2. Cardinality(freed'["tx"]) = Cardinality(freed["tx"]) + 0
        BY <2>1, <2>6 DEF CardType, Freers
    <3>3. PICK j \in Int : j = 0 - n /\ n + j = 0 + 0 + 0 + 0
        OBVIOUS
    <3>9. TxDelta(n, j, 0, 0, 0, 0)
        BY <2>3, <2>5, <3>1, <3>2, <3>3 DEF TxDelta
    <3> QED BY <3>3, <3>9, TxBalance, Units
  <2>9. BooksPool'
      BY <2>1, <2>3, <2>6 DEF Books, BooksPool, CntType, CardType, Counters, Freers
  <2>10. BooksRx' /\ BooksNic'
      BY <1>6, <2>3, <2>4 DEF Books, BooksRx, Seen, BooksNic, Counters
  <2> QED BY <2>7, <2>8, <2>9, <2>10 DEF Books
<1> QED BY <1>9, <1>10, <1>11, <1>12, <1>b

-----------------------------------------------------------------------------
(* The TX thread *)
LEMMA TxUpdate ==
    ASSUME NEW a \in TxPc, NEW b \in Seq(Mbuf), Len(b) <= Burst,
           tx' = [pc |-> a, bufs |-> b], b # << >> => a = "batch"
    PROVE  TxType' /\ TxLocals' /\ tx'.pc = a /\ tx'.bufs = b
<1>1. tx'.pc = a /\ tx'.bufs = b /\ tx' \in [pc : TxPc, bufs : Seq(Mbuf)]
    OBVIOUS
<1> QED BY <1>1 DEF TxType, TxLocals

LEMMA StepTxCheck ==
    ASSUME Types, Phases, Locals, Ways(places, freed, arrived), Books, TxCheck
    PROVE  Types' /\ Phases' /\ Locals' /\ Ways(places', freed', arrived') /\ Books'
<1>1. PICK a \in TxPc : /\ tx' = [tx EXCEPT !.pc = a] /\ tx.pc = "check"
                        /\ UNCHANGED <<force_quit, main, rx, ring, wk, tx_ring, stats, cnt,
                                       arrived, nic, freed>>
    BY DEF TxCheck, TxPc
<1>2. tx.bufs = << >>
    BY <1>1 DEF Locals, TxLocals
<1>3. tx' = [pc |-> a, bufs |-> << >>]
    BY <1>1, <1>2 DEF Types, TxType
<1>4. TxType' /\ TxLocals' /\ tx'.bufs = << >>
  <2>1. << >> \in Seq(Mbuf) /\ Len(<< >>) <= Burst
      BY PipelineAssumption
  <2> QED BY <1>3, <2>1, TxUpdate
<1>5. Types'
    BY <1>1, <1>4, Kept DEF Types
<1>6. Locals'
    BY <1>1, <1>4, Kept DEF Locals
<1>7. Phases'
    BY <1>1, PhasesKept
<1>8. Ways(places', freed', arrived')
    BY <1>1, <1>2, <1>4, WaysKept
<1>b. Books'
    BY <1>1, <1>2, <1>4, BooksKept
<1> QED BY <1>5, <1>6, <1>7, <1>8, <1>b

LEMMA StepTxDequeue ==
    ASSUME Types, Phases, Locals, Ways(places, freed, arrived), Books, TxDequeue
    PROVE  Types' /\ Phases' /\ Locals' /\ Ways(places', freed', arrived') /\ Books'
<1>0. TxType /\ TxRingType
    BY DEF Types
<1>1. tx.pc = "poll" /\ tx.bufs = << >>
    BY DEF TxDequeue, Locals, TxLocals
<1>2. PICK r \in Seq(Mbuf) : r = tx_ring /\ Len(r) <= TxCap
    BY <1>0 DEF TxRingType
<1>3. PICK n \in 0 .. Len(r) : n = Len(Take(r, Burst)) /\ n <= Burst /\ Take(r, Burst) = Take(r, n)
    BY TakeLen, PipelineAssumption
<1>4. PICK t \in Seq(Mbuf), u \in Seq(Mbuf) :
           t = Take(r, n) /\ Len(t) = n /\ u = Rest(r, n) /\ Len(u) = Len(r) - n
    BY TakeRest
<1>5. PICK a : a = IF r = << >> THEN "check" ELSE "batch"
    OBVIOUS
<1>6. a \in TxPc /\ (t # << >> => a = "batch")
  <2>1. r = << >> => Len(r) = 0
      BY EmptyLen
  <2>2. Len(r) = 0 => Len(t) = 0
      BY <1>4
  <2>3. Len(t) = 0 => t = << >>
      BY EmptyLen
  <2> QED BY <1>5, <2>1, <2>2, <2>3 DEF TxPc
<1>7. /\ tx' = [pc |-> a, bufs |-> t] /\ tx_ring' = u
      /\ UNCHANGED <<force_quit, main, rx, ring, wk, stats, cnt, arrived, nic, freed>>
    BY <1>2, <1>3, <1>4, <1>5 DEF TxDequeue
<1>8. TxType' /\ TxLocals' /\ tx'.bufs = t
    BY <1>3, <1>4, <1>6, <1>7, TxUpdate
<1>9. TxRingType'
  <2>1. Len(u) <= TxCap
      BY <1>2, <1>3, <1>4, PipelineAssumption
  <2> QED BY <1>4, <1>7, <2>1 DEF TxRingType
<1>10. Types'
    BY <1>7, <1>8, <1>9, Kept DEF Types
<1>11. Locals'
    BY <1>7, <1>8, Kept DEF Locals
<1>12. Phases'
    BY <1>1, <1>7, PhasesKept
<1>13. Ways(places', freed', arrived')
  <2>1. PICK p \in PlaceNames, q \in PlaceNames : p = <<"tx_ring", 0>> /\ q = <<"tx", 0>>
      BY SiteOf DEF Single
  <2>2. site[q] = Flow
      BY <2>1, SiteOf DEF Single
  <2>3. rank[q] = rank[p] - 1
      BY <2>1, RankDown
  <2>4. places[p] = r /\ places'[p] = u /\ places[q] = << >> /\ places'[q] = t
      BY <1>1, <1>2, <1>7, <1>8, <2>1, PlacesAt, PlacesNext DEF PlacesNow
  <2>5. ASSUME NEW x \in PlaceNames \ {p, q} PROVE places'[x] = places[x]
      BY <1>7, <2>1, <2>5, Unmoved
  <2>6. places \in [PlaceNames -> Seq(Mbuf)]
      BY PlacesType
  <2>7. \A i \in 1 .. n : places[p][i].flow \in site[q]
    <3>1. \A i \in 1 .. n : r[i] \in Mbuf
        OBVIOUS
    <3> QED BY <2>2, <2>4, <3>1, MbufFields
  <2>8. /\ places'[q] = places[q] \o Take(places[p], n)
        /\ places'[p] = Rest(places[p], n)
        /\ n \in 0 .. Len(places[p])
    <3>1. << >> \o t = t
        OBVIOUS
    <3> QED BY <1>4, <2>4, <3>1
  <2>9. Ways(places', freed, arrived)
      BY <2>3, <2>5, <2>6, <2>7, <2>8, WaysTake
  <2> QED BY <1>7, <2>9
<1>b. Books'
  <2>1. SumsType /\ CntType /\ LensType /\ CardType
      BY Numbers
  <2>2. /\ Sum(OnTheWay, NumWorkers)' = Sum(OnTheWay, NumWorkers)
        /\ Sum(Decided, NumWorkers)' = Sum(Decided, NumWorkers)
        /\ Sum(Uncounted, NumWorkers)' = Sum(Uncounted, NumWorkers)
      BY <1>7, WayKept, DecidedKept
  <2>3. /\ Len(tx_ring') = Len(tx_ring) - n /\ n \in Int
        /\ Len(tx.bufs) = 0 /\ Len(tx'.bufs) = n
      BY <1>1, <1>2, <1>4, <1>7, <1>8
  <2>4. BooksTx'
    <3>1. /\ cnt'["forwarded"] = cnt["forwarded"] + 0 /\ cnt'["tx"] = cnt["tx"] + 0
          /\ Cardinality(freed'["tx"]) = Cardinality(freed["tx"]) + 0
        BY <1>7, <2>1 DEF CntType, CardType
    <3>2. PICK k \in Int : k = 0 - n /\ 0 + 0 = k + n + 0 + 0
        BY <2>3
    <3>3. /\ Len(tx_ring') = Len(tx_ring) + k /\ Len(tx'.bufs) = Len(tx.bufs) + n
          /\ Sum(Uncounted, NumWorkers)' = Sum(Uncounted, NumWorkers) + 0
      <4>1. PICK c \in Int, b \in Int : c = Len(tx_ring) /\ b = Sum(Uncounted, NumWorkers)
          BY <2>1 DEF LensType, SumsType
      <4>2. c - n = c + k /\ n = 0 + n /\ b = b + 0
          BY <2>3, <3>2
      <4>3. Sum(Uncounted, NumWorkers)' = Sum(Uncounted, NumWorkers) + 0
          BY <2>2, <4>1, <4>2, Zenon
      <4> QED BY <2>3, <4>1, <4>2, <4>3, Zenon
    <3>9. TxDelta(0, 0, k, n, 0, 0)
        BY <3>1, <3>3 DEF TxDelta
    <3> QED BY <2>3, <3>2, <3>9, TxBalance, Units
  <2>5. BooksRx' /\ BooksWorker'
      BY <1>7, <2>2 DEF Books, BooksRx, Seen, BooksWorker
  <2>6. BooksPool' /\ BooksNic'
      BY <1>7 DEF Books, BooksPool, BooksNic
  <2> QED BY <2>4, <2>5, <2>6 DEF Books
<1> QED BY <1>10, <1>11, <1>12, <1>13, <1>b

LEMMA StepTxBurst ==
    ASSUME Types, Phases, Locals, Ways(places, freed, arrived), Books, NEW n \in 0 .. Burst, TxBurst(n)
    PROVE  Types' /\ Phases' /\ Locals' /\ Ways(places', freed', arrived') /\ Books'
<1>0. TxType /\ HistType
    BY DEF Types
<1>1. PICK s \in Seq(Mbuf), r \in Seq(Mbuf) : s = tx.bufs /\ r = nic /\ n <= Len(s)
    BY <1>0 DEF TxBurst, TxType, HistType
<1>2. n \in 0 .. Len(s) /\ n \in Nat
    BY <1>1, PipelineAssumption
<1>3. PICK t \in Seq(Mbuf), u \in Seq(Mbuf) :
           t = Take(s, n) /\ Len(t) = n /\ u = Rest(s, n) /\ Len(u) = Len(s) - n
    BY <1>2, TakeRest
<1>4. /\ tx.pc = "batch" /\ nic' = r \o t /\ Add("tx", n) /\ Free("tx", ToSet(u))
      /\ tx' = [pc |-> "check", bufs |-> << >>]
      /\ UNCHANGED <<force_quit, main, rx, ring, wk, tx_ring, stats, arrived>>
    BY <1>1, <1>3 DEF TxBurst
<1>5. TxType' /\ TxLocals' /\ tx'.bufs = << >>
  <2>1. << >> \in Seq(Mbuf) /\ Len(<< >>) <= Burst /\ "check" \in TxPc
      BY PipelineAssumption DEF TxPc
  <2> QED BY <1>4, <2>1, TxUpdate
<1>6. HistType' /\ Frees(freed, freed', "tx", ToSet(u)) /\ "tx" \in Freers
  <2>1. nic' \in Seq(Mbuf) /\ "tx" \in Freers /\ "tx" \in Counters /\ ToSet(u) \in SUBSET Mbuf
      BY <1>4, Joined, SeqRange DEF Freers, Counters
  <2>2. cnt' \in [Counters -> Nat]
      BY <1>0, <1>2, <1>4, <2>1, Added
  <2> QED BY <1>0, <1>4, <2>1, <2>2, HistUpdate
<1>7. Types'
    BY <1>4, <1>5, <1>6, Kept DEF Types
<1>8. Locals'
    BY <1>4, <1>5, Kept DEF Locals
<1>9. Phases'
    BY <1>4, PhasesKept
<1>10. Ways(places', freed', arrived')
  <2>1. PICK p \in PlaceNames, q \in PlaceNames : p = <<"tx", 0>> /\ q = <<"nic", 0>>
      BY SiteOf DEF Single
  <2>2. site[q] = Flow
      BY <2>1, SiteOf DEF Single
  <2>3. rank[q] = rank[p] - 1
      BY <2>1, RankDown
  <2>4. places[p] = s /\ places'[p] = << >> /\ places[q] = r /\ places'[q] = r \o t
      BY <1>1, <1>4, <1>5, <2>1, PlacesAt, PlacesNext DEF PlacesNow
  <2>5. ASSUME NEW x \in PlaceNames \ {p, q} PROVE places'[x] = places[x]
      BY <1>4, <2>1, <2>5, Unmoved
  <2>6. places \in [PlaceNames -> Seq(Mbuf)] /\ freed \in [Freers -> SUBSET Mbuf]
      BY <1>0, PlacesType DEF HistType
  <2>7. \A i \in 1 .. n : places[p][i].flow \in site[q]
    <3>1. \A i \in 1 .. n : s[i] \in Mbuf
        BY <1>2
    <3> QED BY <2>2, <2>4, <3>1, MbufFields
  <2>8. /\ places'[q] = places[q] \o Take(places[p], n)
        /\ Frees(freed, freed', "tx", ToSet(Rest(places[p], n)))
        /\ n \in 0 .. Len(places[p])
      BY <1>2, <1>3, <1>6, <2>4
  <2>9. Ways(places', freed', arrived)
      BY <1>6, <2>3, <2>4, <2>5, <2>6, <2>7, <2>8, WaysSplit
  <2> QED BY <1>4, <2>9
<1>b. Books'
  <2>1. SumsType /\ CntType /\ LensType /\ CardType
      BY Numbers
  <2>2. /\ Sum(OnTheWay, NumWorkers)' = Sum(OnTheWay, NumWorkers)
        /\ Sum(Decided, NumWorkers)' = Sum(Decided, NumWorkers)
        /\ Sum(Uncounted, NumWorkers)' = Sum(Uncounted, NumWorkers)
      BY <1>4, WayKept, DecidedKept
  <2>3. PICK d \in Int : d = Len(s) - n
    <3>1. PICK k \in Nat : k = Len(s)
        OBVIOUS
    <3>2. k - n \in Int
        BY <1>2
    <3> QED BY <3>1, <3>2
  <2>4. /\ Len(nic') = Len(nic) + n /\ n \in Int
        /\ Len(tx.bufs) = n + d /\ Len(tx'.bufs) = 0
    <3>1. Len(r \o t) = Len(r) + Len(t)
        BY Joined DEF Joins
    <3> QED BY <1>1, <1>2, <1>3, <1>4, <1>5, <2>3, <3>1
  <2>5. /\ cnt'["tx"] = cnt["tx"] + n
        /\ \A c \in Counters \ {"tx"} : cnt'[c] = cnt[c]
      BY <1>0, <1>4, Counted DEF Counters
  <2>6. /\ \A v \in Freers : IsFiniteSet(freed'[v])
        /\ \A v \in Freers \ {"tx"} : freed'[v] = freed[v]
        /\ Cardinality(freed'["tx"]) = Cardinality(freed["tx"]) + d
    <3>1. PICK p \in PlaceNames : p = <<"tx", 0>>
        BY SiteOf DEF Single
    <3>2. places[p] = s
        BY <1>1, <3>1, PlacesAt DEF PlacesNow
    <3>3. n \in 0 .. Len(places[p]) /\ Frees(freed, freed', "tx", ToSet(Rest(places[p], n)))
        BY <1>2, <1>3, <1>6, <3>2
    <3> QED BY <1>6, <2>3, <3>2, <3>3, CardFreed
  <2>7. BooksTx'
    <3>1. /\ cnt'["forwarded"] = cnt["forwarded"] + 0 /\ Len(tx_ring') = Len(tx_ring) + 0
          /\ Sum(Uncounted, NumWorkers)' = Sum(Uncounted, NumWorkers) + 0
      <4>1. cnt'["forwarded"] = cnt["forwarded"] /\ Len(tx_ring') = Len(tx_ring)
          BY <1>4, <2>5 DEF Counters
      <4>2. /\ cnt["forwarded"] \in Int /\ Len(tx_ring) \in Int
            /\ Sum(Uncounted, NumWorkers) \in Int
          BY <2>1 DEF CntType, LensType, SumsType
      <4> QED BY <2>2, <4>1, <4>2, NothingAdded, Zenon
    <3>2. PICK l \in Int : l = 0 - (n + d) /\ 0 + 0 = 0 + l + n + d
        BY <2>4
    <3>3. Len(tx'.bufs) = Len(tx.bufs) + l
      <4>1. 0 = (n + d) + l
          BY <2>4, <3>2
      <4> QED BY <2>4, <4>1
    <3>9. TxDelta(0, 0, 0, l, n, d)
        BY <2>5, <2>6, <3>1, <3>3 DEF TxDelta
    <3> QED BY <2>4, <3>2, <3>9, TxBalance, Units
  <2>8. BooksPool' /\ BooksNic'
      BY <2>1, <2>4, <2>5, <2>6 DEF Books, BooksPool, BooksNic, LensType, CntType, Counters, Freers
  <2>9. BooksRx' /\ BooksWorker'
      BY <1>4, <2>2, <2>5 DEF Books, BooksRx, Seen, BooksWorker, Counters
  <2> QED BY <2>7, <2>8, <2>9 DEF Books
<1> QED BY <1>7, <1>8, <1>9, <1>10, <1>b

-----------------------------------------------------------------------------
(* The signal handler, the Stats thread and main() *)
LEMMA StepSignal ==
    ASSUME Types, Phases, Locals, Ways(places, freed, arrived), Books, Signal
    PROVE  Types' /\ Phases' /\ Locals' /\ Ways(places', freed', arrived') /\ Books'
<1>1. /\ force_quit' = TRUE
      /\ UNCHANGED <<main, rx, ring, wk, tx_ring, tx, stats, cnt, arrived, nic, freed>>
    BY DEF Signal
<1>2. ControlType'
    BY <1>1 DEF Types, ControlType
<1>3. Types' /\ Locals'
    BY <1>1, <1>2, Kept DEF Types, Locals
<1>4. Phases'
    BY <1>1, PhasesKept
<1>5. Ways(places', freed', arrived')
    BY <1>1, WaysKept
<1>b. Books'
    BY <1>1, BooksKept
<1> QED BY <1>3, <1>4, <1>5, <1>b

LEMMA StepStatsExit ==
    ASSUME Types, Phases, Locals, Ways(places, freed, arrived), Books, StatsExit
    PROVE  Types' /\ Phases' /\ Locals' /\ Ways(places', freed', arrived') /\ Books'
<1>1. /\ stats = "run" /\ stats' = "exit"
      /\ UNCHANGED <<force_quit, main, rx, ring, wk, tx_ring, tx, cnt, arrived, nic, freed>>
    BY DEF StatsExit
<1>2. ControlType'
    BY <1>1 DEF Types, ControlType
<1>3. Types' /\ Locals'
    BY <1>1, <1>2, Kept DEF Types, Locals
<1>4. Phases'
    BY <1>1 DEF Phases, AllExited
<1>5. Ways(places', freed', arrived')
    BY <1>1, WaysKept
<1>b. Books'
    BY <1>1, BooksKept
<1> QED BY <1>3, <1>4, <1>5, <1>b

LEMMA StepLaunchRx ==
    ASSUME Types, Phases, Locals, Ways(places, freed, arrived), Books, LaunchRx
    PROVE  Types' /\ Phases' /\ Locals' /\ Ways(places', freed', arrived') /\ Books'
<1>1. /\ main.pc = "rx" /\ main' = [main EXCEPT !.pc = "workers"]
      /\ rx' = [rx EXCEPT !.pc = "check"]
      /\ UNCHANGED <<force_quit, ring, wk, tx_ring, tx, stats, cnt, arrived, nic, freed>>
    BY DEF LaunchRx
<1>2. rx.pc = "off"
    BY <1>1 DEF Phases
<1>3. /\ rx'.pc = "check" /\ rx'.bufs = rx.bufs /\ rx'.dest = rx.dest /\ rx'.next = rx.next
      /\ rx'.nb_rx = rx.nb_rx /\ rx' \in RxRec
    BY <1>1 DEF Types, RxType, RxRec, RxPc
<1>4. RxType'
    BY <1>3 DEF Types, RxType
<1>5. RxLocals'
    BY <1>2, <1>3 DEF Locals, RxLocals
<1>6. main'.pc = "workers" /\ main'.res = main.res /\ main' \in [pc : MainPc, res : SUBSET Shared]
    BY <1>1 DEF Types, ControlType, MainPc
<1>7. ControlType'
    BY <1>1, <1>6 DEF Types, ControlType
<1>8. Types' /\ Locals'
    BY <1>1, <1>4, <1>5, <1>7, Kept DEF Types, Locals
<1>9. Phases'
    BY <1>1, <1>6 DEF Phases
<1>10. Ways(places', freed', arrived')
    BY <1>1, <1>3, WaysKept
<1>b. Books'
    BY <1>1, <1>3, BooksKept
<1> QED BY <1>8, <1>9, <1>10, <1>b

LEMMA StepLaunchWorker ==
    ASSUME Types, Phases, Locals, Ways(places, freed, arrived), Books, NEW w \in Worker, LaunchWorker(w)
    PROVE  Types' /\ Phases' /\ Locals' /\ Ways(places', freed', arrived') /\ Books'
<1>0. WorkerType /\ WorkerLocals
    BY DEF Types, Locals
<1>1. PICK a \in {"workers", "tx"} :
        /\ main.pc = "workers" /\ wk[w].pc = "off"
        /\ main' = [main EXCEPT !.pc = a]
        /\ wk' = [wk EXCEPT ![w].pc = "init"]
        /\ UNCHANGED <<force_quit, rx, ring, tx_ring, tx, stats, cnt, arrived, nic, freed>>
    BY DEF LaunchWorker
<1>o. PICK o \in WorkerRec : o = wk[w]
    BY <1>0, WorkerFields
<1>2. PICK e : o = wk[w] /\ e = [o EXCEPT !.pc = "init"]
    BY <1>o
<1>3. wk' = [wk EXCEPT ![w] = e]
    BY <1>0, <1>1, <1>2 DEF WorkerType
<1>4. e \in WorkerRec /\ e.pc = "init" /\ e.bufs = o.bufs /\ e.fwd = o.fwd /\ e.sent = o.sent
    BY <1>2 DEF WorkerRec, WorkerPc
<1>5. o.bufs = << >> /\ o.fwd = << >> /\ o.sent = 0
    BY <1>0, <1>1, <1>2 DEF WorkerLocals
<1>6. /\ WorkerType' /\ WorkerLocals' /\ wk'[w] = e
      /\ \A v \in Worker \ {w} : wk'[v] = wk[v]
  <2>1. Len(e.bufs) + Len(e.fwd) <= Burst
      BY <1>4, <1>5, PipelineAssumption
  <2>2. /\ e \in WorkerRec
        /\ e.bufs # << >> => e.pc = "batch"
        /\ e.fwd # << >> => e.pc \in {"batch", "count"}
        /\ e.sent # 0 => e.pc = "count"
      BY <1>4, <1>5
  <2> QED BY <1>0, <1>3, <2>1, <2>2, WorkerUpdate, Zenon
<1>7. main'.pc = a /\ main'.res = main.res /\ main' \in [pc : MainPc, res : SUBSET Shared]
    BY <1>1 DEF Types, ControlType, MainPc
<1>8. ControlType'
    BY <1>1, <1>7 DEF Types, ControlType
<1>9. Types' /\ Locals'
    BY <1>1, <1>6, <1>8, Kept DEF Types, Locals
<1>10. Phases'
    BY <1>1, <1>7 DEF Phases
<1>11. Ways(places', freed', arrived')
    BY <1>1, <1>2, <1>4, <1>6, WaysKept
<1>b. Books'
    BY <1>1, <1>2, <1>4, <1>6, BooksKept
<1> QED BY <1>9, <1>10, <1>11, <1>b

LEMMA StepLaunchTx ==
    ASSUME Types, Phases, Locals, Ways(places, freed, arrived), Books, LaunchTx
    PROVE  Types' /\ Phases' /\ Locals' /\ Ways(places', freed', arrived') /\ Books'
<1>1. /\ main.pc = "tx" /\ main' = [main EXCEPT !.pc = "stats"]
      /\ tx' = [tx EXCEPT !.pc = "check"]
      /\ UNCHANGED <<force_quit, rx, ring, wk, tx_ring, stats, cnt, arrived, nic, freed>>
    BY DEF LaunchTx
<1>2. tx.pc = "off"
    BY <1>1 DEF Phases
<1>3. tx.bufs = << >>
    BY <1>2 DEF Locals, TxLocals
<1>4. tx' = [pc |-> "check", bufs |-> << >>]
    BY <1>1, <1>3 DEF Types, TxType
<1>5. TxType' /\ TxLocals' /\ tx'.bufs = << >>
  <2>1. << >> \in Seq(Mbuf) /\ Len(<< >>) <= Burst /\ "check" \in TxPc
      BY PipelineAssumption DEF TxPc
  <2> QED BY <1>4, <2>1, TxUpdate
<1>6. main'.pc = "stats" /\ main'.res = main.res /\ main' \in [pc : MainPc, res : SUBSET Shared]
    BY <1>1 DEF Types, ControlType, MainPc
<1>7. ControlType'
    BY <1>1, <1>6 DEF Types, ControlType
<1>8. Types' /\ Locals'
    BY <1>1, <1>5, <1>7, Kept DEF Types, Locals
<1>9. Phases'
    BY <1>1, <1>6 DEF Phases
<1>10. Ways(places', freed', arrived')
    BY <1>1, <1>3, <1>5, WaysKept
<1>b. Books'
    BY <1>1, <1>3, <1>5, BooksKept
<1> QED BY <1>8, <1>9, <1>10, <1>b

(* main() goes on, and perhaps starts Stats or frees something. *)
LEMMA MainStep ==
    ASSUME Types, Phases, Locals, Ways(places, freed, arrived), Books, NEW a \in MainPc,
           NEW R \in SUBSET Shared, NEW s \in {"off", "run", "exit"},
           main' = [pc |-> a, res |-> R], stats' = s,
           UNCHANGED <<force_quit, rx, ring, wk, tx_ring, tx, cnt, arrived, nic, freed>>,
           a \notin {"rx", "workers", "tx", "stats"},
           IF a \in {"port", "rings", "rules", "done"} THEN AllExited /\ s = stats ELSE R = Shared
    PROVE  Types' /\ Phases' /\ Locals' /\ Ways(places', freed', arrived') /\ Books'
<1>1. main'.pc = a /\ main'.res = R /\ main' \in [pc : MainPc, res : SUBSET Shared]
    OBVIOUS
<1>2. ControlType'
    BY <1>1 DEF Types, ControlType
<1>3. Types' /\ Locals'
    BY <1>2, Kept DEF Types, Locals
<1>4. Phases'
    BY <1>1 DEF Phases, AllExited
<1>5. Ways(places', freed', arrived')
    BY WaysKept
<1>b. Books'
    BY BooksKept
<1> QED BY <1>3, <1>4, <1>5, <1>b

LEMMA StepMain ==
    ASSUME Types, Phases, Locals, Ways(places, freed, arrived), Books, Main
    PROVE  Types' /\ Phases' /\ Locals' /\ Ways(places', freed', arrived') /\ Books'
<1>0. /\ main.pc \in MainPc /\ main.res \in SUBSET Shared /\ stats \in {"off", "run", "exit"}
      /\ main = [pc |-> main.pc, res |-> main.res]
    BY DEF Types, ControlType
<1>1. CASE LaunchStats
  <2>1. main' = [pc |-> "wait", res |-> main.res] /\ main.res = Shared /\ "wait" \in MainPc
      BY <1>0, <1>1 DEF LaunchStats, Phases, MainPc
  <2> QED BY <1>0, <1>1, <2>1, MainStep DEF LaunchStats
<1>2. CASE Join
  <2>1. main' = [pc |-> "port", res |-> main.res] /\ AllExited /\ "port" \in MainPc
      BY <1>0, <1>2 DEF Join, MainPc
  <2> QED BY <1>0, <1>2, <2>1, MainStep DEF Join
<1>3. ASSUME NEW r \in {"port", "rings", "rules"}, NEW a \in {"rings", "rules", "done"}, Release(r, a)
      PROVE  Types' /\ Phases' /\ Locals' /\ Ways(places', freed', arrived') /\ Books'
  <2>1. /\ main' = [pc |-> a, res |-> main.res \ {r}] /\ AllExited /\ a \in MainPc
        /\ main.res \ {r} \in SUBSET Shared
      BY <1>0, <1>3 DEF Release, Phases, MainPc
  <2>2. UNCHANGED <<force_quit, rx, ring, wk, tx_ring, tx, cnt, arrived, nic, freed, stats>>
      BY <1>3 DEF Release
  <2>3. PICK R \in SUBSET Shared : R = main.res \ {r}
      BY <2>1
  <2> QED BY <1>0, <2>1, <2>2, <2>3, MainStep
<1> QED BY <1>1, <1>2, <1>3, StepLaunchRx, StepLaunchTx, StepLaunchWorker DEF Main

-----------------------------------------------------------------------------
LEMMA InitInv == Init => Types /\ Phases /\ Locals /\ Ways(places, freed, arrived) /\ Books
<1> SUFFICES ASSUME Init PROVE Types /\ Phases /\ Locals /\ Ways(places, freed, arrived) /\ Books
    OBVIOUS
<1>1. Types
    BY TypeInit, TypeParts
<1>2. Phases
    BY DEF Init, Phases
<1>3. Locals
  <2>1. \A w \in Worker : NoShares[w] = << >>
      BY DEF NoShares
  <2>2. RxLocals
      BY <2>1 DEF Init, RxLocals
  <2>3. WorkerLocals /\ TxLocals
      BY DEF Init, WorkerLocals, TxLocals
  <2> QED BY <2>2, <2>3 DEF Locals
<1>4. Ways(places, freed, arrived)
  <2>0. \A w \in Worker : NoShares[w] = << >>
      BY DEF NoShares
  <2>1. ASSUME NEW x \in PlaceNames PROVE places[x] = << >>
    <3>1. CASE \E k \in Single : x = <<k, 0>>
        BY <3>1, PlacesAt DEF Single, PlacesNow, Init
    <3>2. CASE \E k \in PerWorker, w \in Worker : x = <<k, w>>
      <4>1. PICK k \in PerWorker, w \in Worker : x = <<k, w>>
          BY <3>2
      <4>2. /\ places[<<"dest", w>>] = << >> /\ places[<<"ring", w>>] = << >>
            /\ places[<<"bufs", w>>] = << >> /\ places[<<"fwd", w>>] = << >>
          BY <2>0, PlacesAt DEF PlacesNow, Init
      <4> QED BY <4>1, <4>2 DEF PerWorker
    <3> QED BY <3>1, <3>2, PlaceCases
  <2>2. \A x \in PlaceNames : 1 .. Len(places[x]) = {}
      BY <2>1
  <2>3. Sited(PlaceNames, site, places) /\ InOrder(PlaceNames, rank, places)
      BY <2>2 DEF Sited, InOrder
  <2>4. Held(PlaceNames, places) = {}
      BY <2>2 DEF Held
  <2>5. \A t \in Freers : freed[t] = {}
      BY DEF Init
  <2>6. Apart({}, freed)
      BY <2>5 DEF Apart
  <2>7. Exactly({}, freed, arrived)
    <3>1. arrived = << >> /\ 1 .. Len(arrived) = {}
        BY DEF Init
    <3> QED BY <2>5, <3>1 DEF Exactly
  <2> QED BY <2>3, <2>4, <2>6, <2>7 DEF Ways
<1>b. Books
  <2>1. \A w \in Worker : OnTheWay[w] = 0 /\ Decided[w] = 0 /\ Uncounted[w] = 0
    <3>1. \A w \in Worker : /\ rx.dest[w] = << >> /\ ring[w] = << >> /\ wk[w].bufs = << >>
                            /\ wk[w].fwd = << >> /\ wk[w].sent = 0
        BY DEF Init, NoShares
    <3>2. Len(<< >>) + Len(<< >>) + Len(<< >>) = 0 /\ Len(<< >>) + 0 = 0
        OBVIOUS
    <3>3. ASSUME NEW w \in Worker PROVE OnTheWay[w] = 0
      <4>1. OnTheWay[w] = Len(rx.dest[w]) + Len(ring[w]) + Len(wk[w].bufs)
          BY <1>1, ArraysAt DEF Arrays
      <4>2. OnTheWay[w] = Len(<< >>) + Len(<< >>) + Len(<< >>)
          BY <3>1, <4>1
      <4>3. Len(<< >>) = 0
          OBVIOUS
      <4>4. OnTheWay[w] = 0 + 0 + 0
          BY <4>2, <4>3
      <4> QED BY <4>4
    <3>4. \A w \in Worker : Decided[w] = 0 /\ Uncounted[w] = 0
        BY <3>1, <3>2 DEF Decided, Uncounted
    <3> QED BY <3>3, <3>4
  <2>2. NumWorkers \in Nat /\ Worker = 0 .. NumWorkers - 1
      BY PipelineAssumption DEF Worker
  <2>3. /\ Sum(OnTheWay, NumWorkers) = 0 /\ Sum(Decided, NumWorkers) = 0
        /\ Sum(Uncounted, NumWorkers) = 0
      BY <2>1, <2>2, SumZero
  <2>4. \A t \in Freers : freed[t] = {} /\ IsFiniteSet(freed[t]) /\ Cardinality(freed[t]) = 0
      BY FS_EmptySet DEF Init
  <2>5. \A c \in Counters : cnt[c] = 0
      BY DEF Init
  <2>6. rx.nb_rx = 0 /\ Len(rx.bufs) = 0 /\ Len(tx_ring) = 0 /\ Len(tx.bufs) = 0 /\ Len(nic) = 0
      BY DEF Init
  <2>7. BooksRx /\ BooksWorker /\ BooksTx
      BY <2>3, <2>4, <2>5, <2>6 DEF BooksRx, Seen, BooksWorker, BooksTx, Counters, Freers
  <2>8. BooksPool /\ BooksNic
      BY <2>4, <2>5, <2>6 DEF BooksPool, BooksNic, Counters, Freers
  <2> QED BY <2>7, <2>8 DEF Books
<1> QED BY <1>1, <1>2, <1>3, <1>4, <1>b

LEMMA StepInv ==
    ASSUME Types, Phases, Locals, Ways(places, freed, arrived), Books, [Next]_vars
    PROVE  Types' /\ Phases' /\ Locals' /\ Ways(places', freed', arrived') /\ Books'
<1>1. CASE UNCHANGED vars
  <2>1. UNCHANGED <<force_quit, main, rx, ring, wk, tx_ring, tx, stats, cnt, arrived, nic, freed>>
      BY <1>1 DEF vars
  <2>2. Types' /\ Locals'
      BY <2>1, Kept DEF Types, Locals
  <2>3. Phases' /\ Ways(places', freed', arrived') /\ Books'
      BY <2>1, PhasesKept, WaysKept, BooksKept
  <2> QED BY <2>2, <2>3
<1>2. CASE RX
    BY <1>2, StepRxCheck, StepRxPoll, StepRxSpread, StepRxEnqueue DEF RX
<1>3. CASE TX
    BY <1>3, StepTxCheck, StepTxDequeue, StepTxBurst DEF TX
<1>4. CASE \E w \in Worker : WorkerThread(w)
    BY <1>4, StepWInit, StepWCheck, StepWDequeue, StepWDrop, StepWForward, StepWEnqueue,
       StepWCount DEF WorkerThread
<1> QED BY <1>1, <1>2, <1>3, <1>4, StepSignal, StepStatsExit, StepMain DEF Next, Done

(* The inductive invariant of the pipeline, of all its threads together.   *)
THEOREM SpecPipelineInv == Spec => []PipelineInv
<1>1. Init => PipelineInv
    BY InitInv, TypeParts, BooksParts DEF PipelineInv
<1>2. PipelineInv /\ [Next]_vars => PipelineInv'
  <2> SUFFICES ASSUME PipelineInv, [Next]_vars PROVE PipelineInv'
      OBVIOUS
  <2>1. Types /\ Phases /\ Locals /\ Ways(places, freed, arrived) /\ Books
      BY TypeParts, BooksParts DEF PipelineInv
  <2>2. Types' /\ Phases' /\ Locals' /\ Ways(places', freed', arrived') /\ Books'
      BY <2>1, StepInv
  <2>3. TypeOK' /\ (Accounting /\ \A t \in Freers : IsFiniteSet(freed[t]))'
    <3>1. Types' => TypeOK'
        BY TypeParts, PTL
    <3>2. Books' => (Accounting /\ \A t \in Freers : IsFiniteSet(freed[t]))'
        BY BooksParts, PTL
    <3> QED BY <2>2, <3>1, <3>2
  <2> QED BY <2>2, <2>3 DEF PipelineInv
<1> QED BY <1>1, <1>2, PTL DEF Spec

(* Every variable of the pipeline has its type, and no ring and no local   *)
(* array ever holds more than it has room for, for every number of workers *)
(* and every burst and ring size.                                          *)
THEOREM PipelineTypeOK == Spec => []TypeOK
<1>1. PipelineInv => TypeOK
    BY DEF PipelineInv
<1> QED BY <1>1, SpecPipelineInv, PTL

(* main() frees the port, the rings and the rules only when every thread   *)
(* has returned, whenever the signal comes.                                *)
THEOREM PipelineNoUseAfterFree == Spec => []NoUseAfterFree
<1>1. PipelineInv => NoUseAfterFree
  <2>1. Phases => NoUseAfterFree
      BY DEF Phases, NoUseAfterFree, AllExited
  <2> QED BY <2>1 DEF PipelineInv
<1> QED BY <1>1, SpecPipelineInv, PTL

(* The packets of one flow reach the port in the order they came, for      *)
(* every steering of the flows that does not change.                       *)
THEOREM PipelineFlowOrder == Spec => []FlowOrder
<1>1. PipelineInv => FlowOrder
  <2> SUFFICES ASSUME PipelineInv PROVE FlowOrder
      OBVIOUS
  <2>1. PICK p \in PlaceNames : p = <<"nic", 0>>
      BY SiteOf DEF Single
  <2>2. places[p] = nic
      BY <2>1, PlacesAt DEF PlacesNow
  <2>3. InOrder(PlaceNames, rank, places)
      BY DEF PipelineInv, Ways
  <2>4. ASSUME NEW i \in 1 .. Len(nic), NEW j \in 1 .. Len(nic), i < j, nic[i].flow = nic[j].flow
        PROVE  nic[i].no < nic[j].no
      BY <2>2, <2>3, <2>4 DEF InOrder
  <2> QED BY <2>4 DEF FlowOrder
<1> QED BY <1>1, SpecPipelineInv, PTL

LEMMA HoldersAt ==
    ASSUME NEW m, NEW h
    PROVE  h \in Holders(m) <=>
              \E x \in PlaceNames : \E j \in 1 .. Len(places[x]) :
                 places[x][j] = m /\ h = <<x, j>>
<1>1. \A x \in PlaceNames : places[x] = At(x)
    BY DEF places
<1>2. h \in Holders(m) <=>
         \E x \in PlaceNames : \E j \in 1 .. Len(At(x)) : At(x)[j] = m /\ h = <<x, j>>
    BY DEF Holders
<1> QED BY <1>1, <1>2

(* Every mbuf received is in exactly one place, once, or was freed exactly *)
(* once, for every burst size and every ring size: a full ring or a short  *)
(* burst leaks nothing and frees nothing twice.                            *)
THEOREM PipelineOneOwner == Spec => []OneOwner
<1>1. PipelineInv => OneOwner
  <2> SUFFICES ASSUME PipelineInv, NEW i \in 1 .. Len(arrived)
               PROVE  Cardinality(Holders(arrived[i])) + Cardinality(FreedBy(arrived[i])) = 1
      BY DEF OneOwner
  <2>1. PICK m : m = arrived[i]
      OBVIOUS
  <2>2. /\ Sited(PlaceNames, site, places) /\ InOrder(PlaceNames, rank, places)
        /\ Apart(Held(PlaceNames, places), freed)
        /\ Exactly(Held(PlaceNames, places), freed, arrived)
      BY DEF PipelineInv, Ways
  <2>3. /\ Arrangement(PlaceNames, places) /\ Exclusive(PlaceNames, rank, site)
        /\ rank \in [PlaceNames -> Int]
      BY PlacesType, TypeParts, Arranged, RankSite DEF PipelineInv
  <2>4. m \in Held(PlaceNames, places) \/ \E t \in Freers : m \in freed[t]
    <3>1. m \in {arrived[k] : k \in 1 .. Len(arrived)}
        BY <2>1
    <3>2. m \in Held(PlaceNames, places) \cup UNION {freed[t] : t \in Freers}
        BY <2>2, <3>1 DEF Exactly
    <3> QED BY <3>2
  <2>5. CASE m \in Held(PlaceNames, places)
    <3>1. \A t \in Freers : m \notin freed[t]
        BY <2>2, <2>5 DEF Apart
    <3>2. FreedBy(m) = {}
        BY <3>1 DEF FreedBy
    <3>3. PICK x \in PlaceNames, k \in Int : k \in 1 .. Len(places[x]) /\ m = places[x][k]
      <4>1. \A x \in PlaceNames : \A k \in 1 .. Len(places[x]) : k \in Int
          BY <2>3 DEF Arrangement
      <4> QED BY <2>5, <4>1, HeldAt
    <3>4. ASSUME NEW y \in PlaceNames, NEW j \in 1 .. Len(places[y]), places[y][j] = m
          PROVE  y = x /\ j = k
        BY <2>2, <2>3, <3>3, <3>4, Unique
    <3>5. \A h : h \in Holders(m) <=> h = <<x, k>>
        BY <3>3, <3>4, HoldersAt
    <3>6. Holders(m) = {<<x, k>>}
        BY <3>5
    <3>7. Cardinality(Holders(m)) = 1 /\ Cardinality(FreedBy(m)) = 0
        BY <3>2, <3>6, FS_Singleton, FS_EmptySet
    <3> QED BY <2>1, <3>7
  <2>6. CASE \E t \in Freers : m \in freed[t]
    <3>1. PICK t \in Freers : m \in freed[t]
        BY <2>6
    <3>2. m \notin Held(PlaceNames, places) /\ \A u \in Freers : u # t => m \notin freed[u]
        BY <2>2, <3>1 DEF Apart
    <3>3. FreedBy(m) = {t}
        BY <3>1, <3>2 DEF FreedBy
    <3>4. \A h : h \notin Holders(m)
        BY <3>2, HoldersAt, HeldAt
    <3>5. Holders(m) = {}
        BY <3>4
    <3>6. Cardinality(Holders(m)) = 0 /\ Cardinality(FreedBy(m)) = 1
        BY <3>3, <3>5, FS_Singleton, FS_EmptySet
    <3> QED BY <2>1, <3>6
  <2> QED BY <2>4, <2>5, <2>6
<1> QED BY <1>1, SpecPipelineInv, PTL
(* The counters of the run account for every packet, for every number of   *)
(* workers and every size: received, dropped, classified, forwarded, sent. *)
THEOREM PipelineAccounting == Spec => []Accounting
<1>1. PipelineInv => Accounting
    BY DEF PipelineInv
<1> QED BY <1>1, SpecPipelineInv, PTL

=============================================================================
