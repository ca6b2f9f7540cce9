----------------------------- MODULE StatsProofs -----------------------------
(***************************************************************************)
(* What the Stats thread reads without a lock is fresh, charged once, and  *)
(* ends in the right decision: SnapshotFresh, LoadAttributed and           *)
(* DecisionExact for every number of workers and every bound.              *)
(***************************************************************************)
EXTENDS Stats, SumProofs, TLAPS

USE StatsAssumption

AggRec == [l : {RxLcore} \cup (0 .. NumWorkers), k : 1 .. 4, cur : [Field -> Nat], prev : Nat]
ProcRec == [w : 0 .. NumWorkers, j : 1 .. 4, acc : Nat, worker_prev : [Worker -> Nat]]
BalRec == [load : [Worker -> Nat], sum : Nat, max : Nat, max_idx : Worker, min_idx : Worker]
HistRec == [begun : [Field -> Nat], mark : Nat, charged : [Worker -> Nat]]
ThRec == [pc : {"sleep", "aggregate", "workers"}, first : BOOLEAN, elapsed : Nat,
          move : {NoMove} \cup (Worker \X Worker)]

(* The types of the variables. *)
Types == /\ stats_table \in [Lcore -> [Field -> Nat]]
         /\ counting \subseteq Worker
         /\ th \in ThRec
         /\ agg \in AggRec
         /\ proc \in ProcRec
         /\ bal \in BalRec
         /\ hist \in HistRec

(* An lcore never writes the counters of another kind of lcore, and what   *)
(* is counted stays below the bound, so that no counter wraps.             *)
Cells == /\ \A f \in Field : f # "rx" => stats_table[RxLcore][f] = 0
         /\ \A w \in Worker : stats_table[w]["rx"] = 0
         /\ Counted <= MaxCount

(* How many workers aggregate() has read counter f of. *)
Pos == [http |-> 1, https |-> 2, non_dpi |-> 3, no_sni |-> 4]
WField == {"http", "https", "non_dpi", "no_sni"}
ReadOf(f, l, k) == IF l = RxLcore THEN 0 ELSE l + (IF Pos[f] < k THEN 1 ELSE 0)

(* A half-finished sum is no more than what has been read is now, and with *)
(* what is still to be read no less than the whole was at the beginning.   *)
Between(f, n, cur, begun) ==
    /\ cur <= Sum(Column(f), n)
    /\ begun <= cur + (Sum(Column(f), NumWorkers) - Sum(Column(f), n))

Snap == /\ th.pc # "aggregate" => agg.l = RxLcore
        /\ agg.l \in {RxLcore, NumWorkers} => agg.k = 1
        /\ \A f \in WField : Between(f, ReadOf(f, agg.l, agg.k), agg.cur[f], hist.begun[f])
        /\ agg.prev <= stats_table[RxLcore]["rx"]
        /\ agg.l = RxLcore => /\ agg.cur["rx"] = 0
                              /\ hist.begun["rx"] <= stats_table[RxLcore]["rx"]
        /\ agg.l # RxLcore => /\ hist.begun["rx"] <= agg.cur["rx"]
                              /\ agg.prev <= agg.cur["rx"]
                              /\ agg.cur["rx"] <= stats_table[RxLcore]["rx"]

(* The classes of worker w that worker_processed() has loaded before load  *)
(* j, and those it has not.                                                *)
Loaded(w, j) == (IF j > 1 THEN stats_table[w]["http"] ELSE 0)
                + (IF j > 2 THEN stats_table[w]["https"] ELSE 0)
                + (IF j > 3 THEN stats_table[w]["non_dpi"] ELSE 0)
Unloaded(w, j) == (IF j > 1 THEN 0 ELSE stats_table[w]["http"])
                  + (IF j > 2 THEN 0 ELSE stats_table[w]["https"])
                  + (IF j > 3 THEN 0 ELSE stats_table[w]["non_dpi"])

Charge == /\ \A w \in Worker : /\ hist.charged[w] = proc.worker_prev[w]
                               /\ proc.worker_prev[w] <= Processed(w)
          /\ th.pc # "workers" => proc.w = 0 /\ proc.j = 1
          /\ proc.w = NumWorkers => proc.j = 1
          /\ proc.j = 1 => proc.acc = 0
          /\ proc.j > 1 => /\ proc.worker_prev[proc.w] <= hist.mark
                           /\ hist.mark <= proc.acc + Unloaded(proc.w, proc.j)
                           /\ proc.acc <= Loaded(proc.w, proc.j)

(* What is known of the loads of the first n workers. *)
Ranked(b, n) == /\ b.sum = Sum(b.load, n)
                /\ \A v \in Worker : v >= n => b.load[v] = 0
                /\ \A v \in Worker : b.load[v] <= b.max
                /\ b.load[b.max_idx] = b.max
                /\ \A v \in Worker : v < n => b.load[b.min_idx] <= b.load[v]
                /\ IF n = 0 THEN b.min_idx = 0 ELSE b.min_idx < n

Balance == /\ th.pc = "aggregate" => bal = NoBalance
           /\ th.pc = "workers" => Ranked(bal, proc.w)
           /\ th.pc = "sleep" => /\ Ranked(bal, NumWorkers)
                                 /\ th.move = IF Imbalanced(th.elapsed)
                                              THEN <<bal.max_idx, bal.min_idx>> ELSE NoMove

StatsInv == Types /\ Cells /\ Snap /\ Charge /\ Balance

-----------------------------------------------------------------------------
(* The columns of the counters, and their sums. *)
Arrays == /\ \A f \in Field : \A w \in 0 .. NumWorkers - 1 :
                Column(f)[w] = stats_table[w][f] /\ Column(f)[w] \in Nat
          /\ \A f \in Field : \A n \in 0 .. NumWorkers : Sum(Column(f), n) \in Nat
          /\ \A f \in Field : stats_table[RxLcore][f] \in Nat

LEMMA ArraysAt == Types => Arrays
<1> SUFFICES ASSUME Types PROVE Arrays
    OBVIOUS
<1>1. /\ \A f \in Field : \A w \in 0 .. NumWorkers - 1 :
            Column(f)[w] = stats_table[w][f] /\ Column(f)[w] \in Nat
      /\ \A f \in Field : stats_table[RxLcore][f] \in Nat
    BY DEF Types, Column, Worker, Lcore
<1>2. ASSUME NEW f \in Field, NEW n \in 0 .. NumWorkers PROVE Sum(Column(f), n) \in Nat
  <2>1. n \in Nat /\ \A k \in 0 .. n - 1 : Column(f)[k] \in Nat
      BY <1>1
  <2> QED BY <2>1, SumBounds
<1> QED BY <1>1, <1>2 DEF Arrays

(* Counting only: no counter falls, and the Stats thread does nothing. *)
Grown == /\ \A l \in Lcore : \A f \in Field : stats_table[l][f] <= stats_table'[l][f]
         /\ UNCHANGED <<th, agg, proc, bal, hist>>

LEMMA GrownSums ==
    ASSUME Arrays, Arrays', Grown, NEW f \in Field, NEW n \in 0 .. NumWorkers
    PROVE  /\ Sum(Column(f), n) <= Sum(Column(f)', n)
           /\ Sum(Column(f), NumWorkers) - Sum(Column(f), n)
                 <= Sum(Column(f)', NumWorkers) - Sum(Column(f)', n)
<1>1. PICK g, h : g = Column(f) /\ h = Column(f)'
    OBVIOUS
<1>2. \A k \in 0 .. NumWorkers - 1 : g[k] \in Int /\ h[k] \in Int /\ g[k] <= h[k]
  <2>1. \A k \in 0 .. NumWorkers - 1 : g[k] = stats_table[k][f] /\ g[k] \in Nat
      BY <1>1 DEF Arrays
  <2>2. \A k \in 0 .. NumWorkers - 1 : h[k] = stats_table'[k][f] /\ h[k] \in Nat
      BY <1>1 DEF Arrays
  <2>3. \A k \in 0 .. NumWorkers - 1 : stats_table[k][f] <= stats_table'[k][f]
      BY DEF Grown, Lcore, Worker
  <2> QED BY <2>1, <2>2, <2>3
<1>3. n \in Nat /\ NumWorkers \in Nat /\ 0 \in 0 .. n
    OBVIOUS
<1>4. \A k \in 0 .. n - 1 : g[k] \in Int /\ h[k] \in Int /\ g[k] <= h[k]
    BY <1>2
<1>5. Sum(g, n) - Sum(g, 0) <= Sum(h, n) - Sum(h, 0)
    BY <1>3, <1>4, SumGrows
<1>6. Sum(g, NumWorkers) - Sum(g, n) <= Sum(h, NumWorkers) - Sum(h, n)
    BY <1>2, <1>3, SumGrows
<1>7. Sum(g, 0) = 0 /\ Sum(h, 0) = 0
    BY SumZero
<1>8. Sum(g, n) \in Nat /\ Sum(h, n) \in Nat
  <2>1. Sum(Column(f), n) \in Nat
      BY DEF Arrays
  <2>2. Sum(Column(f)', n) \in Nat
      BY DEF Arrays
  <2> QED BY <1>1, <2>1, <2>2
<1>9. Sum(g, n) <= Sum(h, n)
    BY <1>5, <1>7, <1>8
<1> QED BY <1>1, <1>6, <1>9

(* The counters that the totals are made of. *)
LEMMA ProcessedCounted ==
    ASSUME Types, Cells
    PROVE  \A w \in Worker : Processed(w) \in Nat /\ Processed(w) <= MaxCount
<1>1. Arrays
    BY ArraysAt
<1> SUFFICES ASSUME NEW w \in Worker PROVE Processed(w) \in Nat /\ Processed(w) <= MaxCount
    OBVIOUS
<1>2. ASSUME NEW f \in Field
      PROVE  /\ stats_table[w][f] \in Nat /\ Total(f) \in Nat
             /\ stats_table[w][f] <= Total(f)
  <2>1. \A k \in 0 .. NumWorkers - 1 : Column(f)[k] \in Nat
      BY <1>1 DEF Arrays
  <2>2. Sum(Column(f), NumWorkers) \in Nat /\ Column(f)[w] <= Sum(Column(f), NumWorkers)
      BY <2>1, SumBounds DEF Worker
  <2>3. Column(f)[w] = stats_table[w][f] /\ Column(f)[w] \in Nat /\ stats_table[RxLcore][f] \in Nat
      BY <1>1 DEF Arrays, Worker
  <2> QED BY <2>2, <2>3 DEF Total
<1>3. {"rx", "http", "https", "non_dpi"} \subseteq Field
    BY DEF Field
<1>4. PICK a \in Nat, b \in Nat, c \in Nat, r \in Nat :
          a = Total("http") /\ b = Total("https") /\ c = Total("non_dpi") /\ r = Total("rx")
    BY <1>2, <1>3
<1>5. PICK x \in Nat, y \in Nat, z \in Nat :
          /\ x = stats_table[w]["http"] /\ y = stats_table[w]["https"]
          /\ z = stats_table[w]["non_dpi"] /\ x <= a /\ y <= b /\ z <= c
    BY <1>2, <1>3, <1>4
<1>6. r + a + b + c <= MaxCount
    BY <1>4 DEF Cells, Counted
<1> QED BY <1>5, <1>6 DEF Processed

-----------------------------------------------------------------------------
(* The counting lcores. *)
Count(l, f) == stats_table' = [stats_table EXCEPT ![l][f] = @ + 1]

LEMMA CountAt ==
    ASSUME Types, NEW l \in Lcore, NEW f \in Field, Count(l, f)
    PROVE  /\ stats_table' \in [Lcore -> [Field -> Nat]]
           /\ stats_table'[l][f] = stats_table[l][f] + 1
           /\ \A i \in Lcore : \A g \in Field :
                 (i # l \/ g # f) => stats_table'[i][g] = stats_table[i][g]
<1>1. PICK t : t = stats_table /\ t \in [Lcore -> [Field -> Nat]]
    BY DEF Types
<1>2. stats_table' = [t EXCEPT ![l] = [t[l] EXCEPT ![f] = t[l][f] + 1]]
    BY <1>1 DEF Count
<1>3. t[l][f] \in Nat /\ t[l][f] + 1 \in Nat /\ t[l] \in [Field -> Nat]
    BY <1>1
<1>4. PICK e : e = [t[l] EXCEPT ![f] = t[l][f] + 1]
    OBVIOUS
<1>5. /\ e \in [Field -> Nat] /\ e[f] = t[l][f] + 1
      /\ \A g \in Field : g # f => e[g] = t[l][g]
    BY <1>3, <1>4
<1>6. stats_table' = [t EXCEPT ![l] = e]
    BY <1>2, <1>4
<1>7. stats_table' \in [Lcore -> [Field -> Nat]] /\ stats_table'[l] = e
      /\ \A i \in Lcore : i # l => stats_table'[i] = t[i]
    BY <1>1, <1>5, <1>6
<1> QED BY <1>1, <1>5, <1>7

LEMMA CountGrown ==
    ASSUME Types, NEW l \in Lcore, NEW f \in Field, Count(l, f),
           UNCHANGED <<th, agg, proc, bal, hist>>
    PROVE  Grown
<1>1. stats_table \in [Lcore -> [Field -> Nat]]
    BY DEF Types
<1>2. ASSUME NEW i \in Lcore, NEW g \in Field
      PROVE  stats_table[i][g] <= stats_table'[i][g]
  <2>1. PICK a \in Nat : a = stats_table[i][g]
      BY <1>1
  <2>2. stats_table'[i][g] = a \/ stats_table'[i][g] = a + 1
      BY <2>1, CountAt
  <2> QED BY <2>1, <2>2
<1> QED BY <1>2 DEF Grown

(* One more counted: the totals grow by one in all, or not at all. *)
LEMMA CountTotals ==
    ASSUME Types, Types', NEW l \in Lcore, NEW f \in Field, Count(l, f)
    PROVE  /\ Total(f)' = Total(f) + 1
           /\ \A g \in Field : g # f => Total(g)' = Total(g)
<1>0. Arrays /\ Arrays'
    BY ArraysAt, PTL
<1>1. ASSUME NEW g \in Field, g # f PROVE Total(g)' = Total(g)
  <2>1. PICK a, b : a = Column(g) /\ b = Column(g)'
      OBVIOUS
  <2>2. \A k \in 0 .. NumWorkers - 1 : a[k] = stats_table[k][g] /\ b[k] = stats_table'[k][g]
      BY <1>0, <2>1 DEF Arrays
  <2>3. \A k \in 0 .. NumWorkers - 1 : stats_table'[k][g] = stats_table[k][g]
      BY <1>1, CountAt DEF Lcore, Worker
  <2>4. Sum(b, NumWorkers) = Sum(a, NumWorkers)
    <3>1. \A k \in 0 .. NumWorkers - 1 : b[k] = a[k]
        BY <2>2, <2>3
    <3> QED BY <3>1, SumSame
  <2>5. stats_table'[RxLcore][g] = stats_table[RxLcore][g]
      BY <1>1, CountAt DEF Lcore
  <2> QED BY <2>1, <2>4, <2>5 DEF Total
<1>2. Total(f)' = Total(f) + 1
  <2>1. PICK a, b : a = Column(f) /\ b = Column(f)'
      OBVIOUS
  <2>2. \A k \in 0 .. NumWorkers - 1 : /\ a[k] = stats_table[k][f] /\ b[k] = stats_table'[k][f]
                                       /\ a[k] \in Int /\ b[k] \in Int
    <3>1. \A k \in 0 .. NumWorkers - 1 : a[k] = stats_table[k][f] /\ a[k] \in Nat
        BY <1>0, <2>1 DEF Arrays
    <3>2. \A k \in 0 .. NumWorkers - 1 : b[k] = stats_table'[k][f] /\ b[k] \in Nat
        BY <1>0, <2>1 DEF Arrays
    <3> QED BY <3>1, <3>2
  <2>3. PICK x \in Int, y \in Int, u \in Int, v \in Int :
            /\ x = stats_table[RxLcore][f] /\ y = stats_table'[RxLcore][f]
            /\ u = Sum(a, NumWorkers) /\ v = Sum(b, NumWorkers)
    <3>1. stats_table[RxLcore][f] \in Int /\ stats_table'[RxLcore][f] \in Int
        BY <1>0 DEF Arrays
    <3>2. Sum(a, NumWorkers) \in Int /\ Sum(b, NumWorkers) \in Int
        BY <2>2, SumType
    <3> QED BY <3>1, <3>2
  <2>4. CASE l = RxLcore
    <3>1. y = x + 1
        BY <2>3, <2>4, CountAt
    <3>2. \A k \in 0 .. NumWorkers - 1 : b[k] = a[k]
      <4>1. \A k \in 0 .. NumWorkers - 1 : stats_table'[k][f] = stats_table[k][f]
          BY <2>4, CountAt DEF Lcore, Worker, RxLcore
      <4> QED BY <2>2, <4>1
    <3>3. v = u
        BY <2>3, <3>2, SumSame
    <3> QED BY <2>1, <2>3, <3>1, <3>3 DEF Total
  <2>5. CASE l # RxLcore
    <3>1. y = x
        BY <2>3, <2>5, CountAt DEF Lcore
    <3>2. l \in 0 .. NumWorkers - 1
        BY <2>5 DEF Lcore, Worker
    <3>3. b[l] = a[l] + 1 /\ \A k \in 0 .. NumWorkers - 1 : k # l => b[k] = a[k]
      <4>1. \A k \in 0 .. NumWorkers - 1 : k # l => stats_table'[k][f] = stats_table[k][f]
          BY CountAt DEF Lcore, Worker
      <4>2. stats_table'[l][f] = stats_table[l][f] + 1
          BY CountAt
      <4> QED BY <2>2, <3>2, <4>1, <4>2
    <3>4. Sum(b, NumWorkers) = Sum(a, NumWorkers) + (b[l] - a[l])
        BY <2>2, <3>2, <3>3, SumChange
    <3>5. v = u + 1
        BY <2>2, <2>3, <3>2, <3>3, <3>4
    <3> QED BY <2>1, <2>3, <3>1, <3>5 DEF Total
  <2> QED BY <2>4, <2>5
<1> QED BY <1>1, <1>2

(* A counting step keeps the rest of the invariant. *)
LEMMA GrownSnap ==
    ASSUME Types, Types', Snap, Grown
    PROVE  Snap'
<1>0. Arrays /\ Arrays'
    BY ArraysAt, PTL
<1>1. th' = th /\ agg' = agg /\ hist' = hist
    BY DEF Grown
<1>2. PICK x \in Nat, y \in Nat : /\ x = stats_table[RxLcore]["rx"]
                                  /\ y = stats_table'[RxLcore]["rx"] /\ x <= y
  <2>1. stats_table[RxLcore]["rx"] \in Nat
      BY <1>0 DEF Arrays, Field
  <2>2. stats_table'[RxLcore]["rx"] \in Nat
      BY <1>0 DEF Arrays, Field
  <2>3. stats_table[RxLcore]["rx"] <= stats_table'[RxLcore]["rx"]
      BY DEF Grown, Lcore, Field
  <2> QED BY <2>1, <2>2, <2>3
<1>3. agg \in AggRec /\ hist \in HistRec
    BY DEF Types
<1>4. PICK c \in [Field -> Nat], b \in [Field -> Nat], p \in Nat :
          c = agg.cur /\ b = hist.begun /\ p = agg.prev
    BY <1>3 DEF AggRec, HistRec
<1>5. ASSUME NEW f \in WField
      PROVE  Between(f, ReadOf(f, agg.l, agg.k), agg.cur[f], hist.begun[f])'
  <2>1. f \in Field
      BY DEF WField, Field
  <2>2. PICK n : n = ReadOf(f, agg.l, agg.k)
      OBVIOUS
  <2>3. n \in 0 .. NumWorkers
      BY <1>3, <2>2 DEF AggRec, ReadOf, RxLcore, Pos, WField, Snap
  <2>4. Between(f, n, c[f], b[f])
      BY <1>4, <2>2 DEF Snap
  <2>5. /\ Sum(Column(f), n) \in Nat /\ Sum(Column(f), NumWorkers) \in Nat
        /\ Sum(Column(f)', n) \in Nat /\ Sum(Column(f)', NumWorkers) \in Nat
    <3>1. Sum(Column(f), n) \in Nat /\ Sum(Column(f), NumWorkers) \in Nat
        BY <1>0, <2>1, <2>3 DEF Arrays
    <3>2. Sum(Column(f)', n) \in Nat /\ Sum(Column(f)', NumWorkers) \in Nat
        BY <1>0, <2>1, <2>3 DEF Arrays
    <3> QED BY <3>1, <3>2
  <2>6. /\ Sum(Column(f), n) <= Sum(Column(f)', n)
        /\ Sum(Column(f), NumWorkers) - Sum(Column(f), n)
              <= Sum(Column(f)', NumWorkers) - Sum(Column(f)', n)
      BY <1>0, <2>1, <2>3, GrownSums
  <2>7. c[f] <= Sum(Column(f), n) /\ b[f] <= c[f] + (Sum(Column(f), NumWorkers) - Sum(Column(f), n))
      BY <2>4 DEF Between
  <2>8. c[f] \in Nat /\ b[f] \in Nat
      BY <2>1
  <2>9. /\ c[f] <= Sum(Column(f)', n)
        /\ b[f] <= c[f] + (Sum(Column(f)', NumWorkers) - Sum(Column(f)', n))
      BY <2>5, <2>6, <2>7, <2>8
  <2>10. agg'.cur[f] = c[f] /\ hist'.begun[f] = b[f] /\ ReadOf(f, agg'.l, agg'.k) = n
      BY <1>1, <1>4, <2>2
  <2> QED BY <2>9, <2>10 DEF Between
<1>6. /\ p <= y /\ c["rx"] \in Nat /\ b["rx"] \in Nat
      /\ agg.l = RxLcore => c["rx"] = 0 /\ b["rx"] <= y
      /\ agg.l # RxLcore => b["rx"] <= c["rx"] /\ p <= c["rx"] /\ c["rx"] <= y
  <2>1. c["rx"] \in Nat /\ b["rx"] \in Nat
      BY DEF Field
  <2>2. /\ p <= x
        /\ agg.l = RxLcore => c["rx"] = 0 /\ b["rx"] <= x
        /\ agg.l # RxLcore => b["rx"] <= c["rx"] /\ p <= c["rx"] /\ c["rx"] <= x
      BY <1>2, <1>4 DEF Snap
  <2> QED BY <1>2, <2>1, <2>2
<1>7. /\ th'.pc # "aggregate" => agg'.l = RxLcore
      /\ agg'.l \in {RxLcore, NumWorkers} => agg'.k = 1
    BY <1>1 DEF Snap
<1> QED BY <1>1, <1>2, <1>4, <1>5, <1>6, <1>7 DEF Snap

LEMMA GrownCharge ==
    ASSUME Types, Types', Charge, Grown
    PROVE  Charge'
<1>1. th' = th /\ proc' = proc /\ hist' = hist
    BY DEF Grown
<1>2. proc \in ProcRec /\ hist \in HistRec
    BY DEF Types
<1>3. ASSUME NEW w \in Worker
      PROVE  /\ Processed(w) \in Nat /\ Processed(w)' \in Nat /\ Processed(w) <= Processed(w)'
             /\ \A j \in 2 .. 4 : /\ Loaded(w, j) \in Nat /\ Loaded(w, j)' \in Nat
                                  /\ Loaded(w, j) <= Loaded(w, j)'
                                  /\ Unloaded(w, j) \in Nat /\ Unloaded(w, j)' \in Nat
                                  /\ Unloaded(w, j) <= Unloaded(w, j)'
  <2>1. w \in Lcore /\ {"http", "https", "non_dpi"} \subseteq Field
      BY DEF Lcore, Field
  <2>2. PICK a \in Nat, b \in Nat, c \in Nat :
            a = stats_table[w]["http"] /\ b = stats_table[w]["https"] /\ c = stats_table[w]["non_dpi"]
      BY <2>1 DEF Types
  <2>3. PICK x \in Nat, y \in Nat, z \in Nat :
            x = stats_table'[w]["http"] /\ y = stats_table'[w]["https"] /\ z = stats_table'[w]["non_dpi"]
      BY <2>1 DEF Types
  <2>4. a <= x /\ b <= y /\ c <= z
      BY <2>1, <2>2, <2>3 DEF Grown
  <2>5. Processed(w) \in Nat /\ Processed(w)' \in Nat /\ Processed(w) <= Processed(w)'
      BY <2>2, <2>3, <2>4 DEF Processed
  <2>6. ASSUME NEW j \in 2 .. 4
        PROVE  /\ Loaded(w, j) \in Nat /\ Loaded(w, j)' \in Nat
               /\ Loaded(w, j) <= Loaded(w, j)'
               /\ Unloaded(w, j) \in Nat /\ Unloaded(w, j)' \in Nat
               /\ Unloaded(w, j) <= Unloaded(w, j)'
      BY <2>2, <2>3, <2>4 DEF Loaded, Unloaded
  <2> QED BY <2>5, <2>6
<1>4. PICK w \in 0 .. NumWorkers, j \in 1 .. 4, acc \in Nat, pr \in [Worker -> Nat] :
          w = proc.w /\ j = proc.j /\ acc = proc.acc /\ pr = proc.worker_prev
    BY <1>2 DEF ProcRec
<1>5. PICK m \in Nat, ch \in [Worker -> Nat] : m = hist.mark /\ ch = hist.charged
    BY <1>2 DEF HistRec
<1>6. \A v \in Worker : ch[v] = pr[v] /\ pr[v] <= Processed(v)'
  <2>1. \A v \in Worker : ch[v] = pr[v] /\ pr[v] <= Processed(v) /\ pr[v] \in Nat
      BY <1>4, <1>5 DEF Charge
  <2> QED BY <1>3, <2>1
<1>7. j > 1 => pr[w] <= m /\ m <= acc + Unloaded(w, j)' /\ acc <= Loaded(w, j)'
  <2> SUFFICES ASSUME j > 1 PROVE pr[w] <= m /\ m <= acc + Unloaded(w, j)' /\ acc <= Loaded(w, j)'
      OBVIOUS
  <2>1. w \in Worker /\ j \in 2 .. 4
      BY <1>4 DEF Charge, Worker
  <2>2. pr[w] <= m /\ m <= acc + Unloaded(w, j) /\ acc <= Loaded(w, j)
      BY <1>4, <1>5 DEF Charge
  <2>3. /\ Loaded(w, j) \in Nat /\ Loaded(w, j)' \in Nat
        /\ Loaded(w, j) <= Loaded(w, j)'
        /\ Unloaded(w, j) \in Nat /\ Unloaded(w, j)' \in Nat
        /\ Unloaded(w, j) <= Unloaded(w, j)'
      BY <1>3, <2>1
  <2> QED BY <2>2, <2>3
<1>8. /\ th.pc # "workers" => w = 0 /\ j = 1
      /\ w = NumWorkers => j = 1
      /\ j = 1 => acc = 0
    BY <1>4 DEF Charge
<1>9. /\ proc'.w = w /\ proc'.j = j /\ proc'.acc = acc /\ proc'.worker_prev = pr
      /\ hist'.mark = m /\ hist'.charged = ch /\ th'.pc = th.pc
    BY <1>1, <1>4, <1>5
<1> QED BY <1>6, <1>7, <1>8, <1>9 DEF Charge

LEMMA GrownBalance ==
    ASSUME Balance, Grown
    PROVE  Balance'
<1>1. th' = th /\ proc' = proc /\ bal' = bal
    BY DEF Grown
<1> QED BY <1>1, Zenon DEF Balance, Imbalanced

(* stats_add_rx(), stats_count_classified() and stats_count_tls_no_sni(). *)
LEMMA CellsCount ==
    ASSUME Types, Types', Cells, NEW l \in Lcore, NEW f \in Field, Count(l, f),
           f = "no_sni" \/ Counted < MaxCount, l = RxLcore <=> f = "rx"
    PROVE  Cells'
<1>1. /\ \A g \in Field : g # "rx" => stats_table'[RxLcore][g] = 0
      /\ \A w \in Worker : stats_table'[w]["rx"] = 0
  <2>1. ASSUME NEW g \in Field, g # "rx" PROVE stats_table'[RxLcore][g] = 0
    <3>1. RxLcore # l \/ g # f
        BY <2>1
    <3>2. stats_table[RxLcore][g] = 0 /\ RxLcore \in Lcore
        BY <2>1 DEF Cells, Lcore
    <3> QED BY <3>1, <3>2, CountAt
  <2>2. ASSUME NEW w \in Worker PROVE stats_table'[w]["rx"] = 0
    <3>1. w # l \/ "rx" # f
        BY DEF Worker, RxLcore
    <3>2. stats_table[w]["rx"] = 0 /\ w \in Lcore /\ "rx" \in Field
        BY DEF Cells, Lcore, Field
    <3> QED BY <3>1, <3>2, CountAt
  <2> QED BY <2>1, <2>2
<1>2. /\ Total(f)' = Total(f) + 1
      /\ \A g \in Field : g # f => Total(g)' = Total(g)
    BY CountTotals
<1>3. \A g \in Field : Total(g) \in Int
  <2>1. Arrays
      BY ArraysAt
  <2>2. \A g \in Field : stats_table[RxLcore][g] \in Nat /\ Sum(Column(g), NumWorkers) \in Nat
      BY <2>1 DEF Arrays
  <2> QED BY <2>2 DEF Total
<1>4. PICK r \in Int, a \in Int, b \in Int, c \in Int :
          r = Total("rx") /\ a = Total("http") /\ b = Total("https") /\ c = Total("non_dpi")
    BY <1>3 DEF Field
<1>5. PICK u, x, y, z :
          u = Total("rx")' /\ x = Total("http")' /\ y = Total("https")' /\ z = Total("non_dpi")'
    OBVIOUS
<1>6. r + a + b + c <= MaxCount /\ (f = "no_sni" \/ r + a + b + c < MaxCount)
    BY <1>4 DEF Cells, Counted
<1>7. u + x + y + z <= MaxCount
  <2>1. /\ u = IF f = "rx" THEN r + 1 ELSE r
        /\ x = IF f = "http" THEN a + 1 ELSE a
        /\ y = IF f = "https" THEN b + 1 ELSE b
        /\ z = IF f = "non_dpi" THEN c + 1 ELSE c
      BY <1>2, <1>4, <1>5 DEF Field
  <2> QED BY <1>6, <2>1
<1>8. Counted' = u + x + y + z
    BY <1>5 DEF Counted
<1> QED BY <1>1, <1>7, <1>8 DEF Cells

LEMMA CountStep ==
    ASSUME StatsInv, NEW l \in Lcore, NEW f \in Field, Count(l, f),
           f = "no_sni" \/ Counted < MaxCount, l = RxLcore <=> f = "rx",
           counting' \subseteq Worker, UNCHANGED <<th, agg, proc, bal, hist>>
    PROVE  StatsInv'
<1> USE DEF StatsInv
<1>1. Types'
    BY CountAt DEF Types
<1>2. Grown
    BY CountGrown
<1>3. Cells'
    BY <1>1, CellsCount
<1> QED BY <1>1, <1>2, <1>3, GrownSnap, GrownCharge, GrownBalance

LEMMA CountSteps ==
    ASSUME StatsInv
    PROVE  /\ CountRx => StatsInv'
           /\ \A w \in Worker : CountNoSni(w) => StatsInv'
           /\ \A w \in Worker : \A i \in 1 .. 3 : CountClassified(w, Class[i]) => StatsInv'
<1>0. counting \subseteq Worker /\ RxLcore \in Lcore /\ Worker \subseteq Lcore
      /\ \A w \in Worker : w # RxLcore
    BY DEF StatsInv, Types, Lcore, Worker, RxLcore
<1>1. ASSUME CountRx PROVE StatsInv'
  <2>1. "rx" \in Field /\ Count(RxLcore, "rx") /\ Counted < MaxCount
      BY <1>1 DEF CountRx, Count, Field
  <2>2. UNCHANGED <<counting, th, agg, proc, bal, hist>>
      BY <1>1 DEF CountRx
  <2> QED BY <1>0, <2>1, <2>2, CountStep
<1>2. ASSUME NEW w \in Worker, CountNoSni(w) PROVE StatsInv'
  <2>1. "no_sni" \in Field /\ Count(w, "no_sni")
      BY <1>2 DEF CountNoSni, Count, Field
  <2>2. UNCHANGED <<th, agg, proc, bal, hist>> /\ counting' \subseteq Worker
      BY <1>0, <1>2 DEF CountNoSni
  <2> QED BY <1>0, <2>1, <2>2, CountStep
<1>3. ASSUME NEW w \in Worker, NEW i \in 1 .. 3, CountClassified(w, Class[i]) PROVE StatsInv'
  <2>1. PICK f : f = Class[i]
      OBVIOUS
  <2>2. f \in Field /\ f # "rx"
      BY <2>1 DEF Class, Field
  <2>3. Count(w, f) /\ Counted < MaxCount
      BY <1>3, <2>1 DEF CountClassified, Count
  <2>4. UNCHANGED <<th, agg, proc, bal, hist>> /\ counting' \subseteq Worker
      BY <1>0, <1>3 DEF CountClassified
  <2> QED BY <1>0, <2>2, <2>3, <2>4, CountStep
<1> QED BY <1>1, <1>2, <1>3

-----------------------------------------------------------------------------
(* The Stats thread writes no counter. *)
LEMMA CellsKept ==
    ASSUME Cells, stats_table' = stats_table
    PROVE  Cells'
BY Zenon DEF Cells, Counted, Total, Column

LEMMA ColumnKept ==
    ASSUME stats_table' = stats_table, NEW f
    PROVE  Column(f)' = Column(f)
BY DEF Column

LEMMA SnapKept ==
    ASSUME Snap, stats_table' = stats_table, agg' = agg, hist'.begun = hist.begun,
           th'.pc # "aggregate" => agg.l = RxLcore
    PROVE  Snap'
<1>1. ASSUME NEW f \in WField
      PROVE  Between(f, ReadOf(f, agg.l, agg.k), agg.cur[f], hist.begun[f])'
  <2>1. Between(f, ReadOf(f, agg.l, agg.k), agg.cur[f], hist.begun[f])
      BY DEF Snap
  <2>2. Column(f)' = Column(f)
      BY ColumnKept
  <2> QED BY <2>1, <2>2, Zenon DEF Between
<1> QED BY <1>1, Zenon DEF Snap

LEMMA ChargeKept ==
    ASSUME Charge, stats_table' = stats_table, proc' = proc, hist'.mark = hist.mark,
           hist'.charged = hist.charged, th'.pc # "workers" => proc.w = 0 /\ proc.j = 1
    PROVE  Charge'
BY Zenon DEF Charge, Processed, Loaded, Unloaded

(* The sum of no counters. *)
LEMMA NoneRead ==
    ASSUME Types, NEW f \in Field
    PROVE  Sum(Column(f), 0) = 0 /\ Sum(Column(f), NumWorkers) \in Nat
<1>1. Arrays
    BY ArraysAt
<1>2. Sum(Column(f), NumWorkers) \in Nat
    BY <1>1 DEF Arrays
<1> QED BY <1>2, SumZero

LEMMA Totals ==
    ASSUME Types, Cells
    PROVE  /\ \A f \in Field : Total(f) \in Nat
           /\ Total("rx") = stats_table[RxLcore]["rx"]
           /\ \A f \in WField : Total(f) = Sum(Column(f), NumWorkers)
<1>1. Arrays
    BY ArraysAt
<1>2. \A f \in Field : Sum(Column(f), NumWorkers) \in Nat /\ stats_table[RxLcore][f] \in Nat
    BY <1>1 DEF Arrays
<1>3. \A f \in Field : Total(f) \in Nat
    BY <1>2 DEF Total
<1>4. \A k \in 0 .. NumWorkers - 1 : Column("rx")[k] = 0
    BY <1>1 DEF Arrays, Cells, Worker, Field
<1>5. Sum(Column("rx"), NumWorkers) = 0
    BY <1>4, SumZero
<1>6. Total("rx") = stats_table[RxLcore]["rx"]
    BY <1>2, <1>5 DEF Total, Field
<1>7. \A f \in WField : Total(f) = Sum(Column(f), NumWorkers)
  <2>1. \A f \in WField : stats_table[RxLcore][f] = 0 /\ f \in Field
      BY DEF Cells, WField, Field
  <2> QED BY <1>2, <2>1 DEF Total
<1> QED BY <1>3, <1>6, <1>7

LEMMA StartTickStep ==
    ASSUME StatsInv, StartTick
    PROVE  StatsInv'
<1> USE DEF StatsInv
<1>0. /\ stats_table' = stats_table /\ counting' = counting /\ agg' = agg /\ proc' = proc
      /\ bal' = NoBalance /\ th.pc = "sleep"
    BY DEF StartTick
<1>1. th' \in ThRec /\ th'.pc = "aggregate"
  <2>1. th' = [th EXCEPT !.pc = "aggregate", !.first = FALSE, !.move = NoMove] /\ th \in ThRec
      BY DEF StartTick, Types
  <2> QED BY <2>1 DEF ThRec
<1>2. PICK b \in [Field -> Nat] : b = [f \in Field |-> Total(f)]
  <2>1. \A f \in Field : Total(f) \in Nat
      BY Totals
  <2> QED BY <2>1
<1>3. hist' \in HistRec /\ hist'.begun = b /\ hist'.mark = hist.mark /\ hist'.charged = hist.charged
  <2>1. hist' = [hist EXCEPT !.begun = b] /\ hist \in HistRec
      BY <1>2 DEF StartTick, Types
  <2> QED BY <2>1 DEF HistRec
<1>4. NoBalance \in BalRec
    BY DEF NoBalance, BalRec, NoLoad, Worker
<1>5. Types'
    BY <1>0, <1>1, <1>3, <1>4 DEF Types
<1>6. Snap'
  <2>1. agg.l = RxLcore /\ agg.k = 1 /\ agg.cur \in [Field -> Nat]
      BY <1>0 DEF Snap, Types, AggRec
  <2>2. ASSUME NEW f \in WField
        PROVE  Between(f, ReadOf(f, agg.l, agg.k), agg.cur[f], hist.begun[f])'
    <3>1. f \in Field
        BY DEF WField, Field
    <3>2. Between(f, 0, agg.cur[f], hist.begun[f])
        BY <2>1 DEF Snap, ReadOf
    <3>3. PICK n \in Nat : n = Sum(Column(f), NumWorkers)
        BY <3>1, NoneRead
    <3>4. PICK c \in Nat : c = agg.cur[f]
        BY <2>1, <3>1
    <3>5. Sum(Column(f), 0) = 0
        BY <3>1, NoneRead
    <3>6. c = 0
      <4>1. c <= 0
          BY <3>2, <3>4, <3>5 DEF Between
      <4> QED BY <4>1
    <3>7. b[f] = n
        BY <1>2, <3>1, <3>3, Totals
    <3>8. Column(f)' = Column(f)
        BY <1>0, ColumnKept
    <3>9. c <= Sum(Column(f)', 0) /\ b[f] <= c + (Sum(Column(f)', NumWorkers) - Sum(Column(f)', 0))
      <4>1. c <= 0 /\ n <= c + (n - 0)
          BY <3>6
      <4> QED BY <3>3, <3>5, <3>7, <3>8, <4>1
    <3>10. agg'.cur[f] = c /\ hist'.begun[f] = b[f] /\ ReadOf(f, agg'.l, agg'.k) = 0
        BY <1>0, <1>3, <2>1, <3>4 DEF ReadOf
    <3> QED BY <3>9, <3>10 DEF Between
  <2>3. agg.prev <= stats_table[RxLcore]["rx"] /\ agg.cur["rx"] = 0
      BY <2>1 DEF Snap
  <2>4. hist'.begun["rx"] = stats_table[RxLcore]["rx"] /\ stats_table[RxLcore]["rx"] \in Nat
      BY <1>2, <1>3, Totals DEF Field
  <2> QED BY <1>0, <1>1, <2>1, <2>2, <2>3, <2>4 DEF Snap
<1>7. Charge'
  <2>1. proc.w = 0 /\ proc.j = 1
      BY <1>0 DEF Charge
  <2> QED BY <1>0, <1>3, <2>1, ChargeKept
<1>8. Balance'
    BY <1>0, <1>1 DEF Balance
<1>9. Cells'
    BY <1>0, CellsKept
<1> QED BY <1>5, <1>6, <1>7, <1>8, <1>9

(* One load of a worker's counter f, the k-th of its counters. *)
LEMMA ReadNext ==
    ASSUME NEW l \in 0 .. NumWorkers - 1, NEW k \in 1 .. 4, NEW f \in WField, NEW g \in WField,
           f = Order[k]
    PROVE  /\ ReadOf(g, IF k = 4 THEN l + 1 ELSE l, IF k = 4 THEN 1 ELSE k + 1)
                 = IF g = f THEN l + 1 ELSE ReadOf(g, l, k)
           /\ ReadOf(f, l, k) = l
<1>1. Pos[f] = k
    BY DEF Order, Pos, WField
<1>2. Pos[g] \in 1 .. 4 /\ (Pos[g] = Pos[f] <=> g = f)
    BY DEF Pos, WField
<1>3. l # RxLcore /\ l + 1 # RxLcore
    BY DEF RxLcore
<1> QED BY <1>1, <1>2, <1>3 DEF ReadOf

LEMMA AggregateStep ==
    ASSUME StatsInv, Aggregate
    PROVE  StatsInv'
<1> USE DEF StatsInv
<1>0. /\ stats_table' = stats_table /\ counting' = counting /\ th' = th /\ proc' = proc
      /\ bal' = bal /\ hist' = hist /\ th.pc = "aggregate" /\ agg.l < NumWorkers
    BY DEF Aggregate
<1>1. PICK o \in AggRec : o = agg
    BY DEF Types
<1>2. PICK l \in {RxLcore} \cup (0 .. NumWorkers - 1), k \in 1 .. 4, c \in [Field -> Nat], p \in Nat :
          l = o.l /\ k = o.k /\ c = o.cur /\ p = o.prev
    BY <1>0, <1>1 DEF AggRec, RxLcore
<1>3. PICK n \in 1 .. 4 : n = Len(FieldsOf(l))
    BY DEF FieldsOf, Order
<1>4. l = RxLcore => k = 1
    BY <1>1, <1>2 DEF Snap
<1>5. PICK f \in Field : /\ f = FieldsOf(l)[k]
                         /\ l = RxLcore => f = "rx"
                         /\ l # RxLcore => f \in WField /\ f = Order[k]
    BY <1>4 DEF FieldsOf, Order, Field, WField
<1>6. PICK v \in Nat : v = stats_table[l][f]
    BY DEF Types, Lcore, Worker
<1>7. PICK e, d : /\ d = [c EXCEPT ![f] = c[f] + v]
                  /\ e = [o EXCEPT !.cur = d, !.l = IF k = n THEN l + 1 ELSE l,
                                   !.k = IF k = n THEN 1 ELSE k + 1]
    OBVIOUS
<1>8. agg' = e
  <2>1. agg' = [o EXCEPT !.cur[f] = o.cur[f] + stats_table[l][f],
                         !.l = IF k = n THEN o.l + 1 ELSE o.l,
                         !.k = IF k = n THEN 1 ELSE o.k + 1]
      BY <1>1, <1>2, <1>3, <1>5 DEF Aggregate
  <2> QED BY <1>2, <1>6, <1>7, <2>1
<1>9. d \in [Field -> Nat] /\ d[f] = c[f] + v /\ \A g \in Field \ {f} : d[g] = c[g]
    BY <1>7
<1>10. n = IF l = RxLcore THEN 1 ELSE 4
    BY <1>3 DEF FieldsOf, Order
<1>11. /\ e \in AggRec /\ e.cur = d /\ e.prev = p
       /\ e.l = (IF k = n THEN l + 1 ELSE l) /\ e.k = (IF k = n THEN 1 ELSE k + 1)
  <2>1. /\ (IF k = n THEN l + 1 ELSE l) \in {RxLcore} \cup (0 .. NumWorkers)
        /\ (IF k = n THEN 1 ELSE k + 1) \in 1 .. 4
      BY <1>4, <1>10 DEF RxLcore
  <2> QED BY <1>2, <1>7, <1>9, <2>1 DEF AggRec
<1>12. Types'
    BY <1>0, <1>8, <1>11 DEF Types
<1>13. PICK b \in [Field -> Nat] : b = hist.begun
    BY DEF Types, HistRec
<1>14. /\ \A g \in WField : Between(g, ReadOf(g, l, k), c[g], b[g])
       /\ p <= stats_table[RxLcore]["rx"]
       /\ l = RxLcore => c["rx"] = 0 /\ b["rx"] <= stats_table[RxLcore]["rx"]
       /\ l # RxLcore => b["rx"] <= c["rx"] /\ p <= c["rx"] /\ c["rx"] <= stats_table[RxLcore]["rx"]
    BY <1>1, <1>2, <1>13 DEF Snap
<1>15. \A g \in WField : Between(g, ReadOf(g, e.l, e.k), d[g], b[g])
  <2> SUFFICES ASSUME NEW g \in WField PROVE Between(g, ReadOf(g, e.l, e.k), d[g], b[g])
      OBVIOUS
  <2>0. g \in Field /\ g # "rx"
      BY DEF WField, Field
  <2>1. CASE l = RxLcore
    <3>1. e.l = 0 /\ e.k = 1 /\ d[g] = c[g]
        BY <1>4, <1>5, <1>9, <1>10, <1>11, <2>0, <2>1 DEF RxLcore
    <3>2. ReadOf(g, e.l, e.k) = 0 /\ ReadOf(g, l, k) = 0
        BY <2>1, <3>1 DEF ReadOf, RxLcore, Pos, WField
    <3> QED BY <1>14, <3>1, <3>2
  <2>2. CASE l # RxLcore
    <3>1. /\ l \in 0 .. NumWorkers - 1 /\ f \in WField /\ f = Order[k]
          /\ e.l = (IF k = 4 THEN l + 1 ELSE l) /\ e.k = (IF k = 4 THEN 1 ELSE k + 1)
        BY <1>5, <1>10, <1>11, <2>2
    <3>2. ReadOf(g, e.l, e.k) = (IF g = f THEN l + 1 ELSE ReadOf(g, l, k)) /\ ReadOf(f, l, k) = l
        BY <3>1, ReadNext
    <3>3. CASE g # f
        BY <1>9, <1>14, <2>0, <3>2, <3>3
    <3>4. CASE g = f
      <4>1. l \in Nat /\ l + 1 \in 0 .. NumWorkers /\ l \in 0 .. NumWorkers /\ NumWorkers \in 0 .. NumWorkers
          BY <3>1
      <4>2. Arrays
          BY ArraysAt
      <4>3. Sum(Column(f), l + 1) = Sum(Column(f), l) + v
        <5>1. Column(f)[l] = v
            BY <1>6, <3>1, <4>2 DEF Arrays
        <5> QED BY <4>1, <5>1, SumNext
      <4>4. PICK s \in Nat, t \in Nat : s = Sum(Column(f), l) /\ t = Sum(Column(f), NumWorkers)
          BY <4>1, <4>2 DEF Arrays
      <4>5. c[f] <= s /\ b[f] <= c[f] + (t - s)
        <5>1. Between(f, l, c[f], b[f])
            BY <1>14, <3>1, <3>2
        <5> QED BY <4>4, <5>1 DEF Between
      <4>6. c[f] + v <= s + v /\ b[f] <= (c[f] + v) + (t - (s + v)) /\ d[f] = c[f] + v
          BY <1>9, <4>5
      <4>7. Between(f, l + 1, d[f], b[f])
          BY <4>3, <4>4, <4>6 DEF Between
      <4> QED BY <3>2, <3>4, <4>7
    <3> QED BY <3>3, <3>4
  <2> QED BY <2>1, <2>2
<1>16. Snap'
  <2>1. /\ e.l \in {RxLcore, NumWorkers} => e.k = 1
        /\ e.l # RxLcore
      BY <1>4, <1>10, <1>11 DEF RxLcore
  <2>2. d["rx"] = IF l = RxLcore THEN v ELSE c["rx"]
      BY <1>5, <1>9, <1>14 DEF WField, Field
  <2>3. /\ b["rx"] <= d["rx"] /\ p <= d["rx"] /\ d["rx"] <= stats_table[RxLcore]["rx"]
    <3>1. v \in Nat /\ (l = RxLcore => v = stats_table[RxLcore]["rx"])
        BY <1>5, <1>6
    <3> QED BY <1>14, <2>2, <3>1
  <2>4. /\ agg'.l = e.l /\ agg'.k = e.k /\ agg'.cur = d /\ agg'.prev = p /\ hist'.begun = b
        /\ th'.pc = "aggregate"
      BY <1>0, <1>8, <1>11, <1>13
  <2>5. ASSUME NEW g \in WField
        PROVE  Between(g, ReadOf(g, agg.l, agg.k), agg.cur[g], hist.begun[g])'
    <3>1. Column(g)' = Column(g)
        BY <1>0, ColumnKept
    <3>2. Between(g, ReadOf(g, e.l, e.k), d[g], b[g])
        BY <1>15
    <3> QED BY <2>4, <3>1, <3>2, Zenon DEF Between
  <2> QED BY <1>0, <1>14, <2>1, <2>3, <2>4, <2>5 DEF Snap
<1>17. Charge'
  <2>1. proc.w = 0 /\ proc.j = 1
      BY <1>0 DEF Charge
  <2> QED BY <1>0, <2>1, ChargeKept
<1>18. Balance'
    BY <1>0 DEF Balance
<1>19. Cells'
    BY <1>0, CellsKept
<1> QED BY <1>12, <1>16, <1>17, <1>18, <1>19

LEMMA AggregatedStep ==
    ASSUME StatsInv, Aggregated
    PROVE  StatsInv'
<1> USE DEF StatsInv
<1>0. /\ stats_table' = stats_table /\ counting' = counting /\ proc' = proc
      /\ bal' = bal /\ th.pc = "aggregate" /\ agg.l = NumWorkers
      /\ agg' = [l |-> RxLcore, k |-> 1, cur |-> NoSums, prev |-> agg.cur["rx"]]
    BY DEF Aggregated
<1>1. th' \in ThRec /\ th'.pc = "workers"
  <2>1. th' = [th EXCEPT !.pc = "workers"] /\ th \in ThRec
      BY DEF Aggregated, Types
  <2> QED BY <2>1 DEF ThRec
<1>2. NoSums \in [Field -> Nat] /\ \A f \in Field : NoSums[f] = 0
    BY DEF NoSums
<1>3. /\ hist' \in HistRec /\ hist'.begun = NoSums /\ hist'.mark = hist.mark
      /\ hist'.charged = hist.charged
  <2>1. hist' = [hist EXCEPT !.begun = NoSums] /\ hist \in HistRec
      BY DEF Aggregated, Types
  <2> QED BY <1>2, <2>1 DEF HistRec
<1>4. agg' \in AggRec /\ agg'.l = RxLcore /\ agg'.k = 1 /\ agg'.cur = NoSums /\ agg'.prev = agg.cur["rx"]
  <2>1. agg.cur["rx"] \in Nat
      BY DEF Types, AggRec, Field
  <2> QED BY <1>0, <1>2, <2>1 DEF AggRec
<1>5. Types'
    BY <1>0, <1>1, <1>3, <1>4 DEF Types
<1>6. Snap'
  <2>1. ASSUME NEW f \in WField
        PROVE  Between(f, ReadOf(f, agg.l, agg.k), agg.cur[f], hist.begun[f])'
    <3>1. f \in Field
        BY DEF WField, Field
    <3>2. Sum(Column(f), 0) = 0 /\ Sum(Column(f), NumWorkers) \in Nat
        BY <3>1, NoneRead
    <3>3. Column(f)' = Column(f)
        BY <1>0, ColumnKept
    <3>4. 0 <= Sum(Column(f)', 0) /\ 0 <= 0 + (Sum(Column(f)', NumWorkers) - Sum(Column(f)', 0))
        BY <3>2, <3>3
    <3>5. agg'.cur[f] = 0 /\ hist'.begun[f] = 0 /\ ReadOf(f, agg'.l, agg'.k) = 0
        BY <1>2, <1>3, <1>4, <3>1 DEF ReadOf
    <3> QED BY <3>4, <3>5 DEF Between
  <2>2. NumWorkers # RxLcore
      BY DEF RxLcore
  <2>3. agg.cur["rx"] <= stats_table[RxLcore]["rx"]
      BY <1>0, <2>2 DEF Snap
  <2>4. NoSums["rx"] = 0 /\ stats_table[RxLcore]["rx"] \in Nat
      BY <1>2 DEF Types, Field, Lcore
  <2> QED BY <1>0, <1>1, <1>3, <1>4, <2>1, <2>3, <2>4 DEF Snap
<1>7. proc.w = 0 /\ proc.j = 1
    BY <1>0 DEF Charge
<1>8. Charge'
    BY <1>0, <1>3, <1>7, ChargeKept
<1>9. Balance'
  <2>1. bal = NoBalance
      BY <1>0 DEF Balance
  <2>2. Ranked(NoBalance, 0)
    <3>1. /\ NoBalance.load = NoLoad /\ NoBalance.sum = 0 /\ NoBalance.max = 0
          /\ NoBalance.max_idx = 0 /\ NoBalance.min_idx = 0
        BY DEF NoBalance
    <3>2. \A v \in Worker : NoLoad[v] = 0
        BY DEF NoLoad
    <3>3. Sum(NoLoad, 0) = 0 /\ 0 \in Worker
        BY SumZero DEF Worker
    <3> QED BY <3>1, <3>2, <3>3 DEF Ranked, Worker
  <2> QED BY <1>0, <1>1, <1>7, <2>1, <2>2 DEF Balance
<1>10. Cells'
    BY <1>0, CellsKept
<1> QED BY <1>5, <1>6, <1>8, <1>9, <1>10

LEMMA LoadWorkerStep ==
    ASSUME StatsInv, LoadWorker
    PROVE  StatsInv'
<1> USE DEF StatsInv
<1>0. /\ stats_table' = stats_table /\ counting' = counting /\ th' = th /\ agg' = agg
      /\ bal' = bal /\ th.pc = "workers"
    BY DEF LoadWorker
<1>1. PICK o \in ProcRec : o = proc
    BY DEF Types
<1>2. PICK w \in Worker, j \in 1 .. 3, a \in Nat, pr \in [Worker -> Nat] :
          w = o.w /\ j = o.j /\ a = o.acc /\ pr = o.worker_prev
    BY <1>1 DEF ProcRec, LoadWorker, Worker
<1>3. PICK x \in Nat, y \in Nat, z \in Nat :
          x = stats_table[w]["http"] /\ y = stats_table[w]["https"] /\ z = stats_table[w]["non_dpi"]
    BY DEF Types, Lcore, Field
<1>4. PICK v \in Nat : /\ v = stats_table[w][Class[j]]
                       /\ j = 1 => v = x
                       /\ j = 2 => v = y
                       /\ j = 3 => v = z
    BY <1>3 DEF Class
<1>5. PICK e : e = [o EXCEPT !.acc = a + v, !.j = j + 1]
    OBVIOUS
<1>6. proc' = e
    BY <1>1, <1>2, <1>4, <1>5 DEF LoadWorker
<1>7. e \in ProcRec /\ e.w = w /\ e.j = j + 1 /\ e.acc = a + v /\ e.worker_prev = pr
  <2>1. a + v \in Nat /\ j + 1 \in 1 .. 4
      OBVIOUS
  <2> QED BY <1>2, <1>5, <2>1 DEF ProcRec
<1>8. PICK m \in Nat, n \in Nat : m = hist.mark /\ n = IF j = 1 THEN x + y + z ELSE m
    BY DEF Types, HistRec
<1>9. hist' \in HistRec /\ hist'.begun = hist.begun /\ hist'.mark = n /\ hist'.charged = hist.charged
  <2>1. hist' = [hist EXCEPT !.mark = n] /\ hist \in HistRec
      BY <1>1, <1>2, <1>3, <1>8 DEF LoadWorker, Types, Processed
  <2> QED BY <2>1 DEF HistRec
<1>10. Types'
    BY <1>0, <1>6, <1>7, <1>9 DEF Types
<1>11. Snap'
  <2>1. th'.pc # "aggregate" => agg.l = RxLcore
      BY <1>0 DEF Snap
  <2> QED BY <1>0, <1>9, <2>1, SnapKept
<1>12. /\ pr[w] \in Nat /\ pr[w] <= x + y + z
       /\ j = 1 => a = 0
       /\ j = 2 => pr[w] <= m /\ m <= a + (y + z) /\ a <= x
       /\ j = 3 => pr[w] <= m /\ m <= a + z /\ a <= x + y
  <2>1. pr[w] \in Nat /\ pr[w] <= x + y + z
      BY <1>1, <1>2, <1>3 DEF Charge, Processed
  <2>2. j = 1 => a = 0
      BY <1>1, <1>2 DEF Charge
  <2>3. j > 1 => pr[w] <= m /\ m <= a + Unloaded(w, j) /\ a <= Loaded(w, j)
      BY <1>1, <1>2, <1>8 DEF Charge
  <2>4. /\ j = 2 => Unloaded(w, j) = y + z /\ Loaded(w, j) = x
        /\ j = 3 => Unloaded(w, j) = z /\ Loaded(w, j) = x + y
      BY <1>3 DEF Loaded, Unloaded
  <2> QED BY <2>1, <2>2, <2>3, <2>4
<1>13. /\ pr[w] <= n
       /\ j = 1 => n <= (a + v) + (y + z) /\ a + v <= x
       /\ j = 2 => n <= (a + v) + z /\ a + v <= x + y
       /\ j = 3 => n <= a + v /\ a + v <= x + y + z
    BY <1>4, <1>8, <1>12
<1>14. Charge'
  <2>1. \A u \in Worker : /\ hist'.charged[u] = proc'.worker_prev[u]
                          /\ proc'.worker_prev[u] <= Processed(u)'
    <3>1. \A u \in Worker : hist.charged[u] = pr[u] /\ pr[u] <= Processed(u)
        BY <1>1, <1>2 DEF Charge
    <3>2. \A u \in Worker : Processed(u)' = Processed(u)
        BY <1>0 DEF Processed
    <3> QED BY <1>6, <1>7, <1>9, <3>1, <3>2
  <2>2. n <= (a + v) + Unloaded(w, j + 1)' /\ a + v <= Loaded(w, j + 1)'
    <3>1. /\ j = 1 => Unloaded(w, j + 1)' = y + z /\ Loaded(w, j + 1)' = x
          /\ j = 2 => Unloaded(w, j + 1)' = z /\ Loaded(w, j + 1)' = x + y
          /\ j = 3 => Unloaded(w, j + 1)' = 0 /\ Loaded(w, j + 1)' = x + y + z
        BY <1>0, <1>3 DEF Loaded, Unloaded
    <3> QED BY <1>13, <3>1
  <2>3. /\ proc'.w = w /\ proc'.j = j + 1 /\ proc'.acc = a + v /\ proc'.worker_prev = pr
        /\ hist'.mark = n /\ th'.pc = "workers" /\ w # NumWorkers /\ j + 1 > 1
      BY <1>0, <1>6, <1>7, <1>9 DEF Worker
  <2> QED BY <1>13, <2>1, <2>2, <2>3 DEF Charge
<1>15. Balance'
    BY <1>0, <1>1, <1>2, <1>6, <1>7 DEF Balance
<1>16. Cells'
    BY <1>0, CellsKept
<1> QED BY <1>10, <1>11, <1>14, <1>15, <1>16

(* The load of a worker that was not yet sampled is entered. *)
LEMMA RankedNext ==
    ASSUME NEW b \in BalRec, NEW w \in Worker, NEW d \in Nat, Ranked(b, w), NEW c \in BalRec,
           c.load = [b.load EXCEPT ![w] = d], c.sum = b.sum + d,
           c.max = (IF d > b.max THEN d ELSE b.max),
           c.max_idx = (IF d > b.max THEN w ELSE b.max_idx),
           c.min_idx = (IF d < c.load[b.min_idx] THEN w ELSE b.min_idx)
    PROVE  Ranked(c, w + 1)
<1>1. PICK g \in [Worker -> Nat], h \in [Worker -> Nat] : g = b.load /\ h = c.load
    BY DEF BalRec
<1>2. h[w] = d /\ \A v \in Worker : v # w => h[v] = g[v]
    BY <1>1
<1>3. PICK s \in Nat, m \in Nat, x \in Worker, i \in Worker :
          s = b.sum /\ m = b.max /\ x = b.max_idx /\ i = b.min_idx
    BY DEF BalRec
<1>4. /\ s = Sum(g, w)
      /\ \A v \in Worker : v >= w => g[v] = 0
      /\ \A v \in Worker : g[v] <= m
      /\ g[x] = m
      /\ \A v \in Worker : v < w => g[i] <= g[v]
      /\ IF w = 0 THEN i = 0 ELSE i < w
    BY <1>1, <1>3 DEF Ranked
<1>5. w \in Nat /\ w + 1 # 0 /\ \A k \in 0 .. w - 1 : k \in Worker /\ k # w
    BY DEF Worker
<1>6. c.sum = Sum(c.load, w + 1)
  <2>1. Sum(h, w) = Sum(g, w)
    <3>1. \A k \in 0 .. w - 1 : h[k] = g[k]
        BY <1>2, <1>5
    <3> QED BY <1>5, <3>1, SumSame
  <2>2. Sum(h, w + 1) = Sum(h, w) + h[w]
      BY <1>5, SumNext
  <2> QED BY <1>1, <1>2, <1>3, <1>4, <2>1, <2>2
<1>7. \A v \in Worker : v >= w + 1 => c.load[v] = 0
  <2>1. ASSUME NEW v \in Worker, v >= w + 1 PROVE h[v] = 0
    <3>0. v \in Int /\ w \in Int
        BY DEF Worker
    <3>1. v # w /\ v >= w
        BY <2>1, <3>0
    <3> QED BY <1>2, <1>4, <3>1
  <2> QED BY <1>1, <2>1
<1>8. \A v \in Worker : c.load[v] <= c.max
  <2>1. ASSUME NEW v \in Worker PROVE h[v] <= IF d > m THEN d ELSE m
    <3>1. h[v] = d \/ (h[v] = g[v] /\ g[v] <= m /\ g[v] \in Nat)
        BY <1>2, <1>4
    <3> QED BY <3>1
  <2> QED BY <1>1, <1>3, <2>1
<1>9. c.load[c.max_idx] = c.max
  <2>1. CASE d > m
      BY <1>1, <1>2, <1>3, <2>1
  <2>2. CASE ~(d > m)
    <3>1. h[x] = m
      <4>1. x = w => m = 0
          BY <1>4, <1>5
      <4>2. x = w => d = 0
          BY <2>2, <4>1
      <4> QED BY <1>2, <1>4, <4>1, <4>2
    <3> QED BY <1>1, <1>3, <2>2, <3>1
  <2> QED BY <2>1, <2>2
<1>10. PICK n \in Worker : n = c.min_idx /\ n = IF d < h[i] THEN w ELSE i
    BY <1>1, <1>3
<1>11. i <= w /\ n <= w
    BY <1>4, <1>5, <1>10 DEF Worker
<1>12. h[i] \in Nat /\ (w = 0 => i = w) /\ (w # 0 => h[i] = g[i])
  <2>1. w # 0 => i # w
      BY <1>4 DEF Worker
  <2> QED BY <1>2, <1>4, <2>1
<1>13. ASSUME NEW v \in Worker, v < w + 1 PROVE h[n] <= h[v]
  <2>1. h[n] <= d /\ h[n] <= h[i]
      BY <1>2, <1>10, <1>12
  <2>2. CASE v = w
      BY <1>2, <2>1, <2>2
  <2>3. CASE v # w
    <3>1. v < w /\ w # 0
        BY <1>13, <2>3 DEF Worker
    <3>2. h[i] = g[i] /\ h[v] = g[v] /\ g[i] <= g[v]
        BY <1>2, <1>4, <1>12, <2>3, <3>1
    <3> QED BY <2>1, <3>2
  <2> QED BY <2>2, <2>3
<1>14. c.min_idx < w + 1
    BY <1>10, <1>11 DEF Worker
<1> QED BY <1>1, <1>5, <1>6, <1>7, <1>8, <1>9, <1>10, <1>13, <1>14 DEF Ranked

LEMMA SampleStep ==
    ASSUME StatsInv, Sample
    PROVE  StatsInv'
<1> USE DEF StatsInv
<1>0. /\ stats_table' = stats_table /\ counting' = counting /\ th' = th /\ agg' = agg
      /\ th.pc = "workers"
    BY DEF Sample
<1>1. PICK o \in ProcRec, b \in BalRec : o = proc /\ b = bal
    BY DEF Types
<1>2. PICK w \in Worker, a \in Nat, pr \in [Worker -> Nat] :
          w = o.w /\ o.j = 4 /\ a = o.acc /\ pr = o.worker_prev
    BY <1>1 DEF ProcRec, Sample, Worker
<1>3. PICK m \in Nat, ch \in [Worker -> Nat] : m = hist.mark /\ ch = hist.charged
    BY DEF Types, HistRec
<1>4. /\ pr[w] <= m /\ m <= a /\ a <= Processed(w)
      /\ Processed(w) \in Nat /\ Processed(w) <= MaxCount
      /\ pr[w] \in Nat /\ ch[w] = pr[w]
  <2>1. Processed(w) \in Nat /\ Processed(w) <= MaxCount
      BY ProcessedCounted
  <2>2. pr[w] <= m /\ m <= a + Unloaded(w, 4) /\ a <= Loaded(w, 4) /\ ch[w] = pr[w]
      BY <1>1, <1>2, <1>3 DEF Charge
  <2>3. PICK x \in Nat, y \in Nat, z \in Nat :
            x = stats_table[w]["http"] /\ y = stats_table[w]["https"] /\ z = stats_table[w]["non_dpi"]
      BY DEF Types, Lcore, Field
  <2>4. Unloaded(w, 4) = 0 /\ Loaded(w, 4) = Processed(w)
      BY <2>3 DEF Loaded, Unloaded, Processed
  <2> QED BY <2>1, <2>2, <2>4
<1>5. PICK d \in Nat : d = a - pr[w]
    BY <1>4
<1>6. U64Sub(a, pr[w]) = d
  <2>1. d < U64 /\ U64 \in Nat \ {0}
      BY <1>4, <1>5
  <2>2. d % U64 = d
      BY <2>1
  <2> QED BY <1>5, <2>2 DEF U64Sub
<1>7. PICK e, g : /\ e = [o EXCEPT !.w = w + 1, !.j = 1, !.acc = 0, !.worker_prev = g]
                  /\ g = [pr EXCEPT ![w] = a]
    OBVIOUS
<1>8. proc' = e
  <2>1. proc' = [o EXCEPT !.w = w + 1, !.j = 1, !.acc = 0, !.worker_prev[w] = o.acc]
      BY <1>1, <1>2 DEF Sample
  <2> QED BY <1>2, <1>7, <2>1
<1>9. /\ e \in ProcRec /\ e.w = w + 1 /\ e.j = 1 /\ e.acc = 0 /\ e.worker_prev = g
      /\ g \in [Worker -> Nat] /\ g[w] = a /\ \A v \in Worker \ {w} : g[v] = pr[v]
  <2>1. g \in [Worker -> Nat] /\ g[w] = a /\ \A v \in Worker \ {w} : g[v] = pr[v]
      BY <1>7
  <2>2. w + 1 \in 0 .. NumWorkers /\ 1 \in 1 .. 4 /\ 0 \in Nat
      BY DEF Worker
  <2> QED BY <1>7, <2>1, <2>2 DEF ProcRec
<1>10. PICK h : h = [ch EXCEPT ![w] = ch[w] + d]
    OBVIOUS
<1>11. h \in [Worker -> Nat] /\ h[w] = a /\ \A v \in Worker \ {w} : h[v] = ch[v]
  <2>1. ch[w] + d = a
      BY <1>4, <1>5
  <2> QED BY <1>10, <2>1
<1>12. hist' \in HistRec /\ hist'.begun = hist.begun /\ hist'.charged = h
  <2>1. hist' = [hist EXCEPT !.mark = 0, !.charged[w] = hist.charged[w] + d] /\ hist \in HistRec
      BY <1>1, <1>2, <1>6 DEF Sample, Types
  <2>2. hist' = [hist EXCEPT !.mark = 0, !.charged = h]
      BY <1>3, <1>10, <2>1
  <2>3. hist \in HistRec
      BY <2>1
  <2> QED BY <1>11, <2>2, <2>3 DEF HistRec
<1>13. PICK l, c : /\ l = [b.load EXCEPT ![w] = d]
                   /\ c = [load |-> l, sum |-> b.sum + d,
                           max |-> IF d > b.max THEN d ELSE b.max,
                           max_idx |-> IF d > b.max THEN w ELSE b.max_idx,
                           min_idx |-> IF d < l[b.min_idx] THEN w ELSE b.min_idx]
    OBVIOUS
<1>14. bal' = c
  <2>1. U64Sub(proc.acc, proc.worker_prev[proc.w]) = d /\ proc.w = w
      BY <1>1, <1>2, <1>6
  <2> QED BY <1>1, <1>13, <2>1 DEF Sample
<1>15. c \in BalRec
  <2>1. b.load \in [Worker -> Nat] /\ b.sum \in Nat /\ b.max \in Nat /\ b.max_idx \in Worker
        /\ b.min_idx \in Worker
      BY DEF BalRec
  <2>2. l \in [Worker -> Nat] /\ b.sum + d \in Nat
      BY <1>13, <2>1
  <2> QED BY <1>13, <2>1, <2>2 DEF BalRec
<1>16. Types'
    BY <1>0, <1>8, <1>9, <1>12, <1>14, <1>15 DEF Types
<1>17. Snap'
  <2>1. th'.pc # "aggregate" => agg.l = RxLcore
      BY <1>0 DEF Snap
  <2> QED BY <1>0, <1>12, <2>1, SnapKept
<1>18. Charge'
  <2>1. \A v \in Worker : ch[v] = pr[v] /\ pr[v] <= Processed(v)
      BY <1>1, <1>2, <1>3 DEF Charge
  <2>2. \A v \in Worker : h[v] = g[v] /\ g[v] <= Processed(v)
    <3> SUFFICES ASSUME NEW v \in Worker PROVE h[v] = g[v] /\ g[v] <= Processed(v)
        OBVIOUS
    <3>1. CASE v = w
        BY <1>4, <1>9, <1>11, <3>1
    <3>2. CASE v # w
        BY <1>9, <1>11, <2>1, <3>2
    <3> QED BY <3>1, <3>2
  <2>3. \A v \in Worker : Processed(v)' = Processed(v)
      BY <1>0 DEF Processed
  <2>4. /\ proc'.worker_prev = g /\ proc'.j = 1 /\ proc'.acc = 0 /\ hist'.charged = h
        /\ th'.pc = "workers"
      BY <1>0, <1>8, <1>9, <1>12
  <2> QED BY <2>2, <2>3, <2>4 DEF Charge
<1>19. Balance'
  <2>1. Ranked(b, w)
      BY <1>0, <1>1, <1>2 DEF Balance
  <2>2. /\ c.load = [b.load EXCEPT ![w] = d] /\ c.sum = b.sum + d
        /\ c.max = (IF d > b.max THEN d ELSE b.max)
        /\ c.max_idx = (IF d > b.max THEN w ELSE b.max_idx)
        /\ c.min_idx = (IF d < c.load[b.min_idx] THEN w ELSE b.min_idx)
      BY <1>13
  <2>3. Ranked(c, w + 1)
      BY <1>15, <2>1, <2>2, RankedNext
  <2>4. bal' = c /\ proc'.w = w + 1 /\ th'.pc = "workers"
      BY <1>0, <1>8, <1>9, <1>14
  <2> QED BY <2>3, <2>4, Zenon DEF Balance
<1>20. Cells'
    BY <1>0, CellsKept
<1> QED BY <1>16, <1>17, <1>18, <1>19, <1>20

LEMMA DecideStep ==
    ASSUME StatsInv, NEW elapsed \in 1 .. MaxElapsed, Decide(elapsed)
    PROVE  StatsInv'
<1> USE DEF StatsInv
<1>0. /\ stats_table' = stats_table /\ counting' = counting /\ agg' = agg
      /\ bal' = bal /\ hist' = hist /\ th.pc = "workers" /\ proc.w = NumWorkers
    BY DEF Decide
<1>1. bal \in BalRec /\ th \in ThRec /\ proc \in ProcRec
    BY DEF Types
<1>2. PICK m : m = IF Imbalanced(elapsed) THEN <<bal.max_idx, bal.min_idx>> ELSE NoMove
    OBVIOUS
<1>3. m \in {NoMove} \cup (Worker \X Worker)
  <2>1. bal.max_idx \in Worker /\ bal.min_idx \in Worker
      BY <1>1 DEF BalRec
  <2> QED BY <1>2, <2>1
<1>4. /\ th' \in ThRec /\ th'.pc = "sleep" /\ th'.elapsed = elapsed /\ th'.move = m
      /\ th'.first = th.first
  <2>1. th' = [th EXCEPT !.pc = "sleep", !.elapsed = elapsed, !.move = m]
      BY <1>2 DEF Decide
  <2>2. elapsed \in Nat
      OBVIOUS
  <2> QED BY <1>1, <1>3, <2>1, <2>2 DEF ThRec
<1>5. /\ proc' \in ProcRec /\ proc'.w = 0 /\ proc'.j = proc.j /\ proc'.acc = proc.acc
      /\ proc'.worker_prev = proc.worker_prev
  <2>1. proc' = [proc EXCEPT !.w = 0] /\ 0 \in 0 .. NumWorkers
      BY DEF Decide
  <2> QED BY <1>1, <2>1 DEF ProcRec
<1>6. Types'
    BY <1>0, <1>4, <1>5 DEF Types
<1>7. Snap'
  <2>1. agg.l = RxLcore /\ hist'.begun = hist.begun
      BY <1>0 DEF Snap
  <2> QED BY <1>0, <2>1, SnapKept
<1>8. Charge'
  <2>1. proc.j = 1 /\ proc.acc = 0
      BY <1>0 DEF Charge
  <2>2. \A v \in Worker : /\ hist'.charged[v] = proc'.worker_prev[v]
                          /\ proc'.worker_prev[v] <= Processed(v)'
    <3>1. \A v \in Worker : hist.charged[v] = proc.worker_prev[v] /\ proc.worker_prev[v] <= Processed(v)
        BY DEF Charge
    <3>2. \A v \in Worker : Processed(v)' = Processed(v)
        BY <1>0 DEF Processed
    <3> QED BY <1>0, <1>5, <3>1, <3>2
  <2> QED BY <1>5, <2>1, <2>2 DEF Charge
<1>9. Balance'
  <2>1. Ranked(bal, NumWorkers)
      BY <1>0 DEF Balance
  <2>2. Imbalanced(elapsed)' = Imbalanced(elapsed)
      BY <1>0, <1>4 DEF Imbalanced
  <2>3. th'.move = IF Imbalanced(elapsed)' THEN <<bal'.max_idx, bal'.min_idx>> ELSE NoMove
      BY <1>0, <1>2, <1>4, <2>2
  <2>4. Imbalanced(th.elapsed)' <=> Imbalanced(elapsed)'
      BY <1>4 DEF Imbalanced
  <2> QED BY <1>0, <1>4, <2>1, <2>3, <2>4 DEF Balance
<1>10. Cells'
    BY <1>0, CellsKept
<1> QED BY <1>6, <1>7, <1>8, <1>9, <1>10

-----------------------------------------------------------------------------
LEMMA InitStats == Init => StatsInv
<1> SUFFICES ASSUME Init PROVE StatsInv
    OBVIOUS
<1>1. NoSums \in [Field -> Nat] /\ \A f \in Field : NoSums[f] = 0
    BY DEF NoSums
<1>2. NoLoad \in [Worker -> Nat] /\ \A w \in Worker : NoLoad[w] = 0
    BY DEF NoLoad
<1>3. 0 \in Worker
    BY DEF Worker
<1>4. /\ stats_table \in [Lcore -> [Field -> Nat]]
      /\ \A l \in Lcore : \A f \in Field : stats_table[l][f] = 0
    BY <1>1 DEF Init
<1>5. Types
  <2>1. th \in ThRec
      BY DEF Init, ThRec
  <2>2. agg \in AggRec
      BY <1>1 DEF Init, AggRec
  <2>3. proc \in ProcRec
      BY <1>2 DEF Init, ProcRec
  <2>4. bal \in BalRec
      BY <1>2, <1>3 DEF Init, NoBalance, BalRec
  <2>5. hist \in HistRec
      BY <1>1, <1>2 DEF Init, HistRec
  <2> QED BY <1>4, <2>1, <2>2, <2>3, <2>4, <2>5 DEF Types, Init
<1>6. RxLcore \in Lcore /\ Worker \subseteq Lcore /\ WField \subseteq Field /\ "rx" \in Field
    BY DEF Lcore, WField, Field
<1>7. \A f \in Field : Sum(Column(f), NumWorkers) = 0 /\ Total(f) = 0
  <2> SUFFICES ASSUME NEW f \in Field PROVE Sum(Column(f), NumWorkers) = 0 /\ Total(f) = 0
      OBVIOUS
  <2>1. \A k \in 0 .. NumWorkers - 1 : Column(f)[k] = 0
      BY <1>4, <1>6 DEF Column, Worker
  <2>2. Sum(Column(f), NumWorkers) = 0
      BY <2>1, SumZero
  <2>3. stats_table[RxLcore][f] = 0
      BY <1>4, <1>6
  <2> QED BY <2>2, <2>3 DEF Total
<1>8. Cells
  <2>1. Counted = 0
      BY <1>7 DEF Counted, Field
  <2> QED BY <1>4, <1>6, <2>1 DEF Cells
<1>9. Snap
  <2>1. /\ agg.l = RxLcore /\ agg.k = 1 /\ agg.cur = NoSums /\ agg.prev = 0
        /\ hist.begun = NoSums
      BY DEF Init
  <2>2. ASSUME NEW f \in WField
        PROVE  Between(f, ReadOf(f, agg.l, agg.k), agg.cur[f], hist.begun[f])
    <3>1. ReadOf(f, agg.l, agg.k) = 0 /\ agg.cur[f] = 0 /\ hist.begun[f] = 0
        BY <1>1, <1>6, <2>1 DEF ReadOf
    <3>2. Sum(Column(f), 0) = 0 /\ Sum(Column(f), NumWorkers) = 0
        BY <1>5, <1>6, <1>7, NoneRead
    <3> QED BY <3>1, <3>2 DEF Between
  <2>3. NoSums["rx"] = 0 /\ stats_table[RxLcore]["rx"] = 0
      BY <1>1, <1>4, <1>6
  <2> QED BY <2>1, <2>2, <2>3 DEF Snap
<1>10. Charge
  <2>1. \A w \in Worker : Processed(w) = 0
      BY <1>4, <1>6 DEF Processed, Field
  <2>2. /\ proc.w = 0 /\ proc.j = 1 /\ proc.acc = 0 /\ proc.worker_prev = NoLoad
        /\ hist.charged = NoLoad
      BY DEF Init
  <2> QED BY <1>2, <2>1, <2>2 DEF Charge
<1>11. Balance
    BY DEF Init, Balance
<1> QED BY <1>5, <1>8, <1>9, <1>10, <1>11 DEF StatsInv

LEMMA StatsStep == StatsInv /\ [Next]_vars => StatsInv'
<1> SUFFICES ASSUME StatsInv, [Next]_vars PROVE StatsInv'
    OBVIOUS
<1>1. CASE UNCHANGED vars
  <2>1. /\ stats_table' = stats_table /\ counting' = counting /\ th' = th /\ agg' = agg
        /\ proc' = proc /\ bal' = bal /\ hist' = hist
      BY <1>1 DEF vars
  <2>2. Types'
      BY <2>1 DEF StatsInv, Types
  <2>3. Snap'
      BY <2>1, SnapKept DEF StatsInv, Snap
  <2>4. Charge'
      BY <2>1, ChargeKept DEF StatsInv, Charge
  <2>5. Balance'
      BY <2>1, Zenon DEF StatsInv, Balance, Imbalanced
  <2>6. Cells'
      BY <2>1, CellsKept DEF StatsInv
  <2> QED BY <2>2, <2>3, <2>4, <2>5, <2>6 DEF StatsInv
<1>2. CASE StatsThread
    BY <1>2, StartTickStep, AggregateStep, AggregatedStep, LoadWorkerStep, SampleStep, DecideStep
    DEF StatsThread
<1>3. CASE CountRx
    BY <1>3, CountSteps
<1>4. CASE \E w \in Worker : CountNoSni(w) \/ \E i \in 1 .. 3 : CountClassified(w, Class[i])
    BY <1>4, CountSteps
<1> QED BY <1>1, <1>2, <1>3, <1>4 DEF Next

(* The inductive invariant of the Stats thread and the counting lcores:    *)
(* what every half-finished sum of aggregate() and worker_processed() is   *)
(* worth while the counters go on.                                         *)
THEOREM SpecStatsInv == Spec => []StatsInv
BY InitStats, StatsStep, PTL DEF Spec

(* Every sum of a finished snapshot lies between what the counters were    *)
(* when aggregate() began and what they are now, and the difference to the *)
(* snapshot before does not wrap, for every number of workers.             *)
THEOREM StatsSnapshotFresh == Spec => []SnapshotFresh
<1>1. StatsInv => SnapshotFresh
  <2> SUFFICES ASSUME StatsInv, th.pc = "aggregate", agg.l = NumWorkers
               PROVE  /\ agg.prev <= agg.cur["rx"]
                      /\ \A f \in Field : hist.begun[f] <= agg.cur[f] /\ agg.cur[f] <= Total(f)
      BY DEF SnapshotFresh
  <2> USE DEF StatsInv
  <2>1. agg.l # RxLcore /\ agg.k = 1
      BY DEF RxLcore, Snap
  <2>2. /\ hist.begun["rx"] <= agg.cur["rx"] /\ agg.prev <= agg.cur["rx"]
        /\ agg.cur["rx"] <= stats_table[RxLcore]["rx"]
      BY <2>1 DEF Snap
  <2>3. ASSUME NEW f \in WField PROVE hist.begun[f] <= agg.cur[f] /\ agg.cur[f] <= Total(f)
    <3>1. f \in Field
        BY DEF WField, Field
    <3>2. ReadOf(f, agg.l, agg.k) = NumWorkers
        BY <2>1 DEF ReadOf, Pos, WField
    <3>3. Between(f, NumWorkers, agg.cur[f], hist.begun[f])
        BY <3>2 DEF Snap
    <3>4. PICK s \in Nat : s = Sum(Column(f), NumWorkers) /\ s = Total(f)
        BY <3>1, NoneRead, Totals
    <3>5. PICK c \in Nat, b \in Nat : c = agg.cur[f] /\ b = hist.begun[f]
        BY <3>1 DEF Types, AggRec, HistRec
    <3>6. c <= s /\ b <= c + (s - s)
        BY <3>3, <3>4, <3>5 DEF Between
    <3> QED BY <3>4, <3>5, <3>6
  <2>4. Total("rx") = stats_table[RxLcore]["rx"]
      BY Totals
  <2>5. \A f \in Field : f = "rx" \/ f \in WField
      BY DEF Field, WField
  <2> QED BY <2>2, <2>3, <2>4, <2>5
<1> QED BY <1>1, SpecStatsInv, PTL

(* Every classified packet is charged to exactly one tick, however the     *)
(* three loads of worker_processed() interleave with the worker.           *)
THEOREM StatsLoadAttributed == Spec => []LoadAttributed
<1>1. StatsInv => LoadAttributed
  <2> SUFFICES ASSUME StatsInv PROVE LoadAttributed
      OBVIOUS
  <2> USE DEF StatsInv
  <2>1. \A w \in Worker : hist.charged[w] = proc.worker_prev[w]
      BY DEF Charge
  <2>2. ASSUME proc.j > 3
        PROVE  /\ proc.worker_prev[proc.w] <= hist.mark /\ hist.mark <= proc.acc
               /\ proc.acc <= Processed(proc.w)
    <3>1. proc.j = 4 /\ proc.w \in Worker /\ proc.acc \in Nat /\ hist.mark \in Nat
        BY <2>2 DEF Types, ProcRec, HistRec, Charge, Worker
    <3>2. PICK w \in Worker, a \in Nat, m \in Nat : w = proc.w /\ a = proc.acc /\ m = hist.mark
        BY <3>1
    <3>3. PICK x \in Nat, y \in Nat, z \in Nat :
              x = stats_table[w]["http"] /\ y = stats_table[w]["https"] /\ z = stats_table[w]["non_dpi"]
        BY DEF Types, Lcore, Field
    <3>4. Unloaded(w, 4) = 0 /\ Loaded(w, 4) = Processed(w)
        BY <3>3 DEF Loaded, Unloaded, Processed
    <3>5. proc.worker_prev[w] <= m /\ m <= a + Unloaded(w, 4) /\ a <= Loaded(w, 4)
        BY <3>1, <3>2 DEF Charge
    <3> QED BY <3>2, <3>4, <3>5
  <2> QED BY <2>1, <2>2 DEF LoadAttributed
<1> QED BY <1>1, SpecStatsInv, PTL

(* The running sum, maximum and minimum of a tick decide as the loads      *)
(* themselves would: buckets are moved exactly when these are out of       *)
(* balance, from a worker with the highest load to one with the lowest,    *)
(* and never from a worker to itself.                                      *)
THEOREM StatsDecisionExact == Spec => []DecisionExact
<1>1. StatsInv => DecisionExact
  <2> SUFFICES ASSUME StatsInv, th.pc = "sleep", ~th.first PROVE DecisionExact
      BY DEF DecisionExact
  <2> USE DEF StatsInv
  <2>1. /\ Ranked(bal, NumWorkers)
        /\ th.move = IF Imbalanced(th.elapsed) THEN <<bal.max_idx, bal.min_idx>> ELSE NoMove
      BY DEF Balance
  <2>2. PICK g \in [Worker -> Nat], s \in Nat, m \in Nat, x \in Worker, i \in Worker :
            /\ g = bal.load /\ s = bal.sum /\ m = bal.max /\ x = bal.max_idx /\ i = bal.min_idx
      BY DEF Types, BalRec
  <2>3. /\ s = Sum(g, NumWorkers)
        /\ \A v \in Worker : g[v] <= m
        /\ g[x] = m
        /\ \A v \in Worker : g[i] <= g[v]
      BY <2>1, <2>2 DEF Ranked, Worker
  <2>4. PICK S : S = Range(g)
      OBVIOUS
  <2>5. S = {g[v] : v \in Worker}
      BY <2>4 DEF Range
  <2>6. S \subseteq Nat /\ m \in S /\ g[i] \in S
        /\ (\A y \in S : m >= y) /\ (\A y \in S : g[i] <= y)
      BY <2>3, <2>5
  <2>7. Max(S) = m
    <3>1. /\ Max(S) \in S
          /\ \A y \in S : Max(S) >= y
        BY <2>6 DEF Max
    <3>2. PICK y \in Nat, z \in Nat : y = Max(S) /\ z = m
        BY <2>6, <3>1
    <3>3. y >= z /\ z >= y
        BY <2>6, <3>1, <3>2
    <3> QED BY <3>2, <3>3
  <2>8. Min(S) = g[i]
    <3>1. /\ Min(S) \in S
          /\ \A y \in S : Min(S) <= y
        BY <2>6 DEF Min
    <3>2. PICK y \in Nat, z \in Nat : y = Min(S) /\ z = g[i]
        BY <2>6, <3>1
    <3>3. y <= z /\ z <= y
        BY <2>6, <3>1, <3>2
    <3> QED BY <3>2, <3>3
  <2>9. x = i => s = NumWorkers * m
    <3> SUFFICES ASSUME x = i PROVE s = NumWorkers * m
        OBVIOUS
    <3>1. \A k \in 0 .. NumWorkers - 1 : g[k] = m
      <4>1. \A v \in Worker : g[v] \in Nat /\ g[v] <= m /\ m <= g[v]
          BY <2>3
      <4> QED BY <4>1 DEF Worker
    <3> QED BY <2>3, <3>1, SumConst
  <2>10. 4 * m * NumWorkers > 5 * s => x # i
    <3>1. PICK p \in Nat : p = NumWorkers * m /\ 4 * m * NumWorkers = 4 * p
        OBVIOUS
    <3> QED BY <2>9, <3>1
  <2>11. x # i => NumWorkers > 1
      BY DEF Worker
  <2>12. Imbalanced(th.elapsed) <=> /\ Rebalance
                                    /\ s >= MinAvg * NumWorkers * th.elapsed
                                    /\ 4 * m * NumWorkers > 5 * s
      BY <2>2, <2>10, <2>11 DEF Imbalanced
  <2>13. /\ th.move # NoMove <=> Imbalanced(th.elapsed)
         /\ th.move # NoMove => th.move[1] = x /\ th.move[2] = i
      BY <2>1, <2>2 DEF NoMove
  <2>14. th.move # NoMove => x # i
      BY <2>10, <2>12, <2>13
  <2> QED BY <2>2, <2>3, <2>4, <2>7, <2>8, <2>12, <2>13, <2>14 DEF DecisionExact
<1> QED BY <1>1, SpecStatsInv, PTL

=============================================================================
