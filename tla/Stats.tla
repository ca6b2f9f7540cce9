-------------------------------- MODULE Stats --------------------------------
(***************************************************************************)
(* The per-lcore counters of include/stats.h and the Stats thread of       *)
(* src/stats.c: once per tick it sums the counters of all lcores, takes    *)
(* the load of each worker and decides whether to rebalance, and between   *)
(* which two.  Nothing is locked: every load of a counter is a step, and   *)
(* the RX and worker lcores count between any two loads.                   *)
(*                                                                         *)
(* rx stands for the counters that lcores other than the workers write     *)
(* (rx_packets, rx_bytes, tx_packets), and no_sni for the other counters   *)
(* of a worker (forwarded, dropped): they only enter the sums.  Rates are  *)
(* compared without division; the pass that moves buckets is in Steering.  *)
(***************************************************************************)
EXTENDS Integers, Sequences, FiniteSetsExt, Functions, Sums

CONSTANTS NumWorkers, \* -w (2..4)
          Rebalance,  \* rebalance_enabled: FALSE with -B
          MinAvg,     \* REBALANCE_MIN_AVG_PPS (100)
          U64,        \* 2^64
          MaxElapsed, \* bound on the time units between two ticks
          MaxCount    \* bound on the packets counted

ASSUME StatsAssumption ==
    /\ NumWorkers \in Nat \ {0}
    /\ Rebalance \in BOOLEAN
    /\ MinAvg \in Nat
    /\ MaxElapsed \in Nat \ {0}
    /\ MaxCount \in Nat
    /\ U64 \in Nat /\ MaxCount < U64

Worker == 0 .. NumWorkers - 1
RxLcore == -1

(* The classes of stats_count_classified(), in the order that              *)
(* worker_processed() loads them.                                          *)
Class == <<"http", "https", "non_dpi">>
Field == {"rx", "http", "https", "non_dpi", "no_sni"}
Order == <<"http", "https", "non_dpi", "no_sni">>

(* What aggregate() loads of an lcore, in this order.  Counters that an    *)
(* lcore never writes are zero and left out.                               *)
FieldsOf(l) == IF l = RxLcore THEN <<"rx">> ELSE Order

VARIABLES stats_table, \* the counters, by lcore and field
          counting,    \* workers about to count a packet as no_sni
          th,          \* stats_thread_main(): where it is, and what it decided
          agg,         \* aggregate(): the next load, and its sums; prev
          proc,        \* worker_processed(): the next load, and its sum; worker_prev
          bal,         \* the loads of this tick, and what is known of them
          hist         \* history, see StartTick and Sample

vars == <<stats_table, counting, th, agg, proc, bal, hist>>

Lcore == {RxLcore} \cup Worker
Column(f) == [w \in Worker |-> stats_table[w][f]]
Total(f) == stats_table[RxLcore][f] + Sum(Column(f), NumWorkers)
Processed(w) == stats_table[w]["http"] + stats_table[w]["https"] + stats_table[w]["non_dpi"]
Counted == Total("rx") + Total("http") + Total("https") + Total("non_dpi")

NoSums == [f \in Field |-> 0]
NoLoad == [w \in Worker |-> 0]
NoBalance == [load |-> NoLoad, sum |-> 0, max |-> 0, max_idx |-> 0, min_idx |-> 0]
NoMove == << >>

(* stats_init() and the start of stats_thread_main(): aggregate(&prev) and *)
(* the first worker_prev[] are read by the same loops as every later tick. *)
(* RX and the workers have been launched before.                           *)
Init == /\ stats_table = [l \in Lcore |-> NoSums]
        /\ counting = {}
        /\ th = [pc |-> "aggregate", first |-> TRUE, elapsed |-> 1, move |-> NoMove]
        /\ agg = [l |-> RxLcore, k |-> 1, cur |-> NoSums, prev |-> 0]
        /\ proc = [w |-> 0, j |-> 1, acc |-> 0, worker_prev |-> NoLoad]
        /\ bal = NoBalance
        /\ hist = [begun |-> NoSums, mark |-> 0, charged |-> NoLoad]

-----------------------------------------------------------------------------
(* stats_add_rx() *)
CountRx == /\ Counted < MaxCount
           /\ stats_table' = [stats_table EXCEPT ![RxLcore]["rx"] = @ + 1]
           /\ UNCHANGED <<counting, th, agg, proc, bal, hist>>

(* stats_count_classified().  What follows for a packet of a flow without  *)
(* a server name is a step of its own.                                     *)
CountClassified(w, f) ==
    /\ Counted < MaxCount
    /\ w \notin counting
    /\ stats_table' = [stats_table EXCEPT ![w][f] = @ + 1]
    /\ counting' \in {counting} \cup (IF f = "https" THEN {counting \cup {w}} ELSE {})
    /\ UNCHANGED <<th, agg, proc, bal, hist>>

(* stats_count_tls_no_sni() *)
CountNoSni(w) ==
    /\ w \in counting
    /\ stats_table' = [stats_table EXCEPT ![w]["no_sni"] = @ + 1]
    /\ counting' = counting \ {w}
    /\ UNCHANGED <<th, agg, proc, bal, hist>>

-----------------------------------------------------------------------------
U64Sub(a, b) == (a - b) % U64

(* The next iteration of the loop, with its local variables.  begun: what  *)
(* a snapshot taken at once would show.                                    *)
StartTick ==
    /\ th.pc = "sleep"
    /\ th' = [th EXCEPT !.pc = "aggregate", !.first = FALSE, !.move = NoMove]
    /\ bal' = NoBalance
    /\ hist' = [hist EXCEPT !.begun = [f \in Field |-> Total(f)]]
    /\ UNCHANGED <<stats_table, counting, agg, proc>>

(* Deviation: the value of the last lcore instead of the sum. *)
Aggregate_Assign ==
    LET f == FieldsOf(agg.l)[agg.k]
        last == agg.k = Len(FieldsOf(agg.l))
    IN  /\ th.pc = "aggregate" /\ agg.l < NumWorkers
        /\ agg' = [agg EXCEPT !.cur[f] = stats_table[agg.l][f],
                              !.l = IF last THEN @ + 1 ELSE @,
                              !.k = IF last THEN 1 ELSE @ + 1]
        /\ UNCHANGED <<stats_table, counting, th, proc, bal, hist>>

(* aggregate(): one load, added to its sum. *)
Aggregate ==
    LET f == FieldsOf(agg.l)[agg.k]
        last == agg.k = Len(FieldsOf(agg.l))
    IN  /\ th.pc = "aggregate" /\ agg.l < NumWorkers
        /\ agg' = [agg EXCEPT !.cur[f] = @ + stats_table[agg.l][f],
                              !.l = IF last THEN @ + 1 ELSE @,
                              !.k = IF last THEN 1 ELSE @ + 1]
        /\ UNCHANGED <<stats_table, counting, th, proc, bal, hist>>

(* The sums are complete and are printed, with the difference to the sum   *)
(* of rx_packets before; prev = cur, of which nothing else is used.        *)
Aggregated ==
    /\ th.pc = "aggregate" /\ agg.l = NumWorkers
    /\ th' = [th EXCEPT !.pc = "workers"]
    /\ agg' = [l |-> RxLcore, k |-> 1, cur |-> NoSums, prev |-> agg.cur["rx"]]
    /\ hist' = [hist EXCEPT !.begun = NoSums]
    /\ UNCHANGED <<stats_table, counting, proc, bal>>

(* worker_processed(): one of its three loads.  mark: what the worker had  *)
(* processed when the first one was made.                                  *)
LoadWorker ==
    /\ th.pc = "workers" /\ proc.w < NumWorkers /\ proc.j <= 3
    /\ proc' = [proc EXCEPT !.acc = @ + stats_table[proc.w][Class[proc.j]], !.j = @ + 1]
    /\ hist' = [hist EXCEPT !.mark = IF proc.j = 1 THEN Processed(proc.w) ELSE @]
    /\ UNCHANGED <<stats_table, counting, th, agg, bal>>

(* Deviation: the counters are read a second time for worker_prev[]. *)
Sample_ReadAgain ==
    LET w == proc.w
        d == U64Sub(proc.acc, proc.worker_prev[w])
    IN  /\ th.pc = "workers" /\ w < NumWorkers /\ proc.j > 3
        /\ proc' = [proc EXCEPT !.w = w + 1, !.j = 1, !.acc = 0, !.worker_prev[w] = Processed(w)]
        /\ bal' = [load |-> [bal.load EXCEPT ![w] = d], sum |-> bal.sum + d,
                   max |-> IF d > bal.max THEN d ELSE bal.max,
                   max_idx |-> IF d > bal.max THEN w ELSE bal.max_idx,
                   min_idx |-> IF d < [bal.load EXCEPT ![w] = d][bal.min_idx] THEN w ELSE bal.min_idx]
        /\ hist' = [hist EXCEPT !.mark = 0, !.charged[w] = @ + d]
        /\ UNCHANGED <<stats_table, counting, th, agg>>

(* Deviation: the minimum is tracked like the maximum, from zero. *)
Sample_MinFromZero ==
    LET w == proc.w
        d == U64Sub(proc.acc, proc.worker_prev[w])
    IN  /\ th.pc = "workers" /\ w < NumWorkers /\ proc.j > 3
        /\ proc' = [proc EXCEPT !.w = w + 1, !.j = 1, !.acc = 0, !.worker_prev[w] = proc.acc]
        /\ bal' = [load |-> [bal.load EXCEPT ![w] = d], sum |-> bal.sum + d,
                   max |-> IF d > bal.max THEN d ELSE bal.max,
                   max_idx |-> IF d > bal.max THEN w ELSE bal.max_idx,
                   min_idx |-> IF d < 0 THEN w ELSE bal.min_idx]
        /\ hist' = [hist EXCEPT !.mark = 0, !.charged[w] = @ + d]
        /\ UNCHANGED <<stats_table, counting, th, agg>>

(* The load of worker w since the last tick, and the running sum, maximum  *)
(* and minimum.  charged: what has been attributed to w in all ticks.      *)
Sample ==
    LET w == proc.w
        d == U64Sub(proc.acc, proc.worker_prev[w])
    IN  /\ th.pc = "workers" /\ w < NumWorkers /\ proc.j > 3
        /\ proc' = [proc EXCEPT !.w = w + 1, !.j = 1, !.acc = 0, !.worker_prev[w] = proc.acc]
        /\ bal' = [load |-> [bal.load EXCEPT ![w] = d], sum |-> bal.sum + d,
                   max |-> IF d > bal.max THEN d ELSE bal.max,
                   max_idx |-> IF d > bal.max THEN w ELSE bal.max_idx,
                   min_idx |-> IF d < [bal.load EXCEPT ![w] = d][bal.min_idx] THEN w ELSE bal.min_idx]
        /\ hist' = [hist EXCEPT !.mark = 0, !.charged[w] = @ + d]
        /\ UNCHANGED <<stats_table, counting, th, agg>>

(* avg_pps >= REBALANCE_MIN_AVG_PPS && max_pps > avg_pps * 1.25 &&         *)
(* max_idx != min_idx.  The first pass only fills prev and worker_prev[].  *)
Imbalanced(elapsed) ==
    /\ Rebalance /\ NumWorkers > 1 /\ ~th.first
    /\ bal.sum >= MinAvg * NumWorkers * elapsed
    /\ 4 * bal.max * NumWorkers > 5 * bal.sum
    /\ bal.max_idx # bal.min_idx

(* The end of the iteration; elapsed: the time since the tick before. *)
Decide(elapsed) ==
    /\ th.pc = "workers" /\ proc.w = NumWorkers
    /\ th' = [th EXCEPT
          !.pc = "sleep", !.elapsed = elapsed,
          !.move = IF Imbalanced(elapsed) THEN <<bal.max_idx, bal.min_idx>> ELSE NoMove]
    /\ proc' = [proc EXCEPT !.w = 0]
    /\ UNCHANGED <<stats_table, counting, agg, bal, hist>>

StatsThread == \/ StartTick \/ Aggregate \/ Aggregated \/ LoadWorker \/ Sample
               \/ \E e \in 1 .. MaxElapsed : Decide(e)

Next == \/ StatsThread
        \/ CountRx
        \/ \E w \in Worker : CountNoSni(w) \/ \E i \in 1 .. 3 : CountClassified(w, Class[i])

Spec == Init /\ [][Next]_vars

-----------------------------------------------------------------------------
(* A snapshot mixes moments, but each of its sums lies between what the    *)
(* counters were when the snapshot began and what they are now, and so the *)
(* unsigned difference to the snapshot before does not wrap.               *)
SnapshotFresh ==
    th.pc = "aggregate" /\ agg.l = NumWorkers =>
        /\ agg.prev <= agg.cur["rx"]
        /\ \A f \in Field : hist.begun[f] <= agg.cur[f] /\ agg.cur[f] <= Total(f)

(* The load of a worker is read in three loads, but every packet that it   *)
(* classifies is charged to exactly one tick: the loads add up to what was *)
(* last read, and what is read is no less than what the worker had         *)
(* processed when the reading began, and no more than it has by now.       *)
LoadAttributed ==
    /\ \A w \in Worker : hist.charged[w] = proc.worker_prev[w]
    /\ th.pc = "workers" /\ proc.j > 3 => /\ proc.worker_prev[proc.w] <= hist.mark
                                         /\ hist.mark <= proc.acc
                                         /\ proc.acc <= Processed(proc.w)

(* The running maximum and minimum of the tick end in the right decision:  *)
(* buckets are moved exactly when the loads of this tick are out of        *)
(* balance, from a worker with the highest load to one with the lowest.    *)
DecisionExact ==
    LET loads == Range(bal.load)
        total == Sum(bal.load, NumWorkers)
    IN  th.pc = "sleep" /\ ~th.first =>
            /\ th.move # NoMove <=>
                  /\ Rebalance
                  /\ total >= MinAvg * NumWorkers * th.elapsed
                  /\ 4 * Max(loads) * NumWorkers > 5 * total
            /\ th.move # NoMove => /\ bal.load[th.move[1]] = Max(loads)
                                   /\ bal.load[th.move[2]] = Min(loads)
                                   /\ th.move[1] # th.move[2]
=============================================================================
