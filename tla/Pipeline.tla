------------------------------ MODULE Pipeline ------------------------------
(***************************************************************************)
(* The threads of src/main.c and the rings between them: RX polls the port *)
(* and spreads each burst over the worker rings, the workers decide and    *)
(* hand what is forwarded to the one TX ring, TX drains it to the port.    *)
(* main() launches them, waits for them after a signal, and frees what     *)
(* they share.  A full ring drops; nobody waits for anybody.               *)
(*                                                                         *)
(* A packet is named by its flow and by its place in the order of arrival. *)
(* Steering is fixed per flow here (module Steering has the rebalancing),  *)
(* and the verdict of a worker is any that module FlowTable can give.      *)
(*                                                                         *)
(* External: the port (how many packets a burst yields or takes), the mbuf *)
(* pool, and the rings, whose burst operations are atomic.                 *)
(***************************************************************************)
EXTENDS Integers, Sequences, SequencesExt, FiniteSets, Sums

CONSTANTS NumWorkers, \* -w (2..4)
          Flow,
          WorkerOf,   \* the worker of each flow
          RingCap,    \* WORKER_RING_SIZE - 1 usable slots
          TxCap,      \* TX_RING_SIZE - 1 usable slots
          Burst,      \* BURST_SIZE
          InitMayFail,\* whether a worker may fail to get its scratch or table
          MaxRx       \* bound on the packets that arrive

ASSUME PipelineAssumption ==
    /\ NumWorkers \in Nat \ {0}
    /\ WorkerOf \in [Flow -> 0 .. NumWorkers - 1]
    /\ RingCap \in Nat \ {0}
    /\ TxCap \in Nat \ {0}
    /\ Burst \in Nat \ {0}
    /\ InitMayFail \in BOOLEAN
    /\ MaxRx \in Nat

Worker == 0 .. NumWorkers - 1
Mbuf == [flow : Flow, no : 1 .. MaxRx]
Shared == {"port", "rings", "rules"}

VARIABLES force_quit,
          main,    \* pc of main(), and the shared resources not yet freed
          rx,      \* RX: pc, bufs (to do), dest[][], the worker whose share is next
          ring,    \* worker_rings
          wk,      \* the workers: pc, bufs (to do), fwd, sent
          tx_ring,
          tx,      \* TX: pc, bufs
          stats,   \* pc of the Stats thread
          cnt,     \* sums of the per-lcore counters
          arrived, \* history: all packets received, in order
          nic,     \* history: packets handed to the port, in order
          freed    \* history: mbufs returned to the pool, by who freed them

vars == <<force_quit, main, rx, ring, wk, tx_ring, tx, stats, cnt,
          arrived, nic, freed>>

(* The counters, by the lcore that writes them. *)
Counters == {"rx", "rx_dropped", "classified", "dropped", "forwarded", "tx"}

Freers == {"rx", "worker", "tx"}

NoShares == [w \in Worker |-> << >>]

Init == /\ force_quit = FALSE
        /\ main = [pc |-> "rx", res |-> Shared]
        /\ rx = [pc |-> "off", bufs |-> << >>, nb_rx |-> 0, dest |-> NoShares, next |-> 0]
        /\ ring = NoShares
        /\ wk = [w \in Worker |->
                    [pc |-> "off", bufs |-> << >>, fwd |-> << >>, sent |-> 0]]
        /\ tx_ring = << >>
        /\ tx = [pc |-> "off", bufs |-> << >>]
        /\ stats = "off"
        /\ cnt = [c \in Counters |-> 0]
        /\ arrived = << >>
        /\ nic = << >>
        /\ freed = [t \in Freers |-> {}]

Add(c, n) == cnt' = [cnt EXCEPT ![c] = @ + n]

(* rte_pktmbuf_free() *)
Free(who, bufs) == freed' = [freed EXCEPT ![who] = @ \cup bufs]

(* The first n elements, or all; and the rest. *)
Take(s, n) == IF n < Len(s) THEN SubSeq(s, 1, n) ELSE s
Rest(s, n) == SubSeq(s, n + 1, Len(s))

(* rte_ring_enqueue_burst(): how many of s fit a ring of capacity cap that *)
(* holds r.                                                                *)
Fits(r, s, cap) == IF Len(s) <= cap - Len(r) THEN Len(s) ELSE cap - Len(r)

(* signal_handler() *)
Signal == /\ ~force_quit
          /\ force_quit' = TRUE
          /\ UNCHANGED <<main, rx, ring, wk, tx_ring, tx, stats, cnt,
                         arrived, nic, freed>>

-----------------------------------------------------------------------------
(* rx_thread_main() *)
RxCheck ==
    /\ rx.pc = "check"
    /\ rx' = [rx EXCEPT !.pc = IF force_quit THEN "exit" ELSE "poll"]
    /\ UNCHANGED <<force_quit, main, ring, wk, tx_ring, tx, stats, cnt,
                   arrived, nic, freed>>

(* A burst of packets of the flows fs; it may be short or empty, as it is  *)
(* when the mbuf pool runs out.                                            *)
RxPoll(fs) ==
    LET bufs == [i \in 1 .. Len(fs) |-> [flow |-> fs[i], no |-> Len(arrived) + i]]
    IN  /\ rx.pc = "poll"
        /\ Len(arrived) + Len(fs) <= MaxRx
        /\ rx' = [pc |-> IF fs = << >> THEN "check" ELSE "spread",
                  bufs |-> bufs, nb_rx |-> Len(fs), dest |-> NoShares, next |-> 0]
        /\ arrived' = arrived \o bufs
        /\ UNCHANGED <<force_quit, main, ring, wk, tx_ring, tx, stats, cnt, nic, freed>>

(* The next packet of the burst joins the share of its worker; after the   *)
(* last one the burst is counted.                                          *)
RxSpread ==
    LET m == Head(rx.bufs)
        last == Len(rx.bufs) = 1
    IN  /\ rx.pc = "spread"
        /\ rx' = [rx EXCEPT !.pc = IF last THEN "enqueue" ELSE @,
                            !.bufs = Tail(@),
                            !.nb_rx = IF last THEN 0 ELSE @,
                            !.dest[WorkerOf[m.flow]] = Append(@, m)]
        /\ Add("rx", IF last THEN rx.nb_rx ELSE 0)
        /\ UNCHANGED <<force_quit, main, ring, wk, tx_ring, tx, stats,
                       arrived, nic, freed>>

(* Deviation: what does not fit is dropped but not freed. *)
RxEnqueue_Leak ==
    LET w == rx.next
        sent == Fits(ring[w], rx.dest[w], RingCap)
    IN  /\ rx.pc = "enqueue"
        /\ ring' = [ring EXCEPT ![w] = @ \o Take(rx.dest[w], sent)]
        /\ Add("rx_dropped", Len(rx.dest[w]) - sent)
        /\ rx' = [rx EXCEPT !.pc = IF w = NumWorkers - 1 THEN "check" ELSE @,
                            !.dest[w] = << >>, !.next = (w + 1) % NumWorkers]
        /\ UNCHANGED <<force_quit, main, wk, tx_ring, tx, stats, arrived, nic, freed>>

(* Deviation: the loop over the workers runs one too far. *)
RxEnqueue_OneTooMany ==
    LET w == rx.next
        sent == Fits(ring[w], rx.dest[w], RingCap)
    IN  /\ rx.pc = "enqueue"
        /\ ring' = [ring EXCEPT ![w] = @ \o Take(rx.dest[w], sent)]
        /\ Free("rx", ToSet(Rest(rx.dest[w], sent)))
        /\ Add("rx_dropped", Len(rx.dest[w]) - sent)
        /\ rx' = [rx EXCEPT !.pc = IF w = NumWorkers THEN "check" ELSE @,
                            !.dest[w] = << >>, !.next = IF w = NumWorkers THEN 0 ELSE w + 1]
        /\ UNCHANGED <<force_quit, main, wk, tx_ring, tx, stats, arrived, nic>>

(* Deviation: RX tries again until all has found room. *)
RxEnqueue_Retry ==
    LET w == rx.next
        sent == Fits(ring[w], rx.dest[w], RingCap)
        all == sent = Len(rx.dest[w])
    IN  /\ rx.pc = "enqueue"
        /\ ring' = [ring EXCEPT ![w] = @ \o Take(rx.dest[w], sent)]
        /\ rx' = [rx EXCEPT !.pc = IF all /\ w = NumWorkers - 1 THEN "check" ELSE @,
                            !.dest[w] = Rest(@, sent),
                            !.next = IF all THEN (w + 1) % NumWorkers ELSE w]
        /\ UNCHANGED <<force_quit, main, wk, tx_ring, tx, stats, cnt, arrived, nic, freed>>

(* The share of worker rx.next goes to its ring; what does not fit is      *)
(* dropped and freed.                                                      *)
RxEnqueue ==
    LET w == rx.next
        sent == Fits(ring[w], rx.dest[w], RingCap)
    IN  /\ rx.pc = "enqueue"
        /\ ring' = [ring EXCEPT ![w] = @ \o Take(rx.dest[w], sent)]
        /\ Free("rx", ToSet(Rest(rx.dest[w], sent)))
        /\ Add("rx_dropped", Len(rx.dest[w]) - sent)
        /\ rx' = [rx EXCEPT !.pc = IF w = NumWorkers - 1 THEN "check" ELSE @,
                            !.dest[w] = << >>, !.next = (w + 1) % NumWorkers]
        /\ UNCHANGED <<force_quit, main, wk, tx_ring, tx, stats, arrived, nic>>

RX == \/ RxCheck \/ RxSpread \/ RxEnqueue
      \/ \E n \in 0 .. Burst : \E fs \in [1 .. n -> Flow] : RxPoll(fs)

-----------------------------------------------------------------------------
(* worker_thread_main(): dpi_engine_alloc_scratch() and                    *)
(* parser_flow_table_create(), either of which ends the thread.            *)
WInit(w) ==
    /\ wk[w].pc = "init"
    /\ \E ok \in {TRUE} \cup (IF InitMayFail THEN {FALSE} ELSE {}) :
          wk' = [wk EXCEPT ![w].pc = IF ok THEN "check" ELSE "exit"]
    /\ UNCHANGED <<force_quit, main, rx, ring, tx_ring, tx, stats, cnt,
                   arrived, nic, freed>>

WCheck(w) ==
    /\ wk[w].pc = "check"
    /\ wk' = [wk EXCEPT ![w].pc = IF force_quit THEN "exit" ELSE "poll"]
    /\ UNCHANGED <<force_quit, main, rx, ring, tx_ring, tx, stats, cnt,
                   arrived, nic, freed>>

(* Deviation: a worker takes full bursts only. *)
WDequeue_Bulk(w) ==
    /\ wk[w].pc = "poll"
    /\ LET full == Len(ring[w]) >= Burst
       IN  /\ wk' = [wk EXCEPT ![w].pc = IF full THEN "batch" ELSE "check",
                               ![w].bufs = IF full THEN Take(ring[w], Burst) ELSE << >>]
           /\ ring' = [ring EXCEPT ![w] = IF full THEN Rest(@, Burst) ELSE @]
    /\ UNCHANGED <<force_quit, main, rx, tx_ring, tx, stats, cnt, arrived, nic, freed>>

WDequeue(w) ==
    /\ wk[w].pc = "poll"
    /\ wk' = [wk EXCEPT ![w].pc = IF ring[w] = << >> THEN "check" ELSE "batch",
                        ![w].bufs = Take(ring[w], Burst)]
    /\ ring' = [ring EXCEPT ![w] = Rest(@, Len(Take(@, Burst)))]
    /\ UNCHANGED <<force_quit, main, rx, tx_ring, tx, stats, cnt, arrived, nic, freed>>

(* The next packet of the batch is filtered out or gets the verdict DROP,  *)
(* and is freed ...                                                        *)
WDrop(w) ==
    /\ wk[w].pc = "batch" /\ wk[w].bufs # << >>
    /\ wk' = [wk EXCEPT ![w].bufs = Tail(@)]
    /\ Free("worker", {Head(wk[w].bufs)})
    /\ cnt' = [cnt EXCEPT !["classified"] = @ + 1, !["dropped"] = @ + 1]
    /\ UNCHANGED <<force_quit, main, rx, ring, tx_ring, tx, stats, arrived, nic>>

(* Deviation: fwd[] is filled from the back. *)
WForward_Reversed(w) ==
    /\ wk[w].pc = "batch" /\ wk[w].bufs # << >>
    /\ wk' = [wk EXCEPT ![w].bufs = Tail(@), ![w].fwd = <<Head(wk[w].bufs)>> \o @]
    /\ Add("classified", 1)
    /\ UNCHANGED <<force_quit, main, rx, ring, tx_ring, tx, stats, arrived, nic, freed>>

(* ... or is to be forwarded. *)
WForward(w) ==
    /\ wk[w].pc = "batch" /\ wk[w].bufs # << >>
    /\ wk' = [wk EXCEPT ![w].bufs = Tail(@), ![w].fwd = Append(@, Head(wk[w].bufs))]
    /\ Add("classified", 1)
    /\ UNCHANGED <<force_quit, main, rx, ring, tx_ring, tx, stats, arrived, nic, freed>>

(* The batch is done: what is forwarded goes to the TX ring ... *)
WEnqueue(w) ==
    LET sent == Fits(tx_ring, wk[w].fwd, TxCap)
    IN  /\ wk[w].pc = "batch" /\ wk[w].bufs = << >>
        /\ tx_ring' = tx_ring \o Take(wk[w].fwd, sent)
        /\ wk' = [wk EXCEPT ![w].pc = IF wk[w].fwd = << >> THEN "check" ELSE "count",
                            ![w].sent = sent, ![w].fwd = Rest(@, sent)]
        /\ UNCHANGED <<force_quit, main, rx, ring, tx, stats, cnt, arrived, nic, freed>>

(* Deviation: the whole batch is counted as forwarded. *)
WCount_All(w) ==
    /\ wk[w].pc = "count"
    /\ cnt' = [cnt EXCEPT !["forwarded"] = @ + wk[w].sent + Len(wk[w].fwd)]
    /\ Free("worker", ToSet(wk[w].fwd))
    /\ wk' = [wk EXCEPT ![w].pc = "check", ![w].fwd = << >>, ![w].sent = 0]
    /\ UNCHANGED <<force_quit, main, rx, ring, tx_ring, tx, stats, arrived, nic>>

(* ... is counted, and what did not fit is dropped and freed. *)
WCount(w) ==
    /\ wk[w].pc = "count"
    /\ cnt' = [cnt EXCEPT !["forwarded"] = @ + wk[w].sent,
                          !["dropped"] = @ + Len(wk[w].fwd)]
    /\ Free("worker", ToSet(wk[w].fwd))
    /\ wk' = [wk EXCEPT ![w].pc = "check", ![w].fwd = << >>, ![w].sent = 0]
    /\ UNCHANGED <<force_quit, main, rx, ring, tx_ring, tx, stats, arrived, nic>>

WorkerThread(w) == \/ WInit(w) \/ WCheck(w) \/ WDequeue(w)
                   \/ WDrop(w) \/ WForward(w) \/ WEnqueue(w) \/ WCount(w)

-----------------------------------------------------------------------------
(* tx_thread_main() *)
TxCheck ==
    /\ tx.pc = "check"
    /\ tx' = [tx EXCEPT !.pc = IF force_quit THEN "exit" ELSE "poll"]
    /\ UNCHANGED <<force_quit, main, rx, ring, wk, tx_ring, stats, cnt,
                   arrived, nic, freed>>

TxDequeue ==
    /\ tx.pc = "poll"
    /\ tx' = [pc |-> IF tx_ring = << >> THEN "check" ELSE "batch",
              bufs |-> Take(tx_ring, Burst)]
    /\ tx_ring' = Rest(tx_ring, Len(Take(tx_ring, Burst)))
    /\ UNCHANGED <<force_quit, main, rx, ring, wk, stats, cnt, arrived, nic, freed>>

(* The port takes the first `sent'; the rest is freed, uncounted. *)
TxBurst(sent) ==
    /\ tx.pc = "batch" /\ sent <= Len(tx.bufs)
    /\ nic' = nic \o Take(tx.bufs, sent)
    /\ Add("tx", sent)
    /\ Free("tx", ToSet(Rest(tx.bufs, sent)))
    /\ tx' = [pc |-> "check", bufs |-> << >>]
    /\ UNCHANGED <<force_quit, main, rx, ring, wk, tx_ring, stats, arrived>>

TX == TxCheck \/ TxDequeue \/ \E sent \in 0 .. Burst : TxBurst(sent)

(* stats_thread_main(), as far as shutdown goes: it sees force_quit. *)
StatsExit ==
    /\ stats = "run" /\ force_quit
    /\ stats' = "exit"
    /\ UNCHANGED <<force_quit, main, rx, ring, wk, tx_ring, tx, cnt, arrived, nic, freed>>

-----------------------------------------------------------------------------
(* main(): the launches, in order. *)
LaunchRx ==
    /\ main.pc = "rx"
    /\ main' = [main EXCEPT !.pc = "workers"]
    /\ rx' = [rx EXCEPT !.pc = "check"]
    /\ UNCHANGED <<force_quit, ring, wk, tx_ring, tx, stats, cnt, arrived, nic, freed>>

LaunchWorker(w) ==
    /\ main.pc = "workers"
    /\ wk[w].pc = "off" /\ \A v \in 0 .. w - 1 : wk[v].pc # "off"
    /\ main' = [main EXCEPT !.pc = IF w = NumWorkers - 1 THEN "tx" ELSE @]
    /\ wk' = [wk EXCEPT ![w].pc = "init"]
    /\ UNCHANGED <<force_quit, rx, ring, tx_ring, tx, stats, cnt, arrived, nic, freed>>

LaunchTx ==
    /\ main.pc = "tx"
    /\ main' = [main EXCEPT !.pc = "stats"]
    /\ tx' = [tx EXCEPT !.pc = "check"]
    /\ UNCHANGED <<force_quit, rx, ring, wk, tx_ring, stats, cnt, arrived, nic, freed>>

LaunchStats ==
    /\ main.pc = "stats"
    /\ main' = [main EXCEPT !.pc = "wait"]
    /\ stats' = "run"
    /\ UNCHANGED <<force_quit, rx, ring, wk, tx_ring, tx, cnt, arrived, nic, freed>>

AllExited == /\ rx.pc = "exit" /\ tx.pc = "exit" /\ stats = "exit"
             /\ \A w \in Worker : wk[w].pc = "exit"

(* Deviation: the TX lcore is not waited for. *)
Join_NotTx == /\ main.pc = "wait"
              /\ rx.pc = "exit" /\ stats = "exit" /\ \A w \in Worker : wk[w].pc = "exit"
              /\ main' = [main EXCEPT !.pc = "port"]
              /\ UNCHANGED <<force_quit, rx, ring, wk, tx_ring, tx, stats, cnt,
                             arrived, nic, freed>>

(* rte_eal_mp_wait_lcore() *)
Join == /\ main.pc = "wait"
        /\ AllExited
        /\ main' = [main EXCEPT !.pc = "port"]
        /\ UNCHANGED <<force_quit, rx, ring, wk, tx_ring, tx, stats, cnt,
                       arrived, nic, freed>>

(* The port is closed, then the rings and the rules are freed.  The mbufs  *)
(* the rings still hold go with the pool.                                  *)
Release(r, next) ==
    /\ main.pc = r
    /\ main' = [pc |-> next, res |-> main.res \ {r}]
    /\ UNCHANGED <<force_quit, rx, ring, wk, tx_ring, tx, stats, cnt,
                   arrived, nic, freed>>

Main == \/ LaunchRx \/ LaunchTx \/ LaunchStats \/ Join
        \/ \E w \in Worker : LaunchWorker(w)
        \/ Release("port", "rings") \/ Release("rings", "rules")
        \/ Release("rules", "done")

(* main() has returned. *)
Done == main.pc = "done" /\ UNCHANGED vars

Next == \/ Signal \/ RX \/ TX \/ StatsExit \/ Main \/ Done
        \/ \E w \in Worker : WorkerThread(w)

Spec == Init /\ [][Next]_vars

(* Every thread runs on an lcore of its own and never blocks. *)
Fairness == /\ WF_vars(RX) /\ WF_vars(TX) /\ WF_vars(StatsExit) /\ WF_vars(Main)
            /\ \A w \in Worker : WF_vars(WorkerThread(w))

FairSpec == Spec /\ Fairness

-----------------------------------------------------------------------------
RxPc == {"off", "check", "poll", "spread", "enqueue", "exit"}
WorkerPc == {"off", "init", "check", "poll", "batch", "count", "exit"}
TxPc == {"off", "check", "poll", "batch", "exit"}
MainPc == {"rx", "workers", "tx", "stats", "wait", "port", "rings", "rules", "done"}

(* Every variable has its type, and no ring or local array holds more than *)
(* it has room for: dest[][], bufs[] and fwd[] are arrays of BURST_SIZE.   *)
TypeOK ==
    /\ force_quit \in BOOLEAN
    /\ main \in [pc : MainPc, res : SUBSET Shared]
    /\ rx \in [pc : RxPc, bufs : Seq(Mbuf), nb_rx : 0 .. Burst,
              dest : [Worker -> Seq(Mbuf)], next : Worker]
    /\ ring \in [Worker -> Seq(Mbuf)]
    /\ wk \in [Worker -> [pc : WorkerPc, bufs : Seq(Mbuf), fwd : Seq(Mbuf), sent : 0 .. Burst]]
    /\ tx_ring \in Seq(Mbuf)
    /\ tx \in [pc : TxPc, bufs : Seq(Mbuf)]
    /\ stats \in {"off", "run", "exit"}
    /\ cnt \in [Counters -> Nat]
    /\ arrived \in Seq(Mbuf) /\ nic \in Seq(Mbuf)
    /\ freed \in [Freers -> SUBSET Mbuf]
    /\ Len(tx_ring) <= TxCap /\ Len(tx.bufs) <= Burst
    /\ \A w \in Worker : /\ Len(ring[w]) <= RingCap
                         /\ Len(rx.bufs) + Len(rx.dest[w]) <= Burst
                         /\ Len(wk[w].bufs) + Len(wk[w].fwd) <= Burst

(* The places an mbuf can be in: a ring, a thread's local array, the port. *)
PlaceNames == ({"rx", "tx_ring", "tx", "nic"} \X {0})
              \cup ({"dest", "ring", "bufs", "fwd"} \X Worker)
At(p) == CASE p[1] = "rx"      -> rx.bufs
           [] p[1] = "dest"    -> rx.dest[p[2]]
           [] p[1] = "ring"    -> ring[p[2]]
           [] p[1] = "bufs"    -> wk[p[2]].bufs
           [] p[1] = "fwd"     -> wk[p[2]].fwd
           [] p[1] = "tx_ring" -> tx_ring
           [] p[1] = "tx"      -> tx.bufs
           [] p[1] = "nic"     -> nic

Holders(m) == UNION {{<<p, i>> : i \in {j \in 1 .. Len(At(p)) : At(p)[j] = m}} :
                       p \in PlaceNames}

FreedBy(m) == {t \in Freers : m \in freed[t]}

(* Every mbuf received has exactly one owner: it sits once in one ring,    *)
(* array or queue, or it has been freed, never both.  No mbuf leaks when a *)
(* ring is full or a burst is short, and none is freed or enqueued twice.  *)
OneOwner ==
    \A i \in 1 .. Len(arrived) :
        Cardinality(Holders(arrived[i])) + Cardinality(FreedBy(arrived[i])) = 1

OnTheWay == [w \in Worker |-> Len(rx.dest[w]) + Len(ring[w]) + Len(wk[w].bufs)]
Decided == [w \in Worker |-> Len(wk[w].fwd) + wk[w].sent]
Uncounted == [w \in Worker |-> wk[w].sent]

(* The counters account for every packet: what was received was dropped by *)
(* RX, classified by a worker, or is on its way to one; what a worker      *)
(* classified it dropped, counted as forwarded, or still holds; what was   *)
(* forwarded is on its way to the port, was sent, or was freed by TX; and  *)
(* "dropped" counts exactly the mbufs that RX and the workers freed.       *)
Accounting ==
    /\ cnt["rx"] + rx.nb_rx = cnt["rx_dropped"] + cnt["classified"] + Len(rx.bufs)
                      + Sum(OnTheWay, NumWorkers)
    /\ cnt["classified"] = cnt["dropped"] + cnt["forwarded"] + Sum(Decided, NumWorkers)
    /\ cnt["forwarded"] + Sum(Uncounted, NumWorkers)
          = Len(tx_ring) + Len(tx.bufs) + cnt["tx"] + Cardinality(freed["tx"])
    /\ cnt["rx_dropped"] = Cardinality(freed["rx"])
    /\ cnt["dropped"] = Cardinality(freed["worker"])
    /\ cnt["tx"] = Len(nic)

(* Packets of one flow leave in the order they arrived, however the        *)
(* workers interleave on the TX ring, as long as steering is stable.       *)
FlowOrder ==
    \A i, j \in 1 .. Len(nic) :
        i < j /\ nic[i].flow = nic[j].flow => nic[i].no < nic[j].no

(* While any thread may still touch the port, a ring or the rule database, *)
(* main() has freed none of them.                                          *)
NoUseAfterFree ==
    (\/ rx.pc \notin {"off", "exit"} \/ tx.pc \notin {"off", "exit"} \/ stats = "run"
     \/ \E w \in Worker : wk[w].pc \notin {"off", "exit"}) => main.res = Shared

(* After a signal, at any moment from the first launch on, every thread    *)
(* ends and main() returns.                                                *)
ShutdownCompletes == force_quit ~> main.pc = "done"

Resolved(n) == n <= Len(arrived) /\ (FreedBy(arrived[n]) # {} \/ arrived[n] \in ToSet(nic))

(* Waiting for a worker that failed to start and will never read its ring. *)
Stranded(n) == /\ n <= Len(arrived)
               /\ \E w \in Worker : wk[w].pc = "exit" /\ arrived[n] \in ToSet(ring[w])

(* Unless the program is stopped, every packet received is eventually sent *)
(* or dropped; the only packets that can stay behind are those steered to  *)
(* a worker whose initialisation failed, which main() never notices.       *)
EveryPacketResolved ==
    \A n \in 1 .. MaxRx :
        (Len(arrived) >= n) ~> (force_quit \/ Resolved(n) \/ Stranded(n))
=============================================================================
