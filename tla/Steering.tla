------------------------------ MODULE Steering ------------------------------
(***************************************************************************)
(* Load-aware RX steering: the bucket table of src/parser.c, shared        *)
(* without locks by the RX thread (parser_bucket_select_worker() for every *)
(* packet of a burst, src/main.c) and the Stats thread                     *)
(* (parser_bucket_rebalance() once per tick, src/stats.c).                 *)
(*                                                                         *)
(* Every load and store of the two arrays that the other thread can see is *)
(* a step.  RX's store to bucket_last_seen_tsc and its load from           *)
(* bucket_worker touch different words and may take effect in either order *)
(* (a store may wait in the store buffer while a later load executes).     *)
(*                                                                         *)
(* Which worker is overloaded depends on counters this module does not     *)
(* have: a tick rebalances between any two workers, or not at all.         *)
(***************************************************************************)
EXTENDS Integers, FiniteSets

CONSTANTS NumBuckets,  \* PARSER_NUM_BUCKETS (256)
          NumWorkers,  \* -w (2..4)
          MaxPerPass,  \* PARSER_MAX_BUCKETS_PER_PASS (8)
          Threshold,   \* idle_threshold_cycles (200 ms)
          FlowTimeout, \* a worker's flow table keeps idle flows this long (1.5 s)
          TscSpace,    \* 2^64
          Burst,       \* BURST_SIZE (32)
          BurstTime,   \* how long RX takes over a burst, unless held up
          Boot,        \* the cycle counter when main() starts the threads
          MaxTime      \* bound on the clock

ASSUME SteeringAssumption ==
    /\ NumBuckets \in Nat \ {0}
    /\ NumWorkers \in Nat \ {0}
    /\ MaxPerPass \in Nat
    /\ Threshold \in Nat
    /\ FlowTimeout \in Nat
    /\ Burst \in Nat \ {0}
    /\ BurstTime \in Nat
    /\ Boot \in Nat
    /\ MaxTime \in Nat
    /\ TscSpace \in Nat
    /\ Boot <= MaxTime
    /\ MaxTime < TscSpace

Bucket == 0 .. NumBuckets - 1
Worker == 0 .. NumWorkers - 1
Time == 0 .. MaxTime

VARIABLES bucket_worker,        \* written by Stats, read by RX
          bucket_last_seen_tsc, \* written by RX, read by Stats
          now,                  \* rte_get_timer_cycles()
          rx,                   \* RX: its burst and the packet at hand
          st,                   \* Stats: its rebalance pass
          sent,                 \* history: last packet of each bucket
          raced                 \* history: see RxLoad and ScanLoad

vars == <<bucket_worker, bucket_last_seen_tsc, now, rx, st, sent, raced>>

(* todo: the accesses the current packet has still to make; began: when    *)
(* the burst really began, whatever now_tsc says.                          *)
RxState == [left : 0 .. Burst, tsc : Time, began : Time, bucket : Bucket,
            todo : SUBSET {"stamp", "load"}]

StatsState == [pc : {"sleep", "scan", "store"}, tsc : Time, b : 0 .. NumBuckets,
               moved : 0 .. MaxPerPass, over : Worker, under : Worker]

(* Where and when RX sent a packet, and when the packet's burst began. *)
NeverSent == [worker |-> -1, began |-> 0, at |-> 0]

(* parser_bucket_table_init() and the launch of the threads *)
Init == /\ bucket_worker = [b \in Bucket |-> b % NumWorkers]
        /\ bucket_last_seen_tsc = [b \in Bucket |-> 0]
        /\ now = Boot
        /\ rx = [left |-> 0, tsc |-> 0, began |-> 0, bucket |-> 0, todo |-> {}]
        /\ st = [pc |-> "sleep", tsc |-> 0, b |-> 0, moved |-> 0, over |-> 0, under |-> 0]
        /\ sent = [b \in Bucket |-> NeverSent]
        /\ raced = [b \in Bucket |-> FALSE]

-----------------------------------------------------------------------------
(* Deviation: now_tsc is taken once, before the loop. *)
RxBurst_StampOnce(n) ==
    /\ rx.left = 0 /\ rx.todo = {}
    /\ rx' = [rx EXCEPT !.left = n, !.began = now, !.tsc = IF @ = 0 THEN now ELSE @]
    /\ UNCHANGED <<bucket_worker, bucket_last_seen_tsc, now, st, sent, raced>>

(* rx_thread_main(): a burst of n packets, with one time stamp for all. *)
RxBurst(n) ==
    /\ rx.left = 0 /\ rx.todo = {}
    /\ rx' = [rx EXCEPT !.left = n, !.began = now, !.tsc = now]
    /\ UNCHANGED <<bucket_worker, bucket_last_seen_tsc, now, st, sent, raced>>

(* The next packet of the burst hashes to bucket b. *)
RxPacket(b) ==
    /\ rx.left > 0 /\ rx.todo = {}
    /\ rx' = [rx EXCEPT !.left = @ - 1, !.bucket = b, !.todo = {"stamp", "load"}]
    /\ UNCHANGED <<bucket_worker, bucket_last_seen_tsc, now, st, sent, raced>>

(* bucket_last_seen_tsc[bucket] = now_tsc *)
RxStamp ==
    /\ "stamp" \in rx.todo
    /\ bucket_last_seen_tsc' = [bucket_last_seen_tsc EXCEPT ![rx.bucket] = rx.tsc]
    /\ rx' = [rx EXCEPT !.todo = @ \ {"stamp"}]
    /\ UNCHANGED <<bucket_worker, now, st, sent, raced>>

(* return bucket_worker[bucket]: the packet goes to that worker.  It races *)
(* if Stats has found the bucket idle but not moved it yet.                *)
RxLoad ==
    /\ "load" \in rx.todo
    /\ sent' = [sent EXCEPT ![rx.bucket] = [worker |-> bucket_worker[rx.bucket],
                                            began |-> rx.began, at |-> now]]
    /\ raced' = [raced EXCEPT ![rx.bucket] = st.pc = "store" /\ st.b = rx.bucket]
    /\ rx' = [rx EXCEPT !.todo = @ \ {"load"}]
    /\ UNCHANGED <<bucket_worker, bucket_last_seen_tsc, now, st>>

-----------------------------------------------------------------------------
(* stats_thread_main(): the tick takes its time stamp, and later decides   *)
(* to rebalance from one worker to another.                                *)
StatsTick(over, under) ==
    /\ st.pc = "sleep"
    /\ over # under
    /\ st' = [st EXCEPT !.pc = "scan", !.tsc = now, !.b = 0, !.moved = 0,
                        !.over = over, !.under = under]
    /\ UNCHANGED <<bucket_worker, bucket_last_seen_tsc, now, rx, sent, raced>>

U64Sub(a, b) == IF a >= b THEN a - b ELSE a - b + TscSpace

(* Deviation: the idle check without the test for a newer stamp. *)
IdleEnough_Underflow(last, tsc) == U64Sub(tsc, last) > Threshold

(* Deviation: a bucket idle for exactly the threshold counts as idle. *)
IdleEnough_AtThreshold(last, tsc) == ~(last >= tsc \/ U64Sub(tsc, last) < Threshold)

IdleEnough(last, tsc) == ~(last >= tsc \/ U64Sub(tsc, last) <= Threshold)

(* Deviation: the pass does not stop at MaxPerPass moves. *)
Scanning_NoCap == st.pc = "scan" /\ st.b < NumBuckets

(* The condition of the for loop. *)
Scanning == st.pc = "scan" /\ st.b < NumBuckets /\ st.moved < MaxPerPass

(* A bucket of another worker, or one seen recently, is passed over. *)
ScanSkip ==
    /\ Scanning
    /\ \/ bucket_worker[st.b] # st.over
       \/ ~IdleEnough(bucket_last_seen_tsc[st.b], st.tsc)
    /\ st' = [st EXCEPT !.b = @ + 1]
    /\ UNCHANGED <<bucket_worker, bucket_last_seen_tsc, now, rx, sent, raced>>

(* uint64_t last = bucket_last_seen_tsc[b] passes the idle check ...  The  *)
(* bucket's last packet races if its stamp is not stored yet.              *)
ScanLoad ==
    /\ Scanning
    /\ bucket_worker[st.b] = st.over
    /\ IdleEnough(bucket_last_seen_tsc[st.b], st.tsc)
    /\ st' = [st EXCEPT !.pc = "store"]
    /\ raced' = [raced EXCEPT ![st.b] = @ \/ (rx.bucket = st.b /\ rx.todo = {"stamp"})]
    /\ UNCHANGED <<bucket_worker, bucket_last_seen_tsc, now, rx, sent>>

(* ... and the bucket is moved. *)
ScanStore ==
    /\ st.pc = "store"
    /\ bucket_worker' = [bucket_worker EXCEPT ![st.b] = st.under]
    /\ st' = [st EXCEPT !.pc = "scan", !.b = @ + 1, !.moved = @ + 1]
    /\ UNCHANGED <<bucket_last_seen_tsc, now, rx, sent, raced>>

ScanEnd ==
    /\ st.pc = "scan" /\ ~Scanning
    /\ st' = [st EXCEPT !.pc = "sleep"]
    /\ UNCHANGED <<bucket_worker, bucket_last_seen_tsc, now, rx, sent, raced>>

Tick == /\ now < MaxTime
        /\ now' = now + 1
        /\ UNCHANGED <<bucket_worker, bucket_last_seen_tsc, rx, st, sent, raced>>

RX == \/ \E n \in 1 .. Burst : RxBurst(n)
      \/ \E b \in Bucket : RxPacket(b)
      \/ RxStamp
      \/ RxLoad

Stats == \/ \E v, w \in Worker : StatsTick(v, w)
         \/ ScanSkip
         \/ ScanLoad
         \/ ScanStore
         \/ ScanEnd

Next == RX \/ Stats \/ Tick

Spec == Init /\ [][Next]_vars

-----------------------------------------------------------------------------
(* Every variable has its type; in particular the worker that RX indexes   *)
(* dest[] and worker_rings[] with is one of the running workers.           *)
TypeOK == /\ bucket_worker \in [Bucket -> Worker]
          /\ bucket_last_seen_tsc \in [Bucket -> Time]
          /\ now \in Time
          /\ rx \in RxState
          /\ st \in StatsState
          /\ sent \in [Bucket -> [worker : Worker \cup {-1}, began : Time, at : Time]]
          /\ raced \in [Bucket -> BOOLEAN]

(* A packet of bucket b goes to another worker than the one before only    *)
(* (1) after the bucket has really been without a packet for as long as    *)
(* the idle threshold less the time a burst takes, since the stamp of a    *)
(* packet may be older than the packet by that; or (2) if the packet       *)
(* before was steered between idle check and move; or (3) if RX had been   *)
(* held up for longer than that within the burst of the packet before, so  *)
(* that it was sent with a stamp that was too old to tell anything.        *)
HandoverExplained ==
    [][\A b \in Bucket :
          sent[b].worker # -1 /\ sent'[b].worker # sent[b].worker
             => \/ now - sent[b].at > Threshold - BurstTime
                \/ raced[b]
                \/ sent[b].at - sent[b].began > BurstTime]_vars

(* README.md: "A bucket a live flow is actively using is never moved".     *)
ActiveNeverMoved ==
    [][\A b \in Bucket : bucket_worker'[b] # bucket_worker[b] =>
          now - bucket_last_seen_tsc[b] > Threshold]_vars

(* parser.h: "packets of one flow always land on the worker that owns that *)
(* flow's reassembly state", for as long as that worker keeps the state    *)
(* (FlowTimeout), races with a rebalance set aside.                        *)
FlowAffinity ==
    [][\A b \in Bucket :
          sent'[b] # sent[b] /\ sent[b].worker # -1
          /\ now - sent[b].at <= FlowTimeout /\ ~raced[b]
             => sent'[b].worker = sent[b].worker]_vars
=============================================================================
