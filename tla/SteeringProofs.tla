--------------------------- MODULE SteeringProofs ---------------------------
(***************************************************************************)
(* Proofs about Steering, for any number of buckets and workers, any burst *)
(* size and any threshold.                                                 *)
(***************************************************************************)
EXTENDS Steering, TLAPS

(* A burst's stamp is the time it began; stamps lie in the past, and the   *)
(* burst at hand is the youngest.                                          *)
Clocks == /\ rx.tsc = rx.began
          /\ rx.began <= now
          /\ st.tsc <= now
          /\ \A b \in Bucket : sent[b].began <= rx.began

(* The burst of the last packet of bucket b began long before the tick, or *)
(* the packet raced with the move.                                         *)
IdleOrRaced(b) == raced[b] \/ st.tsc - sent[b].began > Threshold

(* Between the idle check and the store: the bucket at hand is one of the  *)
(* overloaded worker, it is idle or RX has raced, and there is room for    *)
(* the move.                                                               *)
StoreReady ==
    st.pc = "store" => /\ st.b < NumBuckets
                       /\ st.moved < MaxPerPass
                       /\ bucket_worker[st.b] = st.over
                       /\ IdleOrRaced(st.b)

(* RX has stored the stamp of the last packet of a bucket, or is about to. *)
StampStored ==
    \A b \in Bucket :
        \/ sent[b].began <= bucket_last_seen_tsc[b]
        \/ rx.bucket = b /\ rx.todo = {"stamp"}

(* Of a packet that has only its load to do, the stamp is in the table.    *)
StampBeforeLoad ==
    rx.todo = {"load"} => bucket_last_seen_tsc[rx.bucket] = rx.tsc

(* If a bucket has left the worker of its last packet, that packet's burst *)
(* began longer ago than the threshold, or the packet raced with the move. *)
MovedAfterPause ==
    \A b \in Bucket :
        sent[b].worker # -1 /\ bucket_worker[b] # sent[b].worker =>
            now - sent[b].began > Threshold \/ raced[b]

IInv == /\ TypeOK /\ Clocks /\ StoreReady /\ StampStored
        /\ StampBeforeLoad /\ MovedAfterPause

(* Deciding that a bucket is idle does not underflow: the stamp is older   *)
(* than the time of the tick by more than the threshold.                   *)
LEMMA IdleEnoughIsIdle ==
    ASSUME NEW last \in Time, NEW tsc \in Time, IdleEnough(last, tsc)
    PROVE  tsc - last > Threshold
BY SteeringAssumption DEF IdleEnough, U64Sub, Time

(* The initial state satisfies the invariant. *)
LEMMA InitIInv == Init => IInv
<1> SUFFICES ASSUME Init PROVE IInv
    OBVIOUS
<1>1. \A b \in Bucket : b % NumWorkers \in Worker
    BY SteeringAssumption DEF Bucket, Worker
<1>2. TypeOK
    BY <1>1, SteeringAssumption
    DEF Init, TypeOK, RxState, StatsState, NeverSent, Bucket, Worker, Time
<1>3. Clocks /\ StoreReady /\ StampStored /\ StampBeforeLoad /\ MovedAfterPause
    BY SteeringAssumption
    DEF Init, Clocks, StoreReady, StampStored, StampBeforeLoad, MovedAfterPause,
        NeverSent, Bucket
<1> QED BY <1>2, <1>3 DEF IInv

(* RX taking a burst or a packet preserves the invariant. *)
LEMMA RxBurstIInv ==
    ASSUME IInv, NEW n \in 1 .. Burst, RxBurst(n)
    PROVE  IInv'
<1> USE SteeringAssumption
<1>0. n \in 0 .. Burst
    OBVIOUS
<1>1. rx' \in RxState
    BY <1>0 DEF IInv, RxBurst, TypeOK, RxState
<1>2. TypeOK'
    BY <1>1 DEF IInv, RxBurst, TypeOK
<1>3. Clocks'
    BY DEF IInv, RxBurst, TypeOK, RxState, Time, Clocks
<1>4. StoreReady' /\ StampStored' /\ StampBeforeLoad' /\ MovedAfterPause'
    BY DEF IInv, RxBurst, TypeOK, RxState, StoreReady, IdleOrRaced, StampStored, StampBeforeLoad,
           MovedAfterPause
<1> QED BY <1>2, <1>3, <1>4 DEF IInv

(* The next packet of the burst: only the local state of RX changes. *)
LEMMA RxPacketIInv ==
    ASSUME IInv, NEW b \in Bucket, RxPacket(b)
    PROVE  IInv'
<1> USE SteeringAssumption
<1>0. rx.left - 1 \in 0 .. Burst
    BY DEF IInv, RxPacket, TypeOK, RxState
<1>1. rx' \in RxState
    BY <1>0 DEF IInv, RxPacket, TypeOK, RxState
<1>2. TypeOK'
    BY <1>1 DEF IInv, RxPacket, TypeOK
<1>3. Clocks'
    BY DEF IInv, RxPacket, TypeOK, RxState, Clocks
<1>4. StampStored'
    BY DEF IInv, RxPacket, StampStored
<1>6. StampBeforeLoad'
  <2>1. "stamp" \in rx'.todo
      BY DEF IInv, RxPacket, TypeOK, RxState
  <2> QED BY <2>1 DEF StampBeforeLoad
<1>5. StoreReady' /\ MovedAfterPause'
    BY DEF IInv, RxPacket, StoreReady, IdleOrRaced, MovedAfterPause
<1> QED BY <1>2, <1>3, <1>4, <1>5, <1>6 DEF IInv

(* RX's store and RX's load, in whichever order they take effect, preserve *)
(* the invariant.                                                          *)
LEMMA RxStampIInv == IInv /\ RxStamp => IInv'
<1> SUFFICES ASSUME IInv, RxStamp PROVE IInv'
    OBVIOUS
<1> USE SteeringAssumption
<1>1. rx' \in RxState
    BY DEF IInv, RxStamp, TypeOK, RxState
<1>2. bucket_last_seen_tsc' \in [Bucket -> Time]
    BY DEF IInv, RxStamp, TypeOK, RxState
<1>3. TypeOK'
    BY <1>1, <1>2 DEF IInv, RxStamp, TypeOK
<1>4. Clocks'
    BY DEF IInv, RxStamp, TypeOK, RxState, Clocks
<1>5. StampStored'
  <2> SUFFICES ASSUME NEW b \in Bucket
               PROVE  sent[b].began <= bucket_last_seen_tsc'[b]
      BY DEF StampStored, RxStamp
  <2>1. CASE b = rx.bucket
      BY <2>1 DEF IInv, RxStamp, TypeOK, RxState, Clocks
  <2>2. CASE b # rx.bucket
      BY <2>2 DEF IInv, RxStamp, TypeOK, RxState, StampStored
  <2> QED BY <2>1, <2>2
<1>6. StampBeforeLoad'
    BY DEF IInv, RxStamp, TypeOK, RxState, StampBeforeLoad
<1>7. StoreReady' /\ MovedAfterPause'
    BY DEF IInv, RxStamp, StoreReady, IdleOrRaced, MovedAfterPause
<1> QED BY <1>3, <1>4, <1>5, <1>6, <1>7 DEF IInv

(* The load of bucket_worker: the packet is on its way, its stamp stored or due. *)
LEMMA RxLoadIInv == IInv /\ RxLoad => IInv'
<1> SUFFICES ASSUME IInv, RxLoad PROVE IInv'
    OBVIOUS
<1> USE SteeringAssumption
<1>a. rx.bucket \in Bucket /\ rx.tsc \in Time /\ rx.began \in Time /\ now \in Time
    BY DEF IInv, TypeOK, RxState
<1>b. bucket_worker[rx.bucket] \in Worker
    BY <1>a DEF IInv, TypeOK
<1>1. rx' \in RxState
    BY DEF IInv, RxLoad, TypeOK, RxState
<1>2. sent' \in [Bucket -> [worker : Worker \cup {-1}, began : Time, at : Time]]
    BY <1>a, <1>b DEF IInv, RxLoad, TypeOK
<1>3. raced' \in [Bucket -> BOOLEAN]
    BY <1>a, Zenon DEF IInv, RxLoad, TypeOK
<1>4. TypeOK'
    BY <1>1, <1>2, <1>3 DEF IInv, RxLoad, TypeOK
<1>5. Clocks'
    BY <1>a DEF IInv, RxLoad, TypeOK, Clocks, Time
<1>6. StampStored'
  <2> SUFFICES ASSUME NEW b \in Bucket
               PROVE  \/ sent'[b].began <= bucket_last_seen_tsc[b]
                      \/ rx'.bucket = b /\ rx'.todo = {"stamp"}
      BY DEF StampStored, RxLoad
  <2>1. CASE b # rx.bucket
      BY <2>1, <1>a DEF IInv, RxLoad, TypeOK, RxState, StampStored
  <2>2. CASE b = rx.bucket /\ "stamp" \in rx.todo
      BY <2>2, <1>a DEF IInv, RxLoad, TypeOK, RxState
  <2>3. CASE b = rx.bucket /\ "stamp" \notin rx.todo
    <3>1. rx.todo = {"load"}
        BY <2>3 DEF IInv, RxLoad, TypeOK, RxState
    <3>2. bucket_last_seen_tsc[b] = rx.began
        BY <2>3, <3>1 DEF IInv, StampBeforeLoad, Clocks
    <3>3. sent'[b].began = rx.began
        BY <2>3, <1>a DEF IInv, RxLoad, TypeOK
    <3> QED BY <3>2, <3>3, <1>a DEF Time
  <2> QED BY <2>1, <2>2, <2>3
<1>7. MovedAfterPause'
  <2> SUFFICES ASSUME NEW b \in Bucket,
                      sent'[b].worker # -1, bucket_worker[b] # sent'[b].worker
               PROVE  now - sent'[b].began > Threshold \/ raced'[b]
      BY DEF MovedAfterPause, RxLoad
  <2>1. b # rx.bucket
      BY <1>a DEF IInv, RxLoad, TypeOK
  <2>2. sent'[b] = sent[b] /\ raced'[b] = raced[b]
      BY <2>1, <1>a DEF IInv, RxLoad, TypeOK
  <2> QED BY <2>2 DEF IInv, MovedAfterPause
<1>8. StoreReady'
  <2> SUFFICES ASSUME st.pc = "store" PROVE IdleOrRaced(st.b)'
      BY DEF IInv, RxLoad, StoreReady
  <2>0. st.b \in Bucket
      BY DEF IInv, StoreReady, TypeOK, StatsState, Bucket
  <2>1. CASE st.b = rx.bucket
    <3>1. raced'[st.b]
        BY <2>1, <1>a, Zenon DEF IInv, RxLoad, TypeOK
    <3> QED BY <3>1 DEF RxLoad, IdleOrRaced
  <2>2. CASE st.b # rx.bucket
    <3>1. sent'[st.b] = sent[st.b] /\ raced'[st.b] = raced[st.b]
        BY <2>2, <2>0, <1>a DEF IInv, RxLoad, TypeOK
    <3> QED BY <3>1 DEF IInv, RxLoad, StoreReady, IdleOrRaced
  <2> QED BY <2>1, <2>2
<1>9. StampBeforeLoad'
    BY DEF IInv, RxLoad, TypeOK, RxState, StampBeforeLoad
<1> QED BY <1>4, <1>5, <1>6, <1>7, <1>8, <1>9 DEF IInv

-----------------------------------------------------------------------------
(* The steps of a rebalance pass that store nothing preserve the           *)
(* invariant; the idle check establishes StoreReady.                       *)
LEMMA StatsTickIInv ==
    ASSUME IInv, NEW over \in Worker, NEW under \in Worker, StatsTick(over, under)
    PROVE  IInv'
<1> USE SteeringAssumption
<1>0. 0 \in 0 .. NumBuckets /\ 0 \in 0 .. MaxPerPass
    OBVIOUS
<1>1. st' \in StatsState
    BY <1>0 DEF IInv, StatsTick, TypeOK, StatsState
<1>2. TypeOK'
    BY <1>1 DEF IInv, StatsTick, TypeOK
<1>3. Clocks' /\ StoreReady'
    BY DEF IInv, StatsTick, TypeOK, StatsState, Clocks, StoreReady, Time
<1>4. StampStored' /\ StampBeforeLoad' /\ MovedAfterPause'
    BY DEF IInv, StatsTick, StampStored, StampBeforeLoad, MovedAfterPause
<1> QED BY <1>2, <1>3, <1>4 DEF IInv

(* A bucket passed over, and the end of the pass. *)
LEMMA ScanStepIInv == IInv /\ (ScanSkip \/ ScanEnd) => IInv'
<1> SUFFICES ASSUME IInv, ScanSkip \/ ScanEnd PROVE IInv'
    OBVIOUS
<1> USE SteeringAssumption
<1>1. st' \in StatsState
  <2>1. CASE ScanSkip
    <3>1. st.b + 1 \in 0 .. NumBuckets
        BY <2>1 DEF IInv, ScanSkip, Scanning, TypeOK, StatsState
    <3> QED BY <2>1, <3>1 DEF IInv, ScanSkip, TypeOK, StatsState
  <2>2. CASE ScanEnd
      BY <2>2 DEF IInv, ScanEnd, TypeOK, StatsState
  <2> QED BY <2>1, <2>2
<1>2. TypeOK'
    BY <1>1 DEF IInv, ScanSkip, ScanEnd, TypeOK
<1>3. Clocks' /\ StoreReady'
    BY DEF IInv, ScanSkip, ScanEnd, Scanning, TypeOK, StatsState, Clocks, StoreReady
<1>4. StampStored' /\ StampBeforeLoad' /\ MovedAfterPause'
    BY DEF IInv, ScanSkip, ScanEnd, StampStored, StampBeforeLoad, MovedAfterPause
<1> QED BY <1>2, <1>3, <1>4 DEF IInv

(* The idle check passed: StoreReady is established. *)
LEMMA ScanLoadIInv == IInv /\ ScanLoad => IInv'
<1> SUFFICES ASSUME IInv, ScanLoad PROVE IInv'
    OBVIOUS
<1> USE SteeringAssumption
<1>a. st.b \in Bucket
    BY DEF IInv, ScanLoad, Scanning, TypeOK, StatsState, Bucket
<1>b. bucket_last_seen_tsc[st.b] \in Time /\ st.tsc \in Time /\ now \in Time
    BY <1>a DEF IInv, TypeOK, StatsState
<1>1. st' \in StatsState
    BY <1>b DEF IInv, ScanLoad, TypeOK, StatsState
<1>2. raced' \in [Bucket -> BOOLEAN]
    BY <1>a, Zenon DEF IInv, ScanLoad, TypeOK
<1>3. TypeOK'
    BY <1>1, <1>2 DEF IInv, ScanLoad, TypeOK
<1>4. raced' = [raced EXCEPT ![st.b] = @ \/ (rx.bucket = st.b /\ rx.todo = {"stamp"})]
    BY DEF ScanLoad
<1>5. \A b \in Bucket : raced[b] => raced'[b]
    BY <1>4, <1>a DEF IInv, TypeOK
<1>6. IdleOrRaced(st.b)'
  <2>1. CASE rx.bucket = st.b /\ rx.todo = {"stamp"}
    <3>1. raced'[st.b]
        BY <2>1, <1>4, <1>a, Zenon DEF IInv, TypeOK
    <3>2. st'.b = st.b
        BY DEF IInv, ScanLoad, TypeOK, StatsState
    <3> QED BY <3>1, <3>2 DEF IdleOrRaced
  <2>2. CASE ~(rx.bucket = st.b /\ rx.todo = {"stamp"})
    <3>1. st.tsc - bucket_last_seen_tsc[st.b] > Threshold
        BY <1>b, IdleEnoughIsIdle DEF ScanLoad
    <3>2. sent[st.b].began <= bucket_last_seen_tsc[st.b]
        BY <2>2, <1>a DEF IInv, StampStored
    <3>3. sent[st.b].began \in Nat
        BY <1>a DEF IInv, TypeOK, Time
    <3>4. st.tsc - sent[st.b].began > Threshold
        BY <3>1, <3>2, <3>3, <1>b DEF Time
    <3>5. st'.b = st.b /\ st'.tsc = st.tsc /\ sent' = sent
        BY DEF IInv, ScanLoad, TypeOK, StatsState
    <3> QED BY <3>4, <3>5 DEF IdleOrRaced
  <2> QED BY <2>1, <2>2
<1>7. Clocks' /\ StoreReady'
  <2>1. /\ st'.b = st.b /\ st'.moved = st.moved /\ st'.over = st.over
        /\ st'.tsc = st.tsc
      BY DEF IInv, ScanLoad, TypeOK, StatsState
  <2> QED BY <1>6, <2>1 DEF IInv, ScanLoad, Scanning, Clocks, StoreReady
<1>8. MovedAfterPause'
    BY <1>5 DEF IInv, ScanLoad, MovedAfterPause
<1>9. StampStored' /\ StampBeforeLoad'
    BY DEF IInv, ScanLoad, StampStored, StampBeforeLoad
<1> QED BY <1>3, <1>7, <1>8, <1>9 DEF IInv

(* The store that moves a bucket preserves the invariant: by the idle      *)
(* check its last packet's burst is old, or RX has raced with the move.    *)
LEMMA ScanStoreIInv == IInv /\ ScanStore => IInv'
<1> SUFFICES ASSUME IInv, ScanStore PROVE IInv'
    OBVIOUS
<1> USE SteeringAssumption
<1>a. st.b \in Bucket /\ st.under \in Worker
    BY DEF IInv, ScanStore, StoreReady, TypeOK, StatsState, Bucket
<1>b. st.b + 1 \in 0 .. NumBuckets /\ st.moved + 1 \in 0 .. MaxPerPass
    BY DEF IInv, ScanStore, StoreReady, TypeOK, StatsState
<1>1. st' \in StatsState
    BY <1>b DEF IInv, ScanStore, TypeOK, StatsState
<1>2. bucket_worker' \in [Bucket -> Worker]
    BY <1>a DEF IInv, ScanStore, TypeOK
<1>3. TypeOK'
    BY <1>1, <1>2 DEF IInv, ScanStore, TypeOK
<1>4. Clocks' /\ StoreReady'
    BY DEF IInv, ScanStore, TypeOK, StatsState, Clocks, StoreReady
<1>5. StampStored' /\ StampBeforeLoad'
    BY DEF IInv, ScanStore, StampStored, StampBeforeLoad
<1>6. MovedAfterPause'
  <2> SUFFICES ASSUME NEW b \in Bucket,
                      sent[b].worker # -1, bucket_worker'[b] # sent[b].worker,
                      ~raced[b]
               PROVE  now - sent[b].began > Threshold
      BY DEF MovedAfterPause, ScanStore
  <2>1. CASE b # st.b
    <3>1. bucket_worker'[b] = bucket_worker[b]
        BY <2>1, <1>a DEF IInv, ScanStore, TypeOK
    <3> QED BY <3>1 DEF IInv, MovedAfterPause
  <2>2. CASE b = st.b
    <3>1. st.tsc - sent[b].began > Threshold
        BY <2>2 DEF IInv, ScanStore, StoreReady, IdleOrRaced
    <3>2. st.tsc <= now
        BY DEF IInv, Clocks
    <3>3. sent[b].began \in Nat /\ st.tsc \in Nat /\ now \in Nat
        BY DEF IInv, TypeOK, StatsState, Time
    <3> QED BY <3>1, <3>2, <3>3
  <2> QED BY <2>1, <2>2
<1> QED BY <1>3, <1>4, <1>5, <1>6 DEF IInv

(* Time only grows, so what was long enough ago stays so. *)
LEMMA TickIInv == IInv /\ Tick => IInv'
<1> SUFFICES ASSUME IInv, Tick PROVE IInv'
    OBVIOUS
<1> USE SteeringAssumption
<1>1. TypeOK'
    BY DEF IInv, Tick, TypeOK, Time
<1>2. Clocks' /\ StoreReady'
    BY DEF IInv, Tick, TypeOK, RxState, StatsState, Clocks, StoreReady, IdleOrRaced,
           Time
<1>3. MovedAfterPause'
    BY DEF IInv, Tick, TypeOK, MovedAfterPause, Time
<1>4. StampStored' /\ StampBeforeLoad'
    BY DEF IInv, Tick, StampStored, StampBeforeLoad
<1> QED BY <1>1, <1>2, <1>3, <1>4 DEF IInv

(* Every step preserves the invariant. *)
LEMMA NextIInv == IInv /\ [Next]_vars => IInv'
<1> SUFFICES ASSUME IInv, [Next]_vars PROVE IInv'
    OBVIOUS
<1>1. CASE RX
    BY <1>1, RxBurstIInv, RxPacketIInv, RxStampIInv, RxLoadIInv DEF RX
<1>2. CASE Stats
    BY <1>2, StatsTickIInv, ScanStepIInv, ScanLoadIInv, ScanStoreIInv DEF Stats
<1>3. CASE Tick
    BY <1>3, TickIInv
<1>4. CASE UNCHANGED vars
    BY <1>4 DEF vars, IInv, TypeOK, Clocks, StoreReady, StampStored, StampBeforeLoad,
                MovedAfterPause, IdleOrRaced
<1> QED BY <1>1, <1>2, <1>3, <1>4 DEF Next

(* The invariant holds throughout. *)
LEMMA SpecIInv == Spec => []IInv
<1> QED BY InitIInv, NextIInv, PTL DEF Spec

-----------------------------------------------------------------------------
(* Whatever RX and the Stats thread interleave, every variable has its     *)
(* type: parser_bucket_select_worker() always returns a running worker.    *)
THEOREM SteeringTypeOK == Spec => []TypeOK
<1>1. IInv => TypeOK
    BY DEF IInv
<1> QED BY SpecIInv, <1>1, PTL

(* A bucket's packets change worker only after the bucket has been without *)
(* a packet for longer than the threshold less the time a burst takes,     *)
(* unless the packet before was steered between idle check and move, or    *)
(* RX had been held up for longer than that before it steered it.          *)
THEOREM SteeringHandoverExplained == Spec => HandoverExplained
<1> DEFINE Explained ==
        \A b \in Bucket :
          sent[b].worker # -1 /\ sent'[b].worker # sent[b].worker
             => \/ now - sent[b].at > Threshold - BurstTime
                \/ raced[b]
                \/ sent[b].at - sent[b].began > BurstTime
<1>1. IInv /\ [Next]_vars => [Explained]_vars
  <2> SUFFICES ASSUME IInv, Next, NEW b \in Bucket,
                      sent[b].worker # -1, sent'[b].worker # sent[b].worker,
                      ~raced[b], ~(sent[b].at - sent[b].began > BurstTime)
               PROVE  now - sent[b].at > Threshold - BurstTime
      OBVIOUS
  <2>1. RxLoad
      BY DEF Next, RX, Stats, RxBurst, RxPacket, RxStamp, StatsTick, ScanSkip,
             ScanLoad, ScanStore, ScanEnd, Tick
  <2>2. rx.bucket = b
      BY <2>1 DEF IInv, RxLoad, TypeOK, RxState
  <2>3. sent'[b].worker = bucket_worker[b]
      BY <2>1, <2>2 DEF IInv, RxLoad, TypeOK, RxState
  <2>4. now - sent[b].began > Threshold
      BY <2>3 DEF IInv, MovedAfterPause
  <2>5. sent[b].at \in Nat /\ sent[b].began \in Nat /\ now \in Nat
      BY DEF IInv, TypeOK, Time
  <2> QED BY <2>4, <2>5, SteeringAssumption
<1> QED BY SpecIInv, <1>1, PTL DEF Spec, HandoverExplained
=============================================================================
