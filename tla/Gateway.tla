------------------------------- MODULE Gateway -------------------------------
(***************************************************************************)
(* One flow through the whole gateway: RX steers its packets by the bucket *)
(* they share with other flows, the workers handle them from their rings   *)
(* with a flow table each, and the Stats thread moves the bucket when it   *)
(* finds it idle.  This is the composition of Steering, Pipeline and       *)
(* FlowTable as far as one flow can tell: of the flow a table remembers    *)
(* which Parts of its request have been placed (FlowTable shows that their *)
(* order does not matter), and it decides DROP when all have been.         *)
(*                                                                         *)
(* Time never ends here: instead of a clock there are ages, which stop at  *)
(* the first value beyond their limit.  RX stamps the packets of a burst   *)
(* with the time it took the burst, up to BurstTime before.  Otherwise a   *)
(* time unit is long against the work on a packet: time does not pass      *)
(* while packets wait in a ring.  The tables have room for the flow, and   *)
(* scans do not fail.  Steering one packet is one step; Steering has its   *)
(* loads and stores.                                                       *)
(***************************************************************************)
EXTENDS Integers, Sequences

CONSTANTS Worker,
          Part,      \* the segments of a request that a DROP rule matches
          Threshold, \* BUCKET_IDLE_THRESHOLD_MS (200 ms)
          BurstTime, \* how old a burst's stamp is at most when it is used
          Timeout,   \* flow_timeout_cycles (1.5 s)
          RingCap    \* usable slots of a worker ring

ASSUME GatewayAssumption == /\ Part # {}
                            /\ Threshold \in Nat /\ Timeout \in Nat
                            /\ BurstTime \in Nat /\ BurstTime <= Threshold
                            /\ Threshold < Timeout
                            /\ RingCap \in Nat \ {0}

VARIABLES bucket_worker, \* of the flow's bucket
          idle,          \* age of bucket_last_seen_tsc of that bucket
          check,         \* Stats: {} or {the worker the bucket will go to}
          ring,          \* worker_rings: the flow's packets in each
          entry,         \* the flow's entry in each worker's table
          out,           \* what happened to the packet handled last
          quiet,         \* age of the flow's last packet
          hist           \* history, see DropSticks

vars == <<bucket_worker, idle, check, ring, entry, out, quiet, hist>>

(* No entry, in the table of a worker. *)
Absent == [got |-> {}, drop |-> FALSE, age |-> 0]

Init == /\ bucket_worker \in Worker
        /\ idle = Threshold + 1
        /\ check = {}
        /\ ring = [w \in Worker |-> << >>]
        /\ entry = [w \in Worker |-> Absent]
        /\ out = "NONE"
        /\ quiet = Threshold + 1
        /\ hist = [caught |-> FALSE, excused |-> FALSE, stamped |-> FALSE]

Waiting == \E w \in Worker : ring[w] # << >>
Unknown == entry = [w \in Worker |-> Absent] /\ ~Waiting

-----------------------------------------------------------------------------
(* bucket_last_seen_tsc[bucket] = now_tsc: the stamp of the burst, which   *)
(* is none the older for the packets RX has steered before.                *)
Stamp == idle' \in {age \in 0 .. BurstTime : age <= idle}

(* Deviation: packets are spread over the rings instead of by the bucket. *)
Receive_AnyWorker(p) ==
    /\ Stamp /\ quiet' = 0
    /\ \E w \in Worker :
          ring' = [ring EXCEPT ![w] = IF Len(@) < RingCap THEN Append(@, p) ELSE @]
    /\ hist' = [caught  |-> hist.caught /\ ~Unknown,
                excused |-> hist.excused /\ ~Unknown,
                stamped |-> check # {}]
    /\ UNCHANGED <<bucket_worker, check, entry, out>>

(* Deviation: a full ring takes the packet too. *)
Receive_Overfill(p) ==
    /\ Stamp /\ quiet' = 0
    /\ ring' = [ring EXCEPT ![bucket_worker] = IF Len(@) <= RingCap THEN Append(@, p) ELSE @]
    /\ hist' = [caught  |-> hist.caught /\ ~Unknown,
                excused |-> hist.excused /\ ~Unknown,
                stamped |-> check # {}]
    /\ UNCHANGED <<bucket_worker, check, entry, out>>

(* RX: parser_bucket_select_worker() stamps the bucket and selects its     *)
(* worker; the packet goes to that worker's ring, or is lost if it is full.*)
Receive(p) ==
    /\ Stamp /\ quiet' = 0
    /\ ring' = [ring EXCEPT ![bucket_worker] =
                   IF Len(@) < RingCap THEN Append(@, p) ELSE @]
    /\ hist' = [caught  |-> hist.caught /\ ~Unknown,
                excused |-> hist.excused /\ ~Unknown,
                stamped |-> check # {}]
    /\ UNCHANGED <<bucket_worker, check, entry, out>>

(* A packet of another flow in the bucket. *)
ReceiveOther ==
    /\ Stamp
    /\ hist' = [hist EXCEPT !.stamped = check # {}]
    /\ UNCHANGED <<bucket_worker, check, ring, entry, out, quiet>>

-----------------------------------------------------------------------------
Expired(e) == e.age > Timeout

(* parser_flow_update() of a packet of the flow, and the worker's switch.  *)
(* The call may be the one that sweeps the table.                          *)
Handle(w) ==
    /\ ring[w] # << >>
    /\ \E e \in {entry[w]} \cup (IF Expired(entry[w]) THEN {Absent} ELSE {}) :
          LET got == e.got \cup {Head(ring[w])}
              drop == e.drop \/ got = Part
          IN  /\ entry' = [entry EXCEPT ![w] =
                              [got |-> IF e.drop THEN e.got ELSE got,
                               drop |-> drop, age |-> 0]]
              /\ out' = IF drop THEN "DROP" ELSE "FORWARD"
              /\ hist' = [hist EXCEPT !.caught = @ \/ drop]
    /\ ring' = [ring EXCEPT ![w] = Tail(@)]
    /\ UNCHANGED <<bucket_worker, idle, check, quiet>>

(* A packet of another flow makes worker w sweep its table. *)
Sweep(w) ==
    /\ Expired(entry[w])
    /\ entry' = [entry EXCEPT ![w] = Absent]
    /\ UNCHANGED <<bucket_worker, idle, check, ring, out, quiet, hist>>

-----------------------------------------------------------------------------
(* Deviation: the idle time of the bucket is not looked at. *)
CheckIdle_Always(u) ==
    /\ check = {} /\ u # bucket_worker
    /\ check' = {u}
    /\ hist' = [hist EXCEPT !.stamped = FALSE]
    /\ UNCHANGED <<bucket_worker, idle, ring, entry, out, quiet>>

(* parser_bucket_rebalance(): the bucket's worker is overloaded, u is not, *)
(* and the bucket is idle ...                                              *)
CheckIdle(u) ==
    /\ check = {} /\ u # bucket_worker
    /\ idle > Threshold
    /\ check' = {u}
    /\ hist' = [hist EXCEPT !.stamped = FALSE]
    /\ UNCHANGED <<bucket_worker, idle, ring, entry, out, quiet>>

(* ... and now it is moved. *)
Move ==
    /\ check # {}
    /\ bucket_worker' \in check
    /\ check' = {}
    /\ hist' = [hist EXCEPT !.excused = @ \/ hist.stamped, !.stamped = FALSE]
    /\ UNCHANGED <<idle, ring, entry, out, quiet>>

Older(age, limit) == IF age > limit THEN age ELSE age + 1

(* Time passes. *)
Tick ==
    /\ ~Waiting
    /\ idle' = Older(idle, Threshold)
    /\ quiet' = Older(quiet, Threshold)
    /\ entry' = [w \in Worker |->
                    IF entry[w] = Absent THEN Absent
                    ELSE [entry[w] EXCEPT !.age = Older(@, Timeout)]]
    /\ hist' = [hist EXCEPT !.excused = @ \/ (quiet' > Threshold - BurstTime /\ ~Unknown)]
    /\ UNCHANGED <<bucket_worker, check, ring, out>>

Next == \/ \E p \in Part : Receive(p)
        \/ ReceiveOther
        \/ \E w \in Worker : Handle(w) \/ Sweep(w) \/ CheckIdle(w)
        \/ Move
        \/ Tick

Spec == Init /\ [][Next]_vars

(* The workers poll their rings for ever, and a rebalance pass that has    *)
(* begun goes on.                                                          *)
FairSpec == /\ Spec
            /\ \A w \in Worker : WF_vars(Handle(w))
            /\ WF_vars(Move)

-----------------------------------------------------------------------------
Handled(p) == \E w \in Worker : Handle(w) /\ ring[w] # << >> /\ Head(ring[w]) = p

(* Every variable has its type. *)
TypeOK == /\ bucket_worker \in Worker
          /\ idle \in 0 .. Threshold + 1 /\ quiet \in 0 .. Threshold + 1
          /\ check \subseteq Worker
          /\ ring \in [Worker -> Seq(Part)]
          /\ \A w \in Worker : Len(ring[w]) <= RingCap
          /\ entry \in [Worker -> [got : SUBSET Part, drop : BOOLEAN,
                                   age : 0 .. Timeout + 1]]
          /\ out \in {"NONE", "FORWARD", "DROP"}
          /\ hist \in [caught : BOOLEAN, excused : BOOLEAN, stamped : BOOLEAN]

(* Once the gateway has dropped a packet of the flow it drops all later    *)
(* ones, on whatever worker, unless the flow has paused for longer than    *)
(* the idle threshold of buckets less the time a burst takes (and may have *)
(* been moved, or forgotten), or a packet came between the idle check and  *)
(* the move of its bucket.                                                 *)
DropSticks ==
    [][hist.caught /\ ~hist.excused /\ (\E w \in Worker : Len(ring'[w]) < Len(ring[w]))
          => out' = "DROP"]_vars

(* However the flow has been split over the workers before: if from some   *)
(* time on it never pauses for longer than the idle threshold less the     *)
(* time a burst takes, and all its parts keep reaching a worker            *)
(* (retransmission, or infinite_rx=1), then the worker it is steered to    *)
(* drops it from some time on.                                             *)
SteadyFlowCaught ==
    <>[](quiet <= Threshold - BurstTime) /\ (\A p \in Part : []<><<Handled(p)>>_vars)
        => <>[](entry[bucket_worker].drop)
=============================================================================
