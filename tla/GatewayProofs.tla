---------------------------- MODULE GatewayProofs ----------------------------
(***************************************************************************)
(* Proofs about Gateway, for every set of workers and parts, every ring    *)
(* size and all limits with BurstTime <= Threshold < Timeout.              *)
(***************************************************************************)
EXTENDS Gateway, TLAPS

(* Packets of the flow wait in a ring only while the flow is not quiet: in *)
(* this model time does not pass them by.                                  *)
Fresh == Waiting => quiet = 0

(* The bucket is stamped by the flow's packets among others, so it looks   *)
(* idle for no longer than the flow has been quiet and a burst takes; and  *)
(* a bucket that was found idle still is, unless a packet came since.      *)
Idleness == /\ idle <= quiet + BurstTime
            /\ check # {} /\ ~hist.stamped => idle > Threshold

(* A known flow that has paused for so long that its bucket may look idle  *)
(* is excused.                                                             *)
Paused == quiet > Threshold - BurstTime /\ ~Unknown => hist.excused

(* While the flow is not excused, whatever is known of it is with the      *)
(* worker of its bucket, is no older than the threshold, and has its       *)
(* verdict once the flow was caught.                                       *)
Home == ~hist.excused =>
            /\ \A w \in Worker \ {bucket_worker} : ring[w] = << >> /\ entry[w] = Absent
            /\ entry[bucket_worker].age <= Threshold
            /\ Waiting \/ entry[bucket_worker].age <= quiet
            /\ hist.caught => entry[bucket_worker].drop

GatewayInv == TypeOK /\ Fresh /\ Idleness /\ Paused /\ Home
-----------------------------------------------------------------------------
LEMMA AbsentFields == Absent.got = {} /\ Absent.drop = FALSE /\ Absent.age = 0
BY DEF Absent

LEMMA InitInv == Init => GatewayInv
<1> SUFFICES ASSUME Init PROVE GatewayInv
    OBVIOUS
<1> USE GatewayAssumption
<1>1. ~Waiting /\ Unknown
    BY DEF Init, Waiting, Unknown
<1>2. TypeOK
  <2>1. Absent \in [got : SUBSET Part, drop : BOOLEAN, age : 0 .. Timeout + 1]
      BY DEF Absent
  <2>2. << >> \in Seq(Part) /\ Len(<< >>) = 0
      OBVIOUS
  <2> QED BY <2>1, <2>2 DEF Init, TypeOK
<1>3. Fresh /\ Idleness /\ Paused
    BY <1>1 DEF Init, Fresh, Idleness, Paused
<1>4. Home
    BY AbsentFields DEF Init, Home
<1> QED BY <1>2, <1>3, <1>4 DEF GatewayInv

(* Type correctness, one action after the other. *)
LEMMA ReceiveType == ASSUME TypeOK, NEW p \in Part, Receive(p) PROVE TypeOK'
<1> USE GatewayAssumption
<1> DEFINE s == ring[bucket_worker]
           t == IF Len(s) < RingCap THEN Append(s, p) ELSE s
<1>1. s \in Seq(Part) /\ Len(s) <= RingCap
    BY DEF TypeOK
<1>2. t \in Seq(Part) /\ Len(t) <= RingCap
    BY <1>1
<1>3. ring' = [ring EXCEPT ![bucket_worker] = t]
    BY DEF Receive
<1> HIDE DEF t
<1>4. ring' \in [Worker -> Seq(Part)] /\ \A w \in Worker : Len(ring'[w]) <= RingCap
    BY <1>2, <1>3 DEF TypeOK
<1>5. hist' \in [caught : BOOLEAN, excused : BOOLEAN, stamped : BOOLEAN]
    BY DEF Receive, TypeOK
<1>6. idle' \in 0 .. Threshold + 1
    BY DEF Receive, Stamp, TypeOK
<1> QED BY <1>4, <1>5, <1>6 DEF Receive, TypeOK

LEMMA HandleType == ASSUME TypeOK, NEW w \in Worker, Handle(w) PROVE TypeOK'
<1> USE GatewayAssumption
<1>1. PICK e \in {entry[w]} \cup (IF Expired(entry[w]) THEN {Absent} ELSE {}) :
          LET got == e.got \cup {Head(ring[w])}
              drop == e.drop \/ got = Part
          IN  /\ entry' = [entry EXCEPT ![w] = [got |-> IF e.drop THEN e.got ELSE got,
                                                drop |-> drop, age |-> 0]]
              /\ out' = IF drop THEN "DROP" ELSE "FORWARD"
              /\ hist' = [hist EXCEPT !.caught = @ \/ drop]
    BY DEF Handle
<1>2. ring[w] \in Seq(Part) /\ ring[w] # << >> /\ Len(ring[w]) <= RingCap
    BY DEF TypeOK, Handle
<1>3. /\ Head(ring[w]) \in Part /\ Tail(ring[w]) \in Seq(Part)
      /\ Len(Tail(ring[w])) <= RingCap
    BY <1>2
<1>4. e.got \subseteq Part /\ e.drop \in BOOLEAN
  <2>1. entry[w].got \subseteq Part /\ entry[w].drop \in BOOLEAN
      BY DEF TypeOK
  <2> QED BY <1>1, <2>1, AbsentFields
<1>5. entry' \in [Worker -> [got : SUBSET Part, drop : BOOLEAN, age : 0 .. Timeout + 1]]
  <2>1. PICK g, d : /\ g \subseteq Part /\ d \in BOOLEAN
                    /\ entry' = [entry EXCEPT ![w] = [got |-> g, drop |-> d, age |-> 0]]
      BY <1>1, <1>3, <1>4
  <2>2. [got |-> g, drop |-> d, age |-> 0]
            \in [got : SUBSET Part, drop : BOOLEAN, age : 0 .. Timeout + 1]
      BY <2>1
  <2> QED BY <2>1, <2>2 DEF TypeOK
<1>6. hist' \in [caught : BOOLEAN, excused : BOOLEAN, stamped : BOOLEAN]
    BY <1>1, <1>4 DEF TypeOK
<1>7. out' \in {"NONE", "FORWARD", "DROP"}
    BY <1>1
<1>8. ring' \in [Worker -> Seq(Part)] /\ \A v \in Worker : Len(ring'[v]) <= RingCap
    BY <1>3 DEF Handle, TypeOK
<1> QED BY <1>5, <1>6, <1>7, <1>8 DEF Handle, TypeOK

LEMMA OlderType ==
    ASSUME NEW limit \in Nat, NEW age \in 0 .. limit + 1
    PROVE  Older(age, limit) \in 0 .. limit + 1
BY DEF Older

LEMMA NextType == TypeOK /\ [Next]_vars => TypeOK'
<1> SUFFICES ASSUME TypeOK, [Next]_vars PROVE TypeOK'
    OBVIOUS
<1> USE GatewayAssumption
<1>1. ASSUME NEW p \in Part, Receive(p) PROVE TypeOK'
    BY <1>1, ReceiveType
<1>2. CASE ReceiveOther
  <2>1. hist' \in [caught : BOOLEAN, excused : BOOLEAN, stamped : BOOLEAN]
      BY <1>2 DEF ReceiveOther, TypeOK
  <2>2. idle' \in 0 .. Threshold + 1
      BY <1>2 DEF ReceiveOther, Stamp, TypeOK
  <2> QED BY <1>2, <2>1, <2>2 DEF ReceiveOther, TypeOK
<1>3. ASSUME NEW w \in Worker, Handle(w) PROVE TypeOK'
    BY <1>3, HandleType
<1>4. ASSUME NEW w \in Worker, Sweep(w) PROVE TypeOK'
  <2>1. Absent \in [got : SUBSET Part, drop : BOOLEAN, age : 0 .. Timeout + 1]
      BY DEF Absent
  <2> QED BY <1>4, <2>1 DEF Sweep, TypeOK
<1>5. ASSUME NEW w \in Worker, CheckIdle(w) PROVE TypeOK'
    BY <1>5 DEF CheckIdle, TypeOK
<1>6. CASE Move
    BY <1>6 DEF Move, TypeOK
<1>7. CASE Tick
  <2>1. idle' \in 0 .. Threshold + 1 /\ quiet' \in 0 .. Threshold + 1
      BY <1>7, OlderType DEF Tick, TypeOK
  <2>2. entry' \in [Worker -> [got : SUBSET Part, drop : BOOLEAN, age : 0 .. Timeout + 1]]
    <3> SUFFICES ASSUME NEW w \in Worker
                 PROVE  (IF entry[w] = Absent THEN Absent
                         ELSE [entry[w] EXCEPT !.age = Older(@, Timeout)])
                            \in [got : SUBSET Part, drop : BOOLEAN, age : 0 .. Timeout + 1]
        BY <1>7 DEF Tick
    <3>1. entry[w] \in [got : SUBSET Part, drop : BOOLEAN, age : 0 .. Timeout + 1]
        BY DEF TypeOK
    <3>2. Older(entry[w].age, Timeout) \in 0 .. Timeout + 1
        BY <3>1, OlderType
    <3> QED BY <3>1, <3>2
  <2>3. hist' \in [caught : BOOLEAN, excused : BOOLEAN, stamped : BOOLEAN]
      BY <1>7 DEF Tick, TypeOK
  <2> QED BY <1>7, <2>1, <2>2, <2>3 DEF Tick, TypeOK
<1>8. CASE UNCHANGED vars
    BY <1>8 DEF vars, TypeOK
<1> QED BY <1>1, <1>2, <1>3, <1>4, <1>5, <1>6, <1>7, <1>8 DEF Next

-----------------------------------------------------------------------------
(* The flow is known to nobody but its worker, so nobody waits with it. *)
LEMMA ReceiveInv ==
    ASSUME GatewayInv, NEW p \in Part, Receive(p)
    PROVE  Fresh' /\ Idleness' /\ Paused' /\ Home'
<1> USE GatewayAssumption
<1> DEFINE s == ring[bucket_worker]
           t == IF Len(s) < RingCap THEN Append(s, p) ELSE s
<1>0. TypeOK /\ Fresh /\ Idleness /\ Paused /\ Home
    BY DEF GatewayInv
<1>1. s \in Seq(Part) /\ bucket_worker \in Worker
    BY <1>0 DEF TypeOK
<1>2. t # << >>
    BY <1>1
<1>3. /\ ring' = [ring EXCEPT ![bucket_worker] = t] /\ quiet' = 0
      /\ bucket_worker' = bucket_worker /\ check' = check /\ entry' = entry
      /\ hist' = [caught  |-> hist.caught /\ ~Unknown,
                  excused |-> hist.excused /\ ~Unknown,
                  stamped |-> check # {}]
      /\ idle' \in 0 .. BurstTime
    BY DEF Receive, Stamp
<1> HIDE DEF t
<1>4. Waiting'
    BY <1>0, <1>1, <1>2, <1>3 DEF Waiting, TypeOK
<1>5. Fresh' /\ Idleness' /\ Paused'
  <2>1. hist'.stamped <=> check # {}
      BY <1>3
  <2> QED BY <1>3, <2>1 DEF Fresh, Idleness, Paused
<1>6. ASSUME ~hist'.excused PROVE
        /\ \A w \in Worker \ {bucket_worker} : ring'[w] = << >> /\ entry'[w] = Absent
        /\ entry[bucket_worker].age <= Threshold
        /\ hist'.caught => entry[bucket_worker].drop
  <2>1. \A w \in Worker \ {bucket_worker} : ring'[w] = ring[w]
      BY <1>0, <1>1, <1>3 DEF TypeOK
  <2>2. CASE Unknown
    <3>1. \A w \in Worker : ring[w] = << >> /\ entry[w] = Absent
        BY <2>2, <1>0 DEF Unknown, Waiting, TypeOK
    <3>2. ~hist'.caught
        BY <2>2, <1>3
    <3>3. \A w \in Worker \ {bucket_worker} : ring'[w] = << >> /\ entry'[w] = Absent
        BY <2>1, <3>1, <1>3
    <3>4. entry[bucket_worker].age <= Threshold
        BY <3>1, <1>1, AbsentFields
    <3> QED BY <3>2, <3>3, <3>4
  <2>3. CASE ~Unknown
      BY <2>1, <2>3, <1>0, <1>1, <1>3, <1>6 DEF Home
  <2> QED BY <2>2, <2>3
<1> QED BY <1>3, <1>4, <1>5, <1>6 DEF Home

LEMMA HandleInv ==
    ASSUME GatewayInv, NEW w \in Worker, Handle(w)
    PROVE  /\ Fresh' /\ Idleness' /\ Paused' /\ Home'
           /\ hist.caught /\ ~hist.excused => out' = "DROP"
<1> USE GatewayAssumption
<1>0. TypeOK /\ Fresh /\ Idleness /\ Paused /\ Home
    BY DEF GatewayInv
<1>1. PICK e \in {entry[w]} \cup (IF Expired(entry[w]) THEN {Absent} ELSE {}) :
          LET got == e.got \cup {Head(ring[w])}
              drop == e.drop \/ got = Part
          IN  /\ entry' = [entry EXCEPT ![w] = [got |-> IF e.drop THEN e.got ELSE got,
                                                drop |-> drop, age |-> 0]]
              /\ out' = IF drop THEN "DROP" ELSE "FORWARD"
              /\ hist' = [hist EXCEPT !.caught = @ \/ drop]
    BY DEF Handle
<1> DEFINE got == e.got \cup {Head(ring[w])}
           drop == e.drop \/ got = Part
           new == [got |-> IF e.drop THEN e.got ELSE got, drop |-> drop, age |-> 0]
<1>2. /\ entry' = [entry EXCEPT ![w] = new] /\ hist' = [hist EXCEPT !.caught = @ \/ drop]
      /\ ring' = [ring EXCEPT ![w] = Tail(@)] /\ (drop => out' = "DROP")
      /\ bucket_worker' = bucket_worker /\ check' = check /\ idle' = idle /\ quiet' = quiet
      /\ ring[w] # << >>
    BY <1>1 DEF Handle
<1>3. new.drop = drop /\ new.age = 0
    OBVIOUS
<1>4. quiet = 0 /\ bucket_worker \in Worker
    BY <1>0, <1>2 DEF Fresh, Waiting, TypeOK
<1>5. /\ hist'.excused = hist.excused /\ hist'.stamped = hist.stamped
      /\ hist'.caught = (hist.caught \/ drop)
    BY <1>0, <1>2 DEF TypeOK
<1>6. Fresh' /\ Idleness' /\ Paused'
    BY <1>0, <1>2, <1>4, <1>5 DEF Fresh, Idleness, Paused
<1>7. ASSUME ~hist.excused
      PROVE  /\ w = bucket_worker
             /\ hist.caught => drop
  <2>1. w = bucket_worker
      BY <1>0, <1>2, <1>7 DEF Home
  <2>2. ~Expired(entry[w])
    <3>1. entry[w].age <= Threshold /\ entry[w].age \in Int
        BY <1>0, <1>7, <2>1 DEF Home, TypeOK
    <3> QED BY <3>1 DEF Expired
  <2>3. e = entry[w]
      BY <1>1, <2>2
  <2> QED BY <1>0, <1>7, <2>1, <2>3 DEF Home
<1> HIDE DEF got, drop, new
<1>8. Home'
  <2> SUFFICES ASSUME ~hist.excused
               PROVE  /\ \A v \in Worker \ {bucket_worker} : ring'[v] = << >> /\ entry'[v] = Absent
                      /\ entry'[bucket_worker].age <= Threshold
                      /\ entry'[bucket_worker].age <= quiet
                      /\ hist'.caught => entry'[bucket_worker].drop
      BY <1>2, <1>5 DEF Home
  <2>1. w = bucket_worker /\ (hist.caught => drop)
      BY <1>7
  <2>2. \A v \in Worker \ {bucket_worker} : ring'[v] = ring[v] /\ entry'[v] = entry[v]
      BY <1>0, <1>2, <2>1 DEF TypeOK
  <2>3. entry'[bucket_worker] = new
      BY <1>0, <1>2, <2>1 DEF TypeOK
  <2>4. \A v \in Worker \ {bucket_worker} : ring[v] = << >> /\ entry[v] = Absent
      BY <1>0 DEF Home
  <2>5. hist'.caught => entry'[bucket_worker].drop
      BY <1>3, <1>5, <2>1, <2>3
  <2>6. entry'[bucket_worker].age = 0
      BY <1>3, <2>3
  <2> QED BY <1>4, <2>2, <2>4, <2>5, <2>6
<1> QED BY <1>2, <1>6, <1>7, <1>8

LEMMA TickInv ==
    ASSUME GatewayInv, Tick
    PROVE  Fresh' /\ Idleness' /\ Paused' /\ Home'
<1> USE GatewayAssumption
<1>0. TypeOK /\ Fresh /\ Idleness /\ Paused /\ Home
    BY DEF GatewayInv
<1>1. /\ ~Waiting /\ idle' = Older(idle, Threshold) /\ quiet' = Older(quiet, Threshold)
      /\ bucket_worker' = bucket_worker /\ check' = check /\ ring' = ring
      /\ hist' = [hist EXCEPT !.excused = @ \/ (quiet' > Threshold - BurstTime /\ ~Unknown)]
      /\ entry' = [w \in Worker |->
                    IF entry[w] = Absent THEN Absent
                    ELSE [entry[w] EXCEPT !.age = Older(@, Timeout)]]
    BY DEF Tick
<1>2. ~Waiting'
    BY <1>1 DEF Waiting
<1>3. /\ idle \in Int /\ quiet \in Int /\ bucket_worker \in Worker
      /\ hist'.excused = (hist.excused \/ (quiet' > Threshold - BurstTime /\ ~Unknown))
      /\ hist'.stamped = hist.stamped /\ hist'.caught = hist.caught
    BY <1>0, <1>1 DEF TypeOK
<1>4. idle' <= quiet' + BurstTime /\ idle' >= idle /\ idle' \in Int /\ quiet' \in Int
    BY <1>0, <1>1, <1>3 DEF Idleness, Older
<1>5. Fresh' /\ Idleness'
    BY <1>0, <1>1, <1>2, <1>3, <1>4 DEF Fresh, Idleness
<1>6. Unknown => Unknown'
    BY <1>1, <1>2 DEF Unknown
<1>7. Paused'
    BY <1>3, <1>6 DEF Paused
<1>8. Home'
  <2> DEFINE b == bucket_worker
  <2> SUFFICES ASSUME ~hist'.excused
               PROVE  /\ \A v \in Worker \ {b} : ring'[v] = << >> /\ entry'[v] = Absent
                      /\ entry'[b].age <= Threshold
                      /\ entry'[b].age <= quiet'
                      /\ hist'.caught => entry'[b].drop
      BY <1>1 DEF Home
  <2>1. /\ ~hist.excused /\ (quiet' <= Threshold - BurstTime \/ Unknown)
        /\ \A v \in Worker \ {b} : ring[v] = << >> /\ entry[v] = Absent
        /\ entry[b].age <= quiet /\ (hist.caught => entry[b].drop)
    <3>1. ~hist.excused /\ ~(quiet' > Threshold - BurstTime /\ ~Unknown)
        BY <1>3
    <3>2. quiet' <= Threshold - BurstTime \/ Unknown
        BY <3>1, <1>4
    <3> QED BY <1>0, <1>1, <3>1, <3>2, Zenon DEF Home
  <2>2. \A v \in Worker \ {b} : ring'[v] = << >> /\ entry'[v] = Absent
      BY <1>1, <2>1
  <2>3. CASE entry[b] = Absent
    <3>1. entry'[b] = Absent
        BY <1>1, <1>3, <2>3
    <3>2. quiet' >= 0
        BY <1>0, <1>1 DEF TypeOK, Older
    <3> QED BY <1>3, <2>1, <2>2, <2>3, <3>1, <3>2, AbsentFields
  <2>4. CASE entry[b] # Absent
    <3>1. ~Unknown
        BY <2>4, <1>3 DEF Unknown
    <3>2. entry[b] \in [got : SUBSET Part, drop : BOOLEAN, age : 0 .. Timeout + 1]
        BY <1>0, <1>3 DEF TypeOK
    <3>3. entry'[b].age = Older(entry[b].age, Timeout) /\ entry'[b].drop = entry[b].drop
        BY <1>1, <1>3, <2>4, <3>2
    <3>4. quiet' <= Threshold /\ quiet' = quiet + 1
        BY <1>1, <1>3, <2>1, <3>1 DEF Older
    <3>5. entry'[b].age <= quiet'
        BY <1>3, <2>1, <3>2, <3>3, <3>4 DEF Older
    <3>6. entry'[b].age \in Int
        BY <3>2, <3>3 DEF Older
    <3> QED BY <1>3, <1>4, <2>1, <2>2, <3>3, <3>4, <3>5, <3>6
  <2> QED BY <2>3, <2>4
<1> QED BY <1>5, <1>7, <1>8

(* A known flow that is not excused has no expired entry to sweep. *)
LEMMA SweepInv ==
    ASSUME GatewayInv, NEW w \in Worker, Sweep(w)
    PROVE  Fresh' /\ Idleness' /\ Paused' /\ Home'
<1> USE GatewayAssumption
<1>0. TypeOK /\ Fresh /\ Idleness /\ Paused /\ Home
    BY DEF GatewayInv
<1>1. /\ entry' = [entry EXCEPT ![w] = Absent] /\ entry[w].age > Timeout
      /\ bucket_worker' = bucket_worker /\ check' = check /\ ring' = ring
      /\ idle' = idle /\ quiet' = quiet /\ hist' = hist
    BY DEF Sweep, Expired
<1>2. Waiting' <=> Waiting
    BY <1>1 DEF Waiting
<1>3. Unknown => Unknown'
    BY <1>1, <1>2 DEF Unknown
<1>4. hist.excused
  <2> SUFFICES ASSUME ~hist.excused PROVE FALSE
      OBVIOUS
  <2>1. w # bucket_worker => entry[w].age = 0
      BY <1>0, AbsentFields DEF Home
  <2>2. w = bucket_worker => entry[w].age <= Threshold
      BY <1>0 DEF Home
  <2>3. entry[w].age \in Int
      BY <1>0 DEF TypeOK
  <2> QED BY <1>1, <2>1, <2>2, <2>3
<1> QED BY <1>0, <1>1, <1>2, <1>3, <1>4 DEF Fresh, Idleness, Paused, Home

(* A bucket is moved under a flow that is not excused only when nobody     *)
(* knows the flow.                                                         *)
LEMMA MoveInv ==
    ASSUME GatewayInv, Move
    PROVE  Fresh' /\ Idleness' /\ Paused' /\ Home'
<1> USE GatewayAssumption
<1>0. TypeOK /\ Fresh /\ Idleness /\ Paused /\ Home
    BY DEF GatewayInv
<1>1. /\ check # {} /\ bucket_worker' \in check /\ check' = {}
      /\ idle' = idle /\ ring' = ring /\ entry' = entry /\ quiet' = quiet
      /\ hist' = [hist EXCEPT !.excused = @ \/ hist.stamped, !.stamped = FALSE]
    BY DEF Move
<1>2. /\ hist'.excused <=> hist.excused \/ hist.stamped
      /\ hist'.caught = hist.caught
    BY <1>0, <1>1 DEF TypeOK
<1>3. (Waiting' <=> Waiting) /\ (Unknown' <=> Unknown)
    BY <1>1 DEF Waiting, Unknown
<1>4. Fresh' /\ Idleness' /\ Paused'
    BY <1>0, <1>1, <1>2, <1>3 DEF Fresh, Idleness, Paused
<1>5. ASSUME ~hist'.excused PROVE Unknown /\ ~hist.caught
  <2>1. idle > Threshold /\ idle \in Int /\ quiet \in Int
      BY <1>0, <1>1, <1>2, <1>5 DEF Idleness, TypeOK
  <2>2. quiet > Threshold - BurstTime
      BY <1>0, <2>1 DEF Idleness
  <2>3. Unknown
      BY <1>0, <1>2, <1>5, <2>2 DEF Paused
  <2>4. ~entry[bucket_worker].drop
      BY <1>0, <2>3, AbsentFields DEF Unknown, TypeOK
  <2> QED BY <1>0, <1>2, <1>5, <2>3, <2>4 DEF Home
<1>6. Home'
  <2> SUFFICES ASSUME ~hist'.excused
               PROVE  /\ \A v \in Worker : ring'[v] = << >> /\ entry'[v] = Absent
                      /\ entry'[bucket_worker'].age <= Threshold
                      /\ entry'[bucket_worker'].age <= quiet'
                      /\ ~hist'.caught
      BY DEF Home
  <2>1. \A v \in Worker : ring'[v] = << >> /\ entry'[v] = Absent
      BY <1>1, <1>5 DEF Unknown, Waiting
  <2>2. bucket_worker' \in Worker /\ quiet' >= 0
      BY <1>0, <1>1 DEF TypeOK
  <2> QED BY <1>2, <1>5, <2>1, <2>2, AbsentFields
<1> QED BY <1>4, <1>6

(* A fresh stamp is no older than a burst takes. *)
LEMMA StampAge ==
    ASSUME NEW age \in 0 .. BurstTime, NEW q \in 0 .. Threshold + 1
    PROVE  age <= q + BurstTime
BY GatewayAssumption

(* What leaves the flow and its bucket alone: a packet of another flow,    *)
(* the idle check, a step of nobody.                                       *)
LEMMA OtherInv ==
    ASSUME GatewayInv, \/ ReceiveOther
                       \/ \E w \in Worker : CheckIdle(w)
                       \/ UNCHANGED vars
    PROVE  Fresh' /\ Idleness' /\ Paused' /\ Home'
<1> USE GatewayAssumption
<1>0. TypeOK /\ Fresh /\ Idleness /\ Paused /\ Home
    BY DEF GatewayInv
<1>1. /\ bucket_worker' = bucket_worker /\ ring' = ring /\ entry' = entry /\ quiet' = quiet
      /\ hist'.excused = hist.excused /\ hist'.caught = hist.caught
    BY <1>0 DEF ReceiveOther, CheckIdle, vars, TypeOK
<1>2. (Waiting' <=> Waiting) /\ (Unknown' <=> Unknown)
    BY <1>1 DEF Waiting, Unknown
<1>3. Fresh' /\ Paused' /\ Home'
    BY <1>0, <1>1, <1>2 DEF Fresh, Paused, Home
<1>4. CASE ReceiveOther
  <2>1. idle' \in 0 .. BurstTime
      BY <1>4 DEF ReceiveOther, Stamp
  <2>2. quiet' \in 0 .. Threshold + 1
      BY <1>0, <1>1 DEF TypeOK
  <2>3. idle' <= quiet' + BurstTime
      BY <2>1, <2>2, StampAge
  <2>4. check' # {} => hist'.stamped
      BY <1>0, <1>4 DEF ReceiveOther, TypeOK
  <2> QED BY <1>3, <2>3, <2>4 DEF Idleness
<1>5. CASE \E w \in Worker : CheckIdle(w)
    BY <1>0, <1>1, <1>3, <1>5 DEF CheckIdle, Idleness
<1>6. CASE UNCHANGED vars
    BY <1>0, <1>3, <1>6 DEF vars, Idleness
<1> QED BY <1>4, <1>5, <1>6

LEMMA NextInv == GatewayInv /\ [Next]_vars => GatewayInv'
<1> SUFFICES ASSUME GatewayInv, [Next]_vars PROVE GatewayInv'
    OBVIOUS
<1>1. TypeOK'
    BY NextType DEF GatewayInv
<1>2. Fresh' /\ Idleness' /\ Paused' /\ Home'
    BY ReceiveInv, HandleInv, TickInv, SweepInv, MoveInv, OtherInv DEF Next
<1> QED BY <1>1, <1>2 DEF GatewayInv

LEMMA SpecGatewayInv == Spec => []GatewayInv
BY InitInv, NextInv, PTL DEF Spec

(* Type correctness: whatever is lost, moved, swept or delayed, rings stay *)
(* within their size and ages within their limits.                         *)
THEOREM GatewayTypeOK == Spec => []TypeOK
<1>1. GatewayInv => TypeOK
    BY DEF GatewayInv
<1> QED BY SpecGatewayInv, <1>1, PTL

(* Once a packet of a flow has been dropped all later ones are, by         *)
(* whichever worker they reach, for every number of workers, parts and     *)
(* ring slots and whenever BurstTime <= Threshold < Timeout; the only      *)
(* exceptions are a pause longer than the threshold less the time a burst  *)
(* takes, and the window between the idle check and the move of the bucket.*)
THEOREM GatewayDropSticks == Spec => DropSticks
<1>1. ASSUME GatewayInv, [Next]_vars, hist.caught, ~hist.excused,
             NEW w \in Worker, Len(ring'[w]) < Len(ring[w])
      PROVE  out' = "DROP"
  <2>1. TypeOK
      BY <1>1 DEF GatewayInv
  <2>2. Len(ring[w]) \in Nat
      BY <2>1 DEF TypeOK
  <2>3. ring' # ring
      BY <1>1, <2>2
  <2>4. ASSUME NEW p \in Part, Receive(p) PROVE FALSE
    <3> DEFINE s == ring[bucket_worker]
               t == IF Len(s) < RingCap THEN Append(s, p) ELSE s
    <3>1. s \in Seq(Part) /\ bucket_worker \in Worker
        BY <2>1 DEF TypeOK
    <3>2. Len(t) >= Len(s) /\ Len(t) \in Nat
        BY <3>1
    <3>3. ring' = [ring EXCEPT ![bucket_worker] = t]
        BY <2>4 DEF Receive
    <3> HIDE DEF t
    <3>4. ring'[w] = IF w = bucket_worker THEN t ELSE ring[w]
        BY <2>1, <3>3 DEF TypeOK
    <3> QED BY <1>1, <2>2, <3>2, <3>4
  <2>5. PICK v \in Worker : Handle(v)
      BY <1>1, <2>3, <2>4 DEF Next, ReceiveOther, Sweep, CheckIdle, Move, Tick, vars
  <2> QED BY <1>1, <2>5, HandleInv
<1>2. GatewayInv /\ [Next]_vars
        => [hist.caught /\ ~hist.excused /\ (\E w \in Worker : Len(ring'[w]) < Len(ring[w]))
              => out' = "DROP"]_vars
    BY <1>1
<1> QED BY SpecGatewayInv, <1>2, PTL DEF Spec, DropSticks
=============================================================================
