------------------------------ MODULE FlowSpec ------------------------------
(***************************************************************************)
(* What one worker promises the flows it is given, without buffers, slots, *)
(* windows or parsing: it remembers bytes of each flow, each for ever as   *)
(* first seen; it decides a flow at most once, on a packet that brings     *)
(* something new; from then on every packet gets that decision; and it     *)
(* forgets a flow only after a pause longer than the timeout.              *)
(* FlowRefinement shows that FlowTable implements it.                      *)
(***************************************************************************)
EXTENDS Integers

CONSTANTS Key,             \* flow keys
          Packet,          \* packets: records with a field key
          Carries(_, _, _),\* Carries(pkt, s, b): pkt has byte b at position s
          Timeout

VARIABLES flow,  \* what is remembered of each flow
          now,
          reply  \* the answer to the last packet

vars == <<flow, now, reply>>

Verdict == {"FORWARD", "DROP", "NO_SNI"}

(* A flow nothing is known of.  bytes is a set of pairs: a position of the *)
(* stream and its byte.                                                    *)
Blank == [bytes |-> {}, verdict |-> "NONE", last |-> 0]

NoReply == [action |-> "FORWARD", no_sni |-> FALSE]

(* The packets of a flow are dropped exactly when it has been decided so.  *)
(* The packets of a flow without a server name are marked, all of them.    *)
ReplyTo(k, verdict) ==
    [key |-> k, action |-> IF verdict = "DROP" THEN "DROP" ELSE "FORWARD",
     no_sni |-> verdict = "NO_SNI"]

Init == /\ flow = [k \in Key |-> Blank]
        /\ now = 0
        /\ reply = NoReply

Expired(k) == now - flow[k].last > Timeout

(* b becomes c by bytes of pkt in positions that had none. *)
Extends(b, c, pkt) ==
    /\ b \subseteq c
    /\ \A x \in c \ b : Carries(pkt, x[1], x[2]) /\ \A y \in b : y[1] # x[1]

(* A decided flow only notes the time. *)
Decided(pkt, old) ==
    /\ old.verdict \in Verdict
    /\ flow'[pkt.key] = [old EXCEPT !.last = now]

(* An undecided one may learn some of the packet's bytes, and with them    *)
(* its verdict.                                                            *)
Undecided(pkt, old) ==
    LET new == flow'[pkt.key]
    IN  /\ old.verdict = "NONE"
        /\ new.last = now
        /\ Extends(old.bytes, new.bytes, pkt)
        /\ new.verdict = "NONE" \/ (new.verdict \in Verdict /\ new.bytes # old.bytes)

(* No room: the packet leaves no trace. *)
Untracked(pkt, old) == old = Blank /\ flow'[pkt.key] = Blank

Receive(pkt) ==
    LET k == pkt.key
    IN  /\ reply'.key = k
        /\ \E old \in {flow[k]} \cup (IF Expired(k) THEN {Blank} ELSE {}) :
              Decided(pkt, old) \/ Undecided(pkt, old) \/ Untracked(pkt, old)
        /\ reply' = ReplyTo(k, flow'[k].verdict)
        /\ \A j \in Key \ {k} :
              flow'[j] = flow[j] \/ (Expired(j) /\ flow'[j] = Blank)
        /\ UNCHANGED now

Tick == now' = now + 1 /\ UNCHANGED <<flow, reply>>

Next == Tick \/ \E pkt \in Packet : Receive(pkt)

Spec == Init /\ [][Next]_vars
=============================================================================
