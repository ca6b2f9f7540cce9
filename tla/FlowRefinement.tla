--------------------------- MODULE FlowRefinement ---------------------------
(***************************************************************************)
(* FlowTable implements FlowSpec: what its hash table and its array of     *)
(* struct flow_state remember of a flow.                                   *)
(***************************************************************************)
EXTENDS FlowTable

(* The bytes of the stream that an entry holds, by sequence number. *)
Bytes(st) == {<<s, ByteAt(st, s)>> : s \in {n \in SeqNum : Has(st, n)}}

VerdictOf(st) == IF ~st.verdict_cached THEN "NONE"
                 ELSE IF st.no_sni_cached THEN "NO_SNI"
                 ELSE st.cached_action

Memory(st) == [bytes |-> Bytes(st), verdict |-> VerdictOf(st), last |-> st.last_seen_tsc]

(* A key that is not in the hash table is a flow nothing is known of. *)
Unknown == [bytes |-> {}, verdict |-> "NONE", last |-> 0]
Remembered(k) == IF hash[k] = NoSlot THEN Unknown ELSE Memory(StateOf(k))

Replied == IF out = NoOutcome THEN [action |-> "FORWARD", no_sni |-> FALSE]
           ELSE [key |-> out.key, action |-> out.action, no_sni |-> out.no_sni]

FS == INSTANCE FlowSpec WITH flow  <- [k \in Key |-> Remembered(k)],
                             reply <- Replied

(* The worker with its table, its window, its slots and its sweep keeps    *)
(* the promises of FlowSpec.                                               *)
ImplementsFlowSpec == FS!Spec
=============================================================================
