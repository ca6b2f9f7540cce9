------------------------------ MODULE FlowTable ------------------------------
(***************************************************************************)
(* One worker's struct flow_table (src/parser.c) and what the worker loop  *)
(* of src/main.c does with a packet that passed the L2-L4 filter:          *)
(* parser_flow_update(), then the switch on its status, which scans and    *)
(* caches a verdict.  Each worker owns its table, so there is no other     *)
(* actor here but the clock.                                               *)
(*                                                                         *)
(* rte_hash (a map from flow keys to slots of the states array), the cycle *)
(* counter and Hyperscan are external.                                     *)
(***************************************************************************)
EXTENDS FlowState, L7Extract

CONSTANTS Key,          \* flow keys (5-tuples)
          HttpKeys,     \* the keys with destination port 80; the others: 443
          Packet,       \* frames: [key, seq, data, pad]
          Message,      \* what some flows carry: [key, base, data]
          Capacity,     \* FLOW_TABLE_CAPACITY
          Timeout,      \* timeout_cycles
          SweepInterval,\* FLOW_EXPIRY_SCAN_INTERVAL
          DropText,     \* texts a DROP rule matches: a set of cells
          ScanMayFail,  \* whether hs_scan() may report an error
          MaxTime       \* bound on the clock

ASSUME TableAssumption ==
    /\ HttpKeys \subseteq Key
    /\ Packet \subseteq [key : Key, seq : SeqNum, data : Seq(Byte), pad : Nat]
    /\ Capacity \in Nat \ {0}
    /\ Timeout \in Nat
    /\ SweepInterval \in Nat \ {0}
    /\ ScanMayFail \in BOOLEAN
    /\ MaxTime \in Nat

ASSUME MessageAssumption == Message \subseteq [key : Key, base : SeqNum, data : Seq(Byte)]

VARIABLES hash,       \* rte_hash: the slot of each key, or NoSlot
          states,     \* the array of struct flow_state
          call_count, \* calls of parser_flow_update(), modulo SweepInterval
          now,        \* rte_get_timer_cycles()
          out,        \* what the worker did with its last packet
          seen,       \* history: payload packets placed per entry, by key
          idle_calls  \* history: calls in a row that left an entry idle, by key

vars == <<hash, states, call_count, now, out, seen, idle_calls>>

Slot == 0 .. Capacity - 1
NoSlot == -1
Action == {"FORWARD", "DROP"}
Status == {"PENDING", "READY", "CACHED", "GIVE_UP", "NO_SNI"}
Outcome == [key : Key, status : Status, action : Action, no_sni : BOOLEAN,
            new : BOOLEAN]
NoOutcome == [status |-> "NONE", action |-> "FORWARD"]

Live(h) == {k \in Key : h[k] # NoSlot}
FreeSlots(h) == Slot \ {h[k] : k \in Key}

Init == /\ hash = [k \in Key |-> NoSlot]
        /\ states = [i \in Slot |-> ZeroState]
        /\ call_count = 0
        /\ now = 0
        /\ out = NoOutcome
        /\ seen = [k \in Key |-> {}]
        /\ idle_calls = [k \in Key |-> 0]

-----------------------------------------------------------------------------
(* extract_headers(): the payload is everything in the frame after the TCP *)
(* header, so the zero bytes that pad a short frame belong to it.          *)
Payload(pkt) == pkt.data \o [i \in 1 .. pkt.pad |-> NUL]

(* dpi_engine_scan(): the outcomes a scan of str can have.  DROP wins over *)
(* FORWARD; an internal error fails open.                                  *)
ScanResults(str) ==
    {IF \E i \in 1 .. Len(str) : str[i] \in DropText THEN "DROP" ELSE "FORWARD"}
    \cup (IF ScanMayFail THEN {"FORWARD"} ELSE {})

(* The extractor for the flow's traffic type, on the first len cells. *)
ExtractFrom(k, s) == IF k \in HttpKeys THEN try_extract_http(s) ELSE try_extract_tls_sni(s)
Extract(k, st, len) == ExtractFrom(k, PrefixOf(st, len))

(* flow_table_expire(): the idle flows. *)
Idle(h) == {k \in Live(h) : now - states[h[k]].last_seen_tsc > Timeout}

(* Entries that the last sweep, call_count calls ago, found idle and left. *)
Missed == {k \in Key : idle_calls[k] > call_count}

(* Deviation: the remainder is compared with the interval, never zero. *)
Swept_Never(h) == IF (call_count + 1) % SweepInterval # SweepInterval THEN {{}}
                  ELSE {gone \in SUBSET Idle(h) : Missed \subseteq gone}

(* What a call sweeps away.  Deleting while iterating may miss an entry,   *)
(* which "is simply picked up on the next sweep".                          *)
Swept(h) == IF (call_count + 1) % SweepInterval # 0 THEN {{}}
            ELSE {gone \in SUBSET Idle(h) : Missed \subseteq gone}

(* The history of an entry ends with the entry. *)
Forget(h) == [k \in Key |-> IF h[k] = NoSlot THEN {} ELSE seen[k]]

Delete(h, gone) == [k \in Key |-> IF k \in gone THEN NoSlot ELSE h[k]]

-----------------------------------------------------------------------------
(* The part of parser_flow_update() after the entry is found or made: the  *)
(* state placed so far, with the NUL that try_extract_http() writes behind *)
(* the prefix.                                                             *)
Reassemble(k, st, pkt) ==
    LET p == Place(st, pkt.seq, Payload(pkt))
    IN  IF k \in HttpKeys THEN [p EXCEPT !.buf[p.contig_len] = NUL] ELSE p

(* Deviation: the mark of a flow without a server name is lost. *)
CacheVerdict_NoMark(st, action) ==
    [st EXCEPT !.verdict_cached = TRUE, !.cached_action = action, !.contig_len = 0,
               !.no_sni_cached = FALSE]

(* parser_flow_cache_verdict() *)
CacheVerdict(st, action) ==
    [st EXCEPT !.verdict_cached = TRUE, !.cached_action = action, !.contig_len = 0]

(* What the worker learns and does; `new' tells that the packet made the   *)
(* entry of its flow.                                                      *)
Answer(k, status, action, no_sni, new) ==
    [key |-> k, status |-> status, action |-> action, no_sni |-> no_sni,
     new |-> new]

(* Deviation: only packets that are reassembled refresh the time stamp. *)
Results_StaleStamp(k, st, pkt, new) ==
    LET t == [st EXCEPT !.last_seen_tsc = now]
        p == Reassemble(k, t, pkt)
        x == Extract(k, p, p.contig_len)
    IN  IF st.verdict_cached
        THEN {[st  |-> st,
               out |-> Answer(k, "CACHED", t.cached_action, t.no_sni_cached, new)]}
        ELSE IF x.res = "FOUND"
        THEN {[st  |-> CacheVerdict(p, a),
               out |-> Answer(k, "READY", a, FALSE, new)] : a \in ScanResults(x.str)}
        ELSE {[st  |-> p, out |-> Answer(k, "PENDING", "FORWARD", FALSE, new)]}

(* The pairs of new flow state and outcome of a packet of flow k whose     *)
(* entry holds st: parser_flow_update() from the time stamp on, and the    *)
(* worker's switch.                                                        *)
Results(k, st, pkt, new) ==
    LET t == [st EXCEPT !.last_seen_tsc = now]
        p == Reassemble(k, t, pkt)
        x == Extract(k, p, p.contig_len)
    IN  IF t.verdict_cached
        THEN {[st  |-> t,
               out |-> Answer(k, "CACHED", t.cached_action, t.no_sni_cached, new)]}
        ELSE IF x.res = "FOUND"
        THEN {[st  |-> CacheVerdict(p, a),
               out |-> Answer(k, "READY", a, FALSE, new)] : a \in ScanResults(x.str)}
        ELSE IF x.res = "NOT_PRESENT"
        THEN {[st  |-> CacheVerdict([p EXCEPT !.no_sni_cached = TRUE], "FORWARD"),
               out |-> Answer(k, "NO_SNI", "FORWARD", TRUE, new)]}
        ELSE {[st  |-> p,
               out |-> Answer(k, IF p.contig_len >= Window THEN "GIVE_UP"
                                                           ELSE "PENDING",
                              "FORWARD", FALSE, new)]}

(* A packet of a flow that has an entry after the sweep. *)
KnownFlow(pkt, h) ==
    LET k == pkt.key
        st == states[h[k]]
    IN  /\ h[k] # NoSlot
        /\ \E r \in Results(k, st, pkt, FALSE) :
              /\ states' = [states EXCEPT ![h[k]] = r.st]
              /\ out' = r.out
        /\ hash' = h
        /\ seen' = [Forget(h) EXCEPT
                       ![k] = IF st.verdict_cached THEN @ ELSE @ \cup {pkt}]

(* Deviation: the slot is not zeroed. *)
NewFlow_NoMemset(pkt, h) ==
    LET k == pkt.key
    IN  /\ h[k] = NoSlot
        /\ \E i \in FreeSlots(h) : \E r \in Results(k, states[i], pkt, TRUE) :
              /\ hash' = [h EXCEPT ![k] = i]
              /\ states' = [states EXCEPT ![i] = r.st]
              /\ out' = r.out
        /\ seen' = [Forget(h) EXCEPT ![k] = {pkt}]

(* A packet of a flow that gets a new entry: any free slot, zeroed. *)
NewFlow(pkt, h) ==
    LET k == pkt.key
    IN  /\ h[k] = NoSlot
        /\ \E i \in FreeSlots(h), r \in Results(k, ZeroState, pkt, TRUE) :
              /\ hash' = [h EXCEPT ![k] = i]
              /\ states' = [states EXCEPT ![i] = r.st]
              /\ out' = r.out
        /\ seen' = [Forget(h) EXCEPT ![k] = {pkt}]

(* No free slot: fail open, the flow is not tracked. *)
TableFull(pkt, h) ==
    /\ h[pkt.key] = NoSlot
    /\ FreeSlots(h) = {}
    /\ hash' = h
    /\ out' = Answer(pkt.key, "GIVE_UP", "FORWARD", FALSE, FALSE)
    /\ seen' = Forget(h)
    /\ UNCHANGED states

HandlePacket(pkt) ==
    /\ call_count' = (call_count + 1) % SweepInterval
    /\ \E gone \in Swept(hash) :
          LET h == Delete(hash, gone)
          IN  KnownFlow(pkt, h) \/ NewFlow(pkt, h) \/ TableFull(pkt, h)
    /\ UNCHANGED now
    /\ idle_calls' = [k \in Key |-> IF k \in Idle(hash)' THEN idle_calls[k] + 1 ELSE 0]

Tick == /\ now < MaxTime
        /\ now' = now + 1
        /\ UNCHANGED <<hash, states, call_count, out, seen, idle_calls>>

Next == Tick \/ \E pkt \in Packet : HandlePacket(pkt)

Spec == Init /\ [][Next]_vars

-----------------------------------------------------------------------------
StateOf(k) == states[hash[k]]

(* Every variable has its type; no two flows share a slot. *)
TypeOK == /\ hash \in [Key -> Slot \cup {NoSlot}]
          /\ \A j, k \in Live(hash) : hash[j] = hash[k] => j = k
          /\ states \in [Slot -> State]
          /\ call_count \in 0 .. SweepInterval - 1
          /\ now \in Nat
          /\ out \in Outcome \cup {NoOutcome}
          /\ seen \in [Key -> SUBSET Packet]
          /\ idle_calls \in [Key -> Nat]

(* While a flow has no verdict, contig_len is exactly the gap-free prefix  *)
(* of its buffer: the extractors never read an offset that no segment has  *)
(* filled, and never stop short of one that is filled.  The NUL written at *)
(* contig_len by try_extract_http() therefore overwrites no stream byte.   *)
ContigExact ==
    \A k \in Live(hash) :
        LET st == StateOf(k)
        IN  ~st.verdict_cached =>
                /\ \A i \in 0 .. st.contig_len - 1 : st.filled[i]
                /\ ~st.filled[st.contig_len]

(* The entry of flow k is the same one before and after the step. *)
Survives(k) == /\ hash[k] # NoSlot
               /\ hash'[k] = hash[k]
               /\ ~(out'.key = k /\ out'.new)

(* "First wins": a byte placed for a sequence number keeps its value and   *)
(* its place in the stream for as long as the entry lives, whatever        *)
(* overlapping or earlier segments arrive and however the buffer shifts.   *)
FirstWins ==
    [][\A k \in Key : Survives(k) =>
          \A s \in SeqNum : Has(StateOf(k), s) =>
              /\ Has(StateOf(k)', s)
              /\ ByteAt(StateOf(k)', s) = ByteAt(StateOf(k), s)]_vars

(* Whether packet pkt carries the byte of sequence number s, and the byte. *)
Covers(pkt, s) == SeqSub(s, pkt.seq) < Len(Payload(pkt))
Carries(pkt, s, b) == Covers(pkt, s) /\ Payload(pkt)[SeqSub(s, pkt.seq) + 1] = b

(* A flow's buffer holds only bytes that packets of this flow brought      *)
(* since its entry was made: nothing of the slot's previous owner and      *)
(* nothing invented by a shift survives.                                   *)
OnlyOwnBytes ==
    \A k \in Live(hash) : \A s \in SeqNum :
        Has(StateOf(k), s) =>
            \E pkt \in seen[k] : Carries(pkt, s, ByteAt(StateOf(k), s))

(* All packets of S that carry data fit one window that starts at base. *)
FitsFrom(S, base) == \A pkt \in S : Payload(pkt) # << >> =>
                         SeqSub(pkt.seq, base) + Len(Payload(pkt)) <= Window

(* Segments that together fit the window are all kept, in whatever order   *)
(* they arrived.                                                           *)
NothingLost ==
    \A k \in Live(hash) :
        (\E base \in SeqNum : FitsFrom(seen[k], base)) =>
            \A pkt \in seen[k], s \in SeqNum : Covers(pkt, s) => Has(StateOf(k), s)

(* A cached verdict is the verdict of the flow's own reassembled stream:   *)
(* NO_SNI was cached for a ClientHello without a server name, any other    *)
(* action is a scan result of the string extracted from the gap-free       *)
(* prefix the buffer still holds.                                          *)
VerdictMatchesStream ==
    \A k \in Live(hash) :
        LET st == StateOf(k)
            x  == Extract(k, st, GapFrom(st.filled, 0, st.hwm))
        IN  st.verdict_cached =>
                IF st.no_sni_cached
                THEN x.res = "NOT_PRESENT" /\ st.cached_action = "FORWARD"
                ELSE x.res = "FOUND" /\ st.cached_action \in ScanResults(x.str)

(* The messages (requests, ClientHellos) that fit the window, whose        *)
(* destination the extractor finds or knows to be absent, and no tail of   *)
(* which it would take for a message.                                      *)
Telling ==
    {m \in Message :
        /\ Len(m.data) <= Window
        /\ ExtractFrom(m.key, m.data).res \in {"FOUND", "NOT_PRESENT"}
        /\ \A i \in 2 .. Len(m.data) :
              ExtractFrom(m.key, SubSeq(m.data, i, Len(m.data))).res = "PENDING"}

(* The payload of pkt is a piece of message m, whose first cell has        *)
(* sequence number m.base.                                                 *)
PieceOf(pkt, m) ==
    LET o == SeqSub(pkt.seq, m.base)
        n == Len(Payload(pkt))
    IN  n # 0 => o + n <= Len(m.data) /\ Payload(pkt) = SubSeq(m.data, o + 1, o + n)

(* The verdict in st is the one for the extractor's answer x. *)
Decides(st, x) ==
    IF x.res = "NOT_PRESENT"
    THEN st.no_sni_cached /\ st.cached_action = "FORWARD"
    ELSE ~st.no_sni_cached /\ st.cached_action \in ScanResults(x.str)

(* README.md, "Out-of-order arrival": of a flow that so far brought only   *)
(* pieces of one message, in whatever order, cut and repeated however,     *)
(* every verdict is that of the whole message, identical to the in-order   *)
(* case, and there is one as soon as every byte of it has been seen.       *)
OrderIndependent ==
    \A m \in Telling :
        LET k == m.key
            st == StateOf(k)
        IN  k \in Live(hash) /\ (\A pkt \in seen[k] : PieceOf(pkt, m)) =>
                /\ st.verdict_cached => Decides(st, ExtractFrom(k, m.data))
                /\ (\A s \in SeqNum : SeqSub(s, m.base) < Len(m.data) =>
                        \E pkt \in seen[k] : Covers(pkt, s))
                   => st.verdict_cached

(* Expiry needs no timer: whatever the clock does and whichever flows the  *)
(* packets belong to, an entry left idle is gone before the worker has had *)
(* two sweep intervals of packets, also if one sweep misses it.            *)
IdleGoneSoon == \A k \in Key : idle_calls[k] < 2 * SweepInterval

(* What the comment in parser_flow_update() demands of packets without TCP *)
(* payload (SYN, pure ACK, FIN): they leave the reassembly state alone.    *)
SamePlacement(s, t) == /\ s.first_seq_set = t.first_seq_set
                       /\ s.first_seq = t.first_seq
                       /\ s.filled = t.filled
PureAckNeutral ==
    [][\A pkt \in Packet : pkt.data = << >> /\ HandlePacket(pkt) =>
          \A k \in Live(hash') :
              SamePlacement(IF Survives(k) THEN StateOf(k) ELSE ZeroState,
                            StateOf(k)')]_vars
=============================================================================
