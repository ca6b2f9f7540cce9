------------------------------ MODULE FlowState ------------------------------
(***************************************************************************)
(* struct flow_state of src/parser.c and the part of parser_flow_update()  *)
(* that places a TCP segment into it.  buf is indexed by stream offset     *)
(* from first_seq; filled marks the offsets written; contig_len is the     *)
(* length of the gap-free prefix; hwm is one past the highest offset       *)
(* written.  The last cell of buf is kept for a NUL, so Window = BufCap-1  *)
(* offsets can be written.                                                 *)
(*                                                                         *)
(* Sequence numbers are uint32_t in the code and numbers below SeqSpace =  *)
(* 2*HalfSpace here.  All operators are pure; FlowTable uses them.         *)
(***************************************************************************)
EXTENDS Integers, Sequences, FiniteSetsExt

CONSTANTS BufCap,    \* FLOW_BUF_CAP (4096 in the code)
          HalfSpace, \* half the sequence-number space (2^31 in the code)
          Byte,      \* what a cell of the buffer may hold
          NUL        \* the zero byte

ASSUME SizeAssumption == /\ BufCap \in Nat \ {0, 1}
                         /\ HalfSpace \in Nat
                         /\ BufCap <= HalfSpace

ASSUME ByteAssumption == Byte \subseteq Nat /\ NUL \in Byte

Window == BufCap - 1
SeqSpace == 2 * HalfSpace
SeqNum == 0 .. SeqSpace - 1
Offset == 0 .. BufCap - 1

(* The fields of struct flow_state.  type and scan_buf are left out: type  *)
(* is a function of the key, and scan_buf only carries the string handed   *)
(* to the scan in the same call.                                           *)
State == [buf            : [Offset -> Byte],
          filled         : [Offset -> BOOLEAN],
          contig_len     : Offset,
          hwm            : Offset,
          first_seq      : SeqNum,
          first_seq_set  : BOOLEAN,
          last_seen_tsc  : Nat,
          verdict_cached : BOOLEAN,
          cached_action  : {"FORWARD", "DROP"},
          no_sni_cached  : BOOLEAN]

(* memset(st, 0, sizeof( *st)) *)
ZeroState == [buf            |-> [i \in Offset |-> NUL],
              filled         |-> [i \in Offset |-> FALSE],
              contig_len     |-> 0,
              hwm            |-> 0,
              first_seq      |-> 0,
              first_seq_set  |-> FALSE,
              last_seen_tsc  |-> 0,
              verdict_cached |-> FALSE,
              cached_action  |-> "FORWARD",
              no_sni_cached  |-> FALSE]

-----------------------------------------------------------------------------
(* Arithmetic on sequence numbers: uint32_t subtraction, and its value     *)
(* read as an int32_t.                                                     *)
SeqSub(a, b) == IF a >= b THEN a - b ELSE a - b + SeqSpace

(* Deviation: the difference is taken as unsigned. *)
SeqDiff_Unsigned(a, b) == SeqSub(a, b)

SeqDiff(a, b) == IF SeqSub(a, b) < HalfSpace THEN SeqSub(a, b)
                                             ELSE SeqSub(a, b) - SeqSpace

(* The offsets lo, lo+1, ... are filled up to the result (at most hwm).    *)
GapFrom(filled, lo, hwm) == Min({n \in lo .. hwm : n = hwm \/ ~filled[n]})

-----------------------------------------------------------------------------
(* Deviation: the bound on the moved bytes is one too small. *)
ShiftFits_Strict(st, shift) == /\ shift <= Window
                               /\ st.hwm + shift < Window

(* Whether there is room in front of the buffer for a segment that starts  *)
(* `shift' before first_seq.                                               *)
ShiftFits(st, shift) == /\ shift <= Window
                        /\ st.hwm + shift <= Window

(* Deviation: the front of filled is not cleared. *)
Relocate_KeepFront(st, shift) ==
    [st EXCEPT
        !.buf = [i \in Offset |-> IF i \in shift .. shift + st.hwm - 1
                                  THEN st.buf[i - shift] ELSE st.buf[i]],
        !.filled = [i \in Offset |-> IF i \in shift .. shift + st.hwm - 1
                                     THEN st.filled[i - shift] ELSE st.filled[i]],
        !.hwm = st.hwm + shift]

(* The two memmove()s, the memset() of filled and the update of hwm. *)
Relocate(st, shift) ==
    [st EXCEPT
        !.buf = [i \in Offset |-> IF i \in shift .. shift + st.hwm - 1
                                  THEN st.buf[i - shift] ELSE st.buf[i]],
        !.filled = [i \in Offset |->
                       IF i < shift THEN FALSE
                       ELSE IF i < shift + st.hwm THEN st.filled[i - shift]
                       ELSE st.filled[i]],
        !.hwm = st.hwm + shift]

(* Deviation: the stale contig_len survives the shift. *)
ShiftRight_StaleContig(st, shift, seq) ==
    [Relocate(st, shift) EXCEPT !.first_seq = seq]

(* first_seq and contig_len follow the shift. *)
ShiftRight(st, shift, seq) ==
    [Relocate(st, shift) EXCEPT !.first_seq = seq, !.contig_len = 0]

(* Deviation: the clip forgets the cell of the NUL. *)
WriteEnd_WholeBuf(rel, payload) == Min({rel + Len(payload), BufCap})

(* Writing payload at offset rel < Window, clipped to the window; an       *)
(* offset that is filled already keeps its byte.                           *)
WriteEnd(rel, payload) == Min({rel + Len(payload), Window})

(* Deviation: the last segment wins. *)
FillCells_LastWins(st, rel, payload) ==
    LET end == WriteEnd(rel, payload)
    IN  [st EXCEPT
            !.buf = [i \in Offset |-> IF i \in rel .. end - 1
                                      THEN payload[i - rel + 1] ELSE st.buf[i]],
            !.filled = [i \in Offset |-> i \in rel .. end - 1 \/ st.filled[i]],
            !.hwm = Max({st.hwm, end})]

FillCells(st, rel, payload) ==
    LET end == WriteEnd(rel, payload)
    IN  [st EXCEPT
            !.buf = [i \in Offset |-> IF i \in rel .. end - 1 /\ ~st.filled[i]
                                      THEN payload[i - rel + 1] ELSE st.buf[i]],
            !.filled = [i \in Offset |-> i \in rel .. end - 1 \/ st.filled[i]],
            !.hwm = Max({st.hwm, end})]

(* Deviation: everything below the high-water mark counts as received. *)
AdvanceContig_ToHwm(st) == [st EXCEPT !.contig_len = st.hwm]

AdvanceContig(st) ==
    [st EXCEPT !.contig_len = GapFrom(st.filled, st.contig_len, st.hwm)]

WriteSegment(st, rel, payload) == AdvanceContig(FillCells(st, rel, payload))

Anchor(st, seq) ==
    IF st.first_seq_set THEN st
    ELSE [st EXCEPT !.first_seq = seq, !.first_seq_set = TRUE]

(* The whole placement block: a segment too far before or after the        *)
(* window contributes nothing.                                             *)
PlaceAt(st, diff, seq, payload) ==
    CASE diff < 0 /\ ShiftFits(st, -diff) ->
            WriteSegment(ShiftRight(st, -diff, seq), 0, payload)
      [] diff \in 0 .. Window - 1 -> WriteSegment(st, diff, payload)
      [] OTHER -> st

Place(st, seq, payload) ==
    IF payload = << >> THEN st
    ELSE LET a == Anchor(st, seq)
         IN  PlaceAt(a, SeqDiff(seq, a.first_seq), seq, payload)

-----------------------------------------------------------------------------
(* What the buffer says about a sequence number: whether its byte has been *)
(* placed, and which byte it is.                                           *)
Has(st, s) == /\ SeqSub(s, st.first_seq) \in Offset
              /\ st.filled[SeqSub(s, st.first_seq)]

ByteAt(st, s) == st.buf[SeqSub(s, st.first_seq)]

(* The gap-free prefix that the L7 extractors read. *)
PrefixOf(st, len) == [i \in 1 .. len |-> st.buf[i - 1]]
=============================================================================
