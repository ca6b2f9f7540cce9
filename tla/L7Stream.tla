------------------------------ MODULE L7Stream ------------------------------
(***************************************************************************)
(* One flow whose stream arrives in order, cell by cell, with the          *)
(* extractor of its type run after every cell: what parser_flow_update()   *)
(* does for every way of cutting an in-order stream into segments, each of *)
(* which runs the extractor on some of the prefixes.  The stream is any    *)
(* sequence over the Alphabet of its kind behind a fixed Opening.          *)
(***************************************************************************)
EXTENDS L7Extract

CONSTANTS Kind,     \* the traffic types looked at: "http" and "tls"
          Opening,  \* the cells every stream of a kind starts with
          Alphabet, \* the cells that may follow
          MaxLen    \* bound on the stream

ASSUME StreamAssumption == /\ Kind \subseteq {"http", "tls"}
                           /\ Opening \in [Kind -> Seq(Nat)]
                           /\ Alphabet \in [Kind -> SUBSET Nat]
                           /\ MaxLen \in [Kind -> Nat]

VARIABLES kind,   \* the traffic type of the flow
          prefix, \* buf[0 .. contig_len - 1]
          result  \* what the extractor says of it

streamVars == <<kind, prefix, result>>

Extraction(k, s) == IF k = "http" THEN try_extract_http(s) ELSE try_extract_tls_sni(s)

StreamInit == /\ kind \in Kind
              /\ prefix = Opening[kind]
              /\ result = Extraction(kind, prefix)

Arrive(c) == /\ Len(prefix) < MaxLen[kind]
             /\ prefix' = Append(prefix, c)
             /\ result' = Extraction(kind, prefix')
             /\ UNCHANGED kind

StreamNext == \E c \in Alphabet[kind] : Arrive(c)

StreamSpec == StreamInit /\ [][StreamNext]_streamVars

-----------------------------------------------------------------------------
(* A decision is final: once the extractor has found a string, or said     *)
(* that there is none, more of the stream never changes its answer.  So    *)
(* the cached verdict does not depend on where an in-order stream was cut  *)
(* into segments.                                                          *)
DecisionFinal == [][result.res # "PENDING" => result' = result]_streamVars

(* Offsets of the extensions block of a ClientHello and of its end. *)
Exts(s) == SkipField(s, SkipField(s, SkipField(s, 2))) + 1
ExtEnd(s) == SkipField(s, Exts(s) - 1)

(* The block can be cut into extensions none of which is server_name, up   *)
(* to a rest that is too short for an extension's header: Cuts are the     *)
(* offsets at which one starts, and that of the rest.                      *)
Nameless(s) ==
    \E Cuts \in SUBSET (Exts(s) .. ExtEnd(s)) :
        /\ Exts(s) \in Cuts
        /\ \A o \in Cuts : o + 2 <= ExtEnd(s) => /\ s[o + 1] # ServerName
                                               /\ o + 2 + s[o + 2] \in Cuts

(* "Definitely no server name", which lets the rest of the flow pass, is   *)
(* said exactly of a ClientHello whose extensions have all arrived, fit    *)
(* their block, and hold no server_name: never because a length overruns   *)
(* the block, or because the name has not arrived yet.                     *)
NotPresentExact ==
    result.res = "NOT_PRESENT" <=>
        /\ kind = "tls" /\ SubSeq(prefix, 1, 2) = <<HandshakeRecord, ClientHello>>
        /\ ExtEnd(prefix) # -1
        /\ Nameless(prefix)
=============================================================================
