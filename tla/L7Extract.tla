------------------------------ MODULE L7Extract ------------------------------
(***************************************************************************)
(* try_extract_http() and try_extract_tls_sni() of src/parser.c, as pure   *)
(* functions of the gap-free prefix `s' of a flow's buffer (a sequence of  *)
(* cells; s[o + 1] is buf[o]).                                             *)
(*                                                                         *)
(* A cell is a number.  In an HTTP prefix a cell is a token: a method      *)
(* keyword, a space, "\r\nHost:", "\r\n", or any other text.  In a TLS     *)
(* prefix a cell is a field: the fixed-size record header, handshake       *)
(* header and version+random are collapsed into the one cell the code      *)
(* looks at, and a 2-byte length or type is one cell.                      *)
(***************************************************************************)
EXTENDS Integers, Sequences, FiniteSetsExt

CONSTANT ScanCap \* cells of scan_buf left for text (FLOW_SCAN_BUF_CAP)

ASSUME ScanCapAssumption == ScanCap \in Nat

METHOD == 71     \* "GET", "POST", "HEAD", "PUT", "DELETE" or "OPTIONS"
SP     == 32
HOST   == 72     \* "\r\nHost:", in any case
EOL    == 13     \* "\r\n"
ZERO   == 0      \* '\0': ends the C string

HandshakeRecord == 22  \* 0x16
ClientHello     == 1
ServerName      == 0   \* extension type 0x0000
HostName        == 0   \* name_type 0x00

(* What an extractor answers: nothing yet, definitely no name, or a string *)
(* to scan.                                                                *)
Pending    == [res |-> "PENDING",     str |-> << >>]
NotPresent == [res |-> "NOT_PRESENT", str |-> << >>]
Found(str) == [res |-> "FOUND",       str |-> str]

(* snprintf() into scan_buf truncates. *)
ScanBuf(str) == SubSeq(str, 1, Min({ScanCap, Len(str)}))

-----------------------------------------------------------------------------
(* The C string at the start of the buffer: up to the first zero byte. *)
CString(s) ==
    SubSeq(s, 1, Min({i \in 1 .. Len(s) : s[i] = ZERO} \cup {Len(s) + 1}) - 1)

(* strchr()/find_ci()/strstr(): the first position from lo on that holds a *)
(* member of S, or 0.                                                      *)
FirstIn(s, lo, S) ==
    LET hits == {i \in lo .. Len(s) : s[i] \in S}
    IN  IF hits = {} THEN 0 ELSE Min(hits)

(* The first position from lo on that is not a space: host_val. *)
SkipSpaces(s, lo) == Min({i \in lo .. Len(s) : s[i] # SP} \cup {Len(s) + 1})

(* The URL and the value of the first Host line, once both are complete. *)
try_extract_http(s) ==
    LET str      == CString(s)
        method   == Len(str) >= 2 /\ str[1] = METHOD /\ str[2] = SP
        sp2      == FirstIn(str, 3, {SP})
        host_hdr == FirstIn(str, 1, {HOST})
        host_val == SkipSpaces(str, host_hdr + 1)
        host_end == FirstIn(str, host_val, {EOL, HOST})
    IN  IF ~method \/ sp2 = 0 \/ host_hdr = 0 \/ host_end = 0 THEN Pending
        ELSE Found(ScanBuf(SubSeq(str, host_val, host_end - 1)
                           \o SubSeq(str, 3, sp2 - 1)))

-----------------------------------------------------------------------------
(* The server_name extension whose body starts at offset p: list length,   *)
(* name_type, name_len, name.                                              *)
ServerNameAt(s, p) ==
    LET Cell(o) == s[o + 1]
    IN  IF \/ p + 3 > Len(s)
           \/ Cell(p + 1) # HostName
           \/ p + 3 + Cell(p + 2) > Len(s)
        THEN Pending
        ELSE Found(ScanBuf(CString(SubSeq(s, p + 4, p + 3 + Cell(p + 2)))))

(* Deviation: a length that overruns the block ends the loop. *)
WalkExtensions_Overrun(s, start, ext_end) ==
    LET Cell(o) == s[o + 1]
        walk[o \in 0 .. Len(s)] ==
            LET body == o + 2
                next == body + Cell(o + 1)
            IN  IF body > ext_end THEN NotPresent
                ELSE IF next > Len(s) THEN Pending
                ELSE IF Cell(o) = ServerName THEN ServerNameAt(s, body)
                ELSE walk[next]
    IN  walk[start]

(* The loop over the extensions, which end at offset ext_end <= Len(s).    *)
(* A length that overruns the block is not trusted.                        *)
WalkExtensions(s, start, ext_end) ==
    LET Cell(o) == s[o + 1]
        walk[o \in 0 .. ext_end] ==
            LET body == o + 2
                next == body + Cell(o + 1)
            IN  IF body > ext_end THEN NotPresent
                ELSE IF next > ext_end THEN Pending
                ELSE IF Cell(o) = ServerName THEN ServerNameAt(s, body)
                ELSE walk[next]
    IN  walk[start]

(* Skipping a length-prefixed field at offset o: the offset after it, or   *)
(* -1 (TLS_NEED) when it has not arrived.                                  *)
SkipField(s, o) ==
    IF o < 0 \/ o + 1 > Len(s) THEN -1
    ELSE IF o + 1 + s[o + 1] > Len(s) THEN -1
    ELSE o + 1 + s[o + 1]

(* Deviation: no TLS_NEED(ext_total_len); what has arrived is walked. *)
try_extract_tls_sni_PartialExts(s) ==
    LET exts == SkipField(s, SkipField(s, SkipField(s, 2)))
    IN  IF \/ Len(s) < 2 \/ s[1] # HandshakeRecord \/ s[2] # ClientHello
           \/ exts = -1 \/ exts + 1 > Len(s)
        THEN Pending
        ELSE WalkExtensions(s, exts + 1, Min({exts + 1 + s[exts + 1], Len(s)}))

try_extract_tls_sni(s) ==
    LET exts == SkipField(s, SkipField(s, SkipField(s, 2)))
        ext_end == SkipField(s, exts)
    IN  IF \/ Len(s) < 2 \/ s[1] # HandshakeRecord \/ s[2] # ClientHello
           \/ ext_end = -1
        THEN Pending
        ELSE WalkExtensions(s, exts + 1, ext_end)
=============================================================================
