-------------------------------- MODULE MCL7 --------------------------------
(***************************************************************************)
(* Instances of L7Stream for TLC.                                          *)
(*                                                                         *)
(* HTTP: all streams over the tokens the extractor tells apart.  TLS: all  *)
(* ClientHellos with short fields; 0 is also the extension type            *)
(* server_name and the name type host_name.                                *)
(***************************************************************************)
EXTENDS L7Stream

Both == {"http", "tls"}

Heads == [k \in Kind |-> IF k = "http" THEN << >> ELSE <<HandshakeRecord, ClientHello>>]
Cells == [k \in Kind |-> IF k = "http" THEN {METHOD, SP, HOST, EOL, ZERO, 85} ELSE 0 .. 3]
Long  == [k \in Kind |-> IF k = "http" THEN 8 ELSE 12]
=============================================================================
