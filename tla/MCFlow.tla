------------------------------- MODULE MCFlow -------------------------------
(***************************************************************************)
(* Instances of FlowTable for TLC: the packets of each run.                *)
(***************************************************************************)
EXTENDS FlowRefinement

Cells == 0 .. 99

MAL == 77  \* a host name (or its text) that a DROP rule matches
BEN == 66  \* one that no DROP rule matches
URI == 85

(* A request of 12 cells: with BufCap = 13 it fits the window exactly. *)
Request(host) == <<METHOD, SP, URI, URI, URI, URI, URI, URI, SP, HOST, host, EOL>>

(* A ClientHello with a server name, 12 cells too. *)
Hello(name) == <<HandshakeRecord, ClientHello, 0, 0, 0, 6,
                 ServerName, 4, 3, HostName, 1, name>>

(* Cells i..j of stream S, whose first cell has sequence number base. *)
Slice(k, S, base, i, j) ==
    [key |-> k, seq |-> (base + i - 1) % SeqSpace, data |-> SubSeq(S, i, j), pad |-> 0]

Ack(k, seq, pad) == [key |-> k, seq |-> seq, data |-> << >>, pad |-> pad]

-----------------------------------------------------------------------------
(* HTTP flow "e", whose sequence numbers wrap: two requests that overlap   *)
(* with different hosts, out-of-order and overlapping pieces of both, a    *)
(* keep-alive probe one before the data, a segment beyond the window, one  *)
(* half the sequence space away, and a SYN.                                *)
Base == SeqSpace - 3
EdgePackets ==
    {Slice("e", Request(MAL), Base, 1, 5),
     Slice("e", Request(MAL), Base, 10, 11),
     Slice("e", Request(BEN), Base, 4, 11),
     Slice("e", Request(BEN), Base, 11, 12),
     Slice("e", <<1>>, Base - 1, 1, 1),
     Slice("e", <<9, 9>>, Base + Window - 1, 1, 2),
     Slice("e", <<9>>, Base + HalfSpace, 1, 1),
     Ack("e", Base - 1, 0)}

-----------------------------------------------------------------------------
(* HTTPS flow "t": pieces of a ClientHello with a server name, and a       *)
(* ClientHello whose extensions hold none: at the same place, in part at   *)
(* the same place, and behind the other one (where it may be seen first).  *)
EchHello == <<HandshakeRecord, ClientHello, 0, 0, 0, 3, 5, 1, 8>>

TlsPackets ==
    {Slice("t", Hello(MAL), 0, 1, 4),
     Slice("t", Hello(MAL), 0, 3, 8),
     Slice("t", Hello(MAL), 0, 9, 12),
     Slice("t", Hello(BEN), 0, 8, 12),
     Slice("t", EchHello, 0, 1, 9),
     Slice("t", EchHello, 0, 4, 8),
     Slice("t", EchHello, 12, 1, 9),
     Ack("t", 12, 0)}

-----------------------------------------------------------------------------
(* Three flows and two slots, short packets: entries expire, slots are     *)
(* reused, the table fills up.                                             *)
MALREQ == <<METHOD, SP, URI, SP, HOST, MAL, EOL>>
TablePackets ==
    {Slice("h", MALREQ, 0, 1, 7), Slice("h", MALREQ, 0, 2, 3),
     Slice("s", EchHello, 1, 1, 6), Slice("g", <<9>>, 2, 1, 1)}

-----------------------------------------------------------------------------
(* One HTTP request cut at every cell, no overlap; the acknowledgement of  *)
(* the handshake, which carries the sequence number of the first data      *)
(* byte, is a short frame: `pad' zero bytes follow its TCP header.         *)
PaddedPackets == {Slice("h", MALREQ, 0, 1, 4), Slice("h", MALREQ, 0, 5, 7),
                  Ack("h", 0, 0), Ack("h", 0, 1)}

-----------------------------------------------------------------------------
(* Every run of adjacent pieces of one request (flow "h") and of one       *)
(* ClientHello (flow "s"), in any order, and the flows above.  With one    *)
(* slot a behaviour follows the flow that came first.                      *)
Pieces(k, S, ends) == {Slice(k, S, Base, i, j) : i \in {1} \cup {e + 1 : e \in ends}, j \in ends}
FlowPackets ==
    {pkt \in Pieces("h", MALREQ, {2, 4, 6, 7}) \cup Pieces("s", Hello(MAL), {3, 6, 9, 12}) :
        pkt.data # << >>}
    \cup TlsPackets \cup EdgePackets

(* The messages whose pieces are among these packets. *)
FlowMessages ==
    {[key |-> "h", base |-> Base, data |-> MALREQ],
     [key |-> "s", base |-> Base, data |-> Hello(MAL)],
     [key |-> "t", base |-> 0, data |-> Hello(MAL)],
     [key |-> "t", base |-> 0, data |-> EchHello],
     [key |-> "t", base |-> 12, data |-> EchHello],
     [key |-> "e", base |-> Base, data |-> Request(MAL)],
     [key |-> "e", base |-> Base, data |-> Request(BEN)]}
=============================================================================
