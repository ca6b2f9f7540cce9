-------------------------------- MODULE L2L4 --------------------------------
(***************************************************************************)
(* extract_headers() of src/parser.c, which both RX (for its hash) and the *)
(* worker (for its parse) run on a frame.  A frame is a record: data_len   *)
(* and what the bytes at the place of each header field say, in host byte  *)
(* order; ihl and doff are the 4-bit fields.  The tests are in the order   *)
(* of the code, so that no field is looked at before its header is known   *)
(* to be inside of data_len.                                               *)
(***************************************************************************)
EXTENDS Integers

CONSTANT Hash(_) \* rte_jhash() of a key

U8  == 256
U16 == 65536

EtherHdr == 14   \* sizeof(struct rte_ether_hdr)
Ipv4Hdr  == 20   \* sizeof(struct rte_ipv4_hdr), without options
TcpHdr   == 20   \* sizeof(struct rte_tcp_hdr), without options
UdpHdr   == 8    \* sizeof(struct rte_udp_hdr)

ETHER_TYPE_IPV4 == 2048
IPPROTO_TCP == 6
IPPROTO_UDP == 17
HTTP_PORT  == 80
HTTPS_PORT == 443

Frame == [data_len : 0 .. U16 - 1, ether_type : 0 .. U16 - 1,
          ihl : 0 .. 15, proto : 0 .. U8 - 1, key : STRING,
          doff : 0 .. 15, dst_port : 0 .. U16 - 1, seq : Nat]

(* Header lengths in bytes and offsets, at their widths. *)
IhlBytes(f) == (f.ihl * 4) % U8
DoffBytes(f) == (f.doff * 4) % U8
L4Off(f) == (EtherHdr + IhlBytes(f)) % U16
DataOff(f) == (L4Off(f) + (IF f.proto = IPPROTO_TCP THEN DoffBytes(f) ELSE UdpHdr)) % U16

(* The Ethernet and the IPv4 header are there. *)
L3Ok(f) == /\ f.data_len >= EtherHdr
           /\ f.ether_type = ETHER_TYPE_IPV4
           /\ f.data_len >= EtherHdr + Ipv4Hdr
           /\ IhlBytes(f) >= Ipv4Hdr
           /\ f.data_len >= EtherHdr + IhlBytes(f)

(* The TCP or UDP header is there, up to its options. *)
L4Ok(f) == \/ /\ f.proto = IPPROTO_TCP
              /\ f.data_len >= L4Off(f) + TcpHdr
              /\ DoffBytes(f) >= TcpHdr
           \/ /\ f.proto = IPPROTO_UDP
              /\ f.data_len >= L4Off(f) + UdpHdr

(* UDP is parsed and refused; the TCP options are tested last. *)
Accepted(f) == /\ L3Ok(f)
               /\ L4Ok(f)
               /\ f.proto = IPPROTO_TCP
               /\ f.dst_port \in {HTTP_PORT, HTTPS_PORT}
               /\ ~(DataOff(f) > f.data_len)

(* What an accepted frame is parsed to (struct l2l4_result).  The payload  *)
(* is all that is behind the headers.                                      *)
Parsed(f) == [type |-> IF f.dst_port = HTTP_PORT THEN "HTTP" ELSE "HTTPS",
              key |-> f.key, seq |-> f.seq,
              payload |-> DataOff(f),
              payload_len |-> (f.data_len - DataOff(f)) % U16]

parser_flow_rss_hash(f) == IF Accepted(f) THEN Hash(f.key) ELSE 0
=============================================================================
