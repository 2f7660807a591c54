------------------------------ MODULE XdpRedirect ------------------------------
(***************************************************************************)
(* xdp/redirect.c: the XDP program of a server.  It decides what becomes   *)
(* of a received frame before the kernel's TCP sees it.                    *)
(*                                                                         *)
(* A frame is a record: len, its bytes; h_proto, the type in its Ethernet  *)
(* header as the CPU loads it; protocol and ihl of its IPv4 header; tos;   *)
(* syn, the SYN flag; sock, what the kernel knows of its connection.       *)
(***************************************************************************)
EXTENDS Integers

CONSTANTS Retransmitted,   \* ECMP_ER_TOS_RETRANSMITTED, 0x01
          OtherTos,        \* values of the ToS byte that clients use
          LittleEndian     \* TRUE if the CPU is

TosValues == OtherTos \cup {Retransmitted}

(* What bpf_skc_lookup_tcp finds: a socket of the connection (established, *)
(* a half-open request, TIME_WAIT, ...), else a listener, else nothing.    *)
Sockets == {"none", "listen", "conn"}

XdpActions == {"drop", "pass", "tx"}

(* sizeof ethhdr, iphdr and tcphdr *)
EthLen == 14
IpLen == 20
TcpLen == 20

EthPIp == 2048
IpprotoTcp == 6

BpfSwap16(w) == IF LittleEndian THEN (w % 256) * 256 + w \div 256 ELSE w

IsIpv4(f) == f.h_proto = BpfSwap16(EthPIp)

IsTcp(f) == IsIpv4(f) /\ f.protocol = IpprotoTcp

(* The three tests against data_end.  ihl is taken as it is, even below 5. *)
CutShort(f) ==
  \/ f.len < EthLen
  \/ IsIpv4(f) /\ f.len < EthLen + IpLen
  \/ IsTcp(f) /\ f.len < EthLen + 4 * f.ihl + TcpLen

(* "if (!sock)" sends a TCP frame back, whatever it is; the branch below   *)
(* it that would pass a SYN is never reached.                              *)
SendsBack(sock, tos, syn) ==
  \/ sock = "none"
  \/ sock = "listen" /\ ~ syn /\ tos # Retransmitted

Verdict(f) ==
  CASE CutShort(f) -> "drop"
    [] ~ CutShort(f) /\ IsTcp(f) /\ SendsBack(f.sock, f.tos, f.syn) -> "tx"
    [] OTHER -> "pass"
=============================================================================
