------------------------------ MODULE Ethernet ------------------------------
(***************************************************************************)
(* Frames as the host side of the guest network handles them (hitz-net:    *)
(* ethernet.rs).  A frame is its length, the three header fields and what  *)
(* follows them: an ARP body or an IP packet.  Addresses are opaque.  The  *)
(* fields of a frame that is too short to hold them exist in the model but *)
(* are never looked at.                                                    *)
(***************************************************************************)
EXTENDS Integers

CONSTANTS
  GuestMac, GatewayMac,   \* the two ends of the virtual link
  GatewayIp               \* the address the host answers ARP requests for

EthHeaderLen == 14
ArpBodyLen == 28

\* An ARP body: hardware and protocol type and lengths, operation, addresses.
Arp(op, sha, spa, tha, tpa) ==
  [len |-> ArpBodyLen, hw |-> <<"ethernet", 6>>, proto |-> <<"ipv4", 4>>,
   op |-> op, sha |-> sha, spa |-> spa, tha |-> tha, tpa |-> tpa]

BuildEthFrame(src, dst, type, payload) ==
  [len |-> EthHeaderLen + payload.len, dst |-> dst, src |-> src, type |-> type,
   body |-> payload]

ParseEthHeader(f) == IF f.len < EthHeaderLen THEN "none" ELSE f.type

StripEthHeader(f) == f.body

\* The version nibble of the first byte; what is neither 4 nor 6 counts as 4.
EthertypeFromIp(p) == IF p.len > 0 /\ p.version = 6 THEN "ipv6" ELSE "ipv4"

\* A bug to be caught: the gateway answers for every address.
IsGatewayRequest_AnyTarget(f) ==
  /\ f.len >= EthHeaderLen + ArpBodyLen
  /\ f.type = "arp"
  /\ f.body.hw = <<"ethernet", 6>> /\ f.body.proto = <<"ipv4", 4>>
  /\ f.body.op = "request"

IsGatewayRequest(f) ==
  /\ f.len >= EthHeaderLen + ArpBodyLen
  /\ f.type = "arp"
  /\ f.body.hw = <<"ethernet", 6>> /\ f.body.proto = <<"ipv4", 4>>
  /\ f.body.op = "request"
  /\ f.body.tpa = GatewayIp

\* The reply to a request for which IsGatewayRequest holds.
BuildArpReply(f) ==
  BuildEthFrame(GatewayMac, f.body.sha, "arp",
                Arp("reply", GatewayMac, GatewayIp, f.body.sha, f.body.spa))
=============================================================================
