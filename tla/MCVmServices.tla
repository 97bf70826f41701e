---------------------------- MODULE MCVmServices ----------------------------
(* A small instance of VmServices: each VM exercises one of its services.  *)
EXTENDS VmServices

Ip(v, n) == [version |-> v, len |-> n]

Eth(type, body) == BuildEthFrame(GuestMac, "broadcast", type, body)

Asking(ip) == Arp("request", GuestMac, "guest ip", "zero", ip)

\* Requests for the gateway and for another address, a reply, frames that are
\* a byte too short for ARP and for a header, packets of both versions, one of
\* them longer than the adapter takes, and a type that is not forwarded.
MCFrames ==
  {Eth("arp", Asking(GatewayIp)),
   Eth("arp", Asking("other ip")),
   Eth("arp", [Asking(GatewayIp) EXCEPT !.op = "reply"]),
   [Eth("arp", Asking(GatewayIp)) EXCEPT !.len = 41],
   [Eth("ipv4", Ip(4, 20)) EXCEPT !.len = 13],
   Eth("ipv4", Ip(4, 20)),
   Eth("ipv6", Ip(6, 65536)),
   Eth("vlan", Ip(4, 20))}

MCPackets == {Ip(4, 0), Ip(4, 40), Ip(6, 40)}

MCVmConfigs ==
  {[net |-> TRUE, ports |-> FALSE, agent |-> "none"],
   [net |-> TRUE, ports |-> TRUE, agent |-> "none"],
   [NoConfig EXCEPT !.agent = "auto"], [NoConfig EXCEPT !.agent = "custom"]}

\* A VM with forwards leaves its network idle.
MCMaxFrames(k) == IF k.ports THEN 0 ELSE 2
MCMaxPackets(k) == IF k.ports THEN 0 ELSE 1
=============================================================================
