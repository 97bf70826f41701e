------------------------------- MODULE NetIo --------------------------------
(***************************************************************************)
(* The network I/O thread of a VM (hitz-net: wintun_io.rs): it takes       *)
(* frames that the virtio-net device put into one channel, and packets     *)
(* that the host's stack put into the WinTun adapter, and moves them to    *)
(* the other side.  The handle is held by boot_and_run, which drops it     *)
(* once the vCPUs have ended; the drop joins the thread.                   *)
(***************************************************************************)
EXTENDS Ethernet, Sequences, SequencesExt

VARIABLES
  net,     \* the thread: where it is, its stop flag
  sent,    \* frames the guest has sent; the first `taken` left the channel
  taken,
  arrived, \* packets from the host; the first `wrapped` left the adapter
  wrapped,
  toGuest, \* frames put into the channel to the guest
  toHost   \* packets injected into the adapter

netVars == <<net, sent, taken, arrived, wrapped, toGuest, toHost>>

U16Max == 65535

NetInit ==
  /\ net = [pc |-> "none", stop |-> FALSE]
  /\ sent = <<>> /\ taken = 0
  /\ arrived = <<>> /\ wrapped = 0
  /\ toGuest = <<>> /\ toHost = <<>>

\* start_net_io: the last of its steps.  When one before it fails, none of
\* its effects remain.
StartNetIo ==
  /\ net.pc = "none"
  /\ net' = [net EXCEPT !.pc = "check"]
  /\ UNCHANGED <<sent, taken, arrived, wrapped, toGuest, toHost>>

GuestSends(f) ==
  /\ sent' = Append(sent, f)
  /\ UNCHANGED <<net, taken, arrived, wrapped, toGuest, toHost>>

HostSends(p) ==
  /\ arrived' = Append(arrived, p)
  /\ UNCHANGED <<net, sent, taken, wrapped, toGuest, toHost>>

---------------------------------------------------------------------------
(* net_io_loop. *)

\* A bug to be caught: only an error of the adapter ends the loop.
CheckStop_Never ==
  /\ net.pc = "check"
  /\ net' = [net EXCEPT !.pc = "drain"]
  /\ UNCHANGED <<sent, taken, arrived, wrapped, toGuest, toHost>>

CheckStop ==
  /\ net.pc = "check"
  /\ net' = [net EXCEPT !.pc = IF net.stop THEN "ended" ELSE "drain"]
  /\ UNCHANGED <<sent, taken, arrived, wrapped, toGuest, toHost>>

\* send_to_wintun: a packet the adapter has no room for is dropped, one that
\* is too long for it is cut.
SendToWintun(p) ==
  \/ toHost' = toHost
  \/ toHost' = Append(toHost, IF p.len > U16Max THEN [p EXCEPT !.len = U16Max] ELSE p)

\* One frame of the guest.
DrainFrame ==
  /\ net.pc = "drain" /\ taken < Len(sent)
  /\ taken' = taken + 1
  /\ LET f == sent[taken + 1]
         type == ParseEthHeader(f)
     IN IF type = "arp" /\ IsGatewayRequest(f)
        THEN toGuest' = Append(toGuest, BuildArpReply(f)) /\ toHost' = toHost
        ELSE IF type \in {"ipv4", "ipv6"}
        THEN SendToWintun(StripEthHeader(f)) /\ toGuest' = toGuest
        ELSE UNCHANGED <<toGuest, toHost>>
  /\ UNCHANGED <<net, sent, arrived, wrapped>>

Drained ==
  /\ net.pc = "drain" /\ taken = Len(sent)
  /\ net' = [net EXCEPT !.pc = "receive"]
  /\ UNCHANGED <<sent, taken, arrived, wrapped, toGuest, toHost>>

\* One packet of the adapter, or a millisecond of sleep.
Receive ==
  /\ net.pc = "receive"
  /\ net' = [net EXCEPT !.pc = "check"]
  /\ IF wrapped < Len(arrived)
     THEN LET p == arrived[wrapped + 1] IN
          /\ wrapped' = wrapped + 1
          /\ toGuest' = Append(toGuest,
               BuildEthFrame(GatewayMac, GuestMac, EthertypeFromIp(p), p))
     ELSE UNCHANGED <<wrapped, toGuest>>
  /\ UNCHANGED <<sent, taken, arrived, toHost>>

\* The adapter reports an error: it is gone, or the session was shut down
\* (which it need not report).
ReceiveFails ==
  /\ net.pc = "receive"
  /\ net' = [net EXCEPT !.pc = "ended"]
  /\ UNCHANGED <<sent, taken, arrived, wrapped, toGuest, toHost>>

NetThread == CheckStop \/ DrainFrame \/ Drained \/ Receive

---------------------------------------------------------------------------
(* NetIoHandle: shutdown_inner, called by stop_and_join and by drop. *)

StopNetIo ==
  /\ net' = [net EXCEPT !.stop = TRUE]
  /\ UNCHANGED <<sent, taken, arrived, wrapped, toGuest, toHost>>

Joined == net.pc \in {"none", "ended"}

---------------------------------------------------------------------------
(* Properties. *)

\* The maps of M that keep the order of their indices.
InOrder(M) == {m \in M : \A i, j \in DOMAIN m : i < j => m[i] < m[j]}

\* A whole ARP request for the address of the gateway.
Asks(f) ==
  LET request == Arp("request", f.body.sha, f.body.spa, f.body.tha, GatewayIp)
  IN /\ f.len >= 42 /\ f.type = "arp"
     /\ \A field \in {"hw", "proto", "op", "tpa"} : f.body[field] = request[field]

\* A whole IP frame; its packet as the adapter can take it.
CarriesIp(f) == f.len >= 14 /\ f.type \in {"ipv4", "ipv6"}
Fitted(p) == [p EXCEPT !.len = IF @ < U16Max THEN @ ELSE U16Max]

\* The frame g tells who sent the request f that the gateway has its address.
Answers(g, f) ==
  /\ g.src = GatewayMac /\ g.dst = f.body.sha
  /\ g.body.op = "reply"
  /\ g.body.sha = GatewayMac /\ g.body.spa = GatewayIp
  /\ g.body.tha = f.body.sha /\ g.body.tpa = f.body.spa

\* The guest recovers the packet p from the frame g, whose type tells its version.
Carries(g, p) ==
  /\ g.src = GatewayMac /\ g.dst = GuestMac
  /\ StripEthHeader(g) = p
  /\ p.len > 0 => (g.type = "ipv6") = (p.version = 6)

\* Everything the guest gets comes from the gateway: one reply for every ARP
\* request for the gateway and for no other frame, in their order, and the
\* packets of the host, every one once and in their order.  The host's stack
\* gets the packets of the guest's IP frames in their order, none twice though
\* perhaps not all of them, and cut where they are longer than the adapter can
\* take (wintun_io.rs, net_io_loop; ethernet.rs).
FramesRight ==
  LET asked == {j \in 1..taken : Asks(sent[j])}
      ips == {j \in 1..taken : CarriesIp(sent[j])}
      replies == {i \in DOMAIN toGuest : toGuest[i].type = "arp"}
      packets == DOMAIN toGuest \ replies
  IN /\ \E m \in InOrder(Surjection(replies, asked)) :
          \A i \in replies : Answers(toGuest[i], sent[m[i]])
     /\ \E m \in InOrder(Surjection(packets, 1..wrapped)) :
          \A i \in packets : Carries(toGuest[i], arrived[m[i]])
     /\ \E m \in InOrder([DOMAIN toHost -> ips]) :
          \A i \in DOMAIN toHost : toHost[i] = Fitted(sent[m[i]].body)
=============================================================================
