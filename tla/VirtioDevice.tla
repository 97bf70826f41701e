--------------------------- MODULE VirtioDevice ----------------------------
(***************************************************************************)
(* One virtio device behind its MMIO transport, the guest's driver, and    *)
(* the host's side of the device.                                          *)
(*                                                                         *)
(* The device is locked while it processes a queue or is polled, but guest *)
(* memory is not: the driver of another vCPU may publish and consume       *)
(* between two chains.  So a step of the device is one chain, and busy     *)
(* says what the lock is held for.                                         *)
(*                                                                         *)
(* The driver sets the device up register by register, and may reset it    *)
(* and start over with fresh rings at any time.                            *)
(***************************************************************************)
EXTENDS VirtioBackends, FiniteSets

CONSTANTS
    Kinds,       \* which devices to consider, of "block", "net" and "vsock"
    QueueSize,   \* the depth the driver asks for, per kind
    Traffic,     \* sets of queues that are used together, per kind
    MaxRx,       \* bound on frames the host has under way to the guest
    MaxTx,       \* bound on frames the guest has under way to the host
    MaxResets    \* bound on resets by the driver

QueueCount(k) == CASE k = "block" -> 1 [] k = "net" -> 2 [] k = "vsock" -> 3

\* The driver asks for a power of two, as the virtio standard demands, so that
\* an index that wraps stays at its place in the ring.
ASSUME DeviceAssumptions ==
    /\ Kinds \subseteq {"block", "net", "vsock"}
    /\ QueueSize \in [Kinds -> 1..MAX_QUEUE_SIZE]
    /\ \A k \in Kinds : \E n \in 1..IdxMod : IdxMod = QueueSize[k] * n
    /\ \A k \in Kinds : Traffic[k] \subseteq SUBSET (0..(QueueCount(k) - 1))
    /\ MaxRx \in Nat /\ MaxTx \in Nat /\ MaxResets \in Nat

VARIABLES
    kind,       \* the device
    t,          \* its transport
    b,          \* the block device's file
    rx_pending, \* frames the device has taken from the host
    rx_chan,    \* the channel from the host to the device
    tx_chan,    \* the channel from the device to the host
    mem,        \* guest memory: the rings and descriptor tables
    busy,       \* what the device's lock is held for
    drv,        \* the driver
    tx_expect,  \* history: frames sent by the guest, not yet with the host
    rx_expect   \* history: frames sent by the host, not yet seen by the guest

hostVars == <<rx_chan, tx_chan, tx_expect, rx_expect>>
vars == <<kind, t, b, rx_pending, mem, busy, drv, hostVars>>

Queues == 0..(QueueCount(kind) - 1)
RX_QUEUE == 0
TX_QUEUE == 1

Q(i) == t.queues[i].queue

Idle == [op |-> "idle", queue |-> 0, injected |-> FALSE]
-----------------------------------------------------------------------------
(***************************************************************************)
(* The driver.  It keeps for each queue the chains that it has made        *)
(* available and not got back, in order, and how far it has read the used  *)
(* ring.  The rings of queue i are at the addresses <<i + 1, r>>.          *)
(***************************************************************************)
DescAt(i) == <<i + 1, 1>>
AvailAt(i) == <<i + 1, 2>>
UsedAt(i) == <<i + 1, 3>>

\* what the driver writes to set up queue i of n entries
SetupQueue(i, n) ==
    << <<"QUEUE_SEL", i>>, <<"QUEUE_NUM", n>>,
       <<"QUEUE_DESC_LOW", DescAt(i)[1]>>, <<"QUEUE_DESC_HIGH", DescAt(i)[2]>>,
       <<"QUEUE_AVAIL_LOW", AvailAt(i)[1]>>, <<"QUEUE_AVAIL_HIGH", AvailAt(i)[2]>>,
       <<"QUEUE_USED_LOW", UsedAt(i)[1]>>, <<"QUEUE_USED_HIGH", UsedAt(i)[2]>>,
       <<"QUEUE_READY", 1>> >>

\* reset, ACKNOWLEDGE, DRIVER, features, FEATURES_OK, the queues, DRIVER_OK
SetupScript(k) ==
    LET n == QueueSize[k] IN
    << <<"STATUS", 0>>, <<"STATUS", 1>>, <<"STATUS", 3>>,
       <<"DEVICE_FEATURES_SEL", 1>>, <<"DRIVER_FEATURES_SEL", 1>>,
       <<"DRIVER_FEATURES", 1>>, <<"STATUS", 11>> >>
    \o SetupQueue(0, n)
    \o (IF k \in {"net", "vsock"} THEN SetupQueue(1, n) ELSE <<>>)
    \o (IF k = "vsock" THEN SetupQueue(2, n) ELSE <<>>)
    \o << <<"STATUS", 15>> >>

Live == drv.step > Len(SetupScript(kind))

EmptyRing(n, e) == [idx |-> 0, ring |-> [i \in 0..(n - 1) |-> e]]

NoBuffer == [writable |-> FALSE, mapped |-> FALSE, has_next |-> FALSE,
             next |-> 0, data |-> <<>>]

\* rings without content, as the driver allocates them
FreshMemory(k) ==
    LET n == QueueSize[k]
        qs == 0..(QueueCount(k) - 1)
    IN [a \in {DescAt(i) : i \in qs} \cup {AvailAt(i) : i \in qs} \cup {UsedAt(i) : i \in qs} |->
          CASE a[2] = 1 -> [i \in 0..(n - 1) |-> NoBuffer]
            [] a[2] = 2 -> EmptyRing(n, 0)
            [] a[2] = 3 -> EmptyRing(n, [id |-> 0, len |-> 0])]

FreshDriver(k, uses, resets) ==
    [step |-> 1, resets |-> resets, uses |-> uses,
     alloc |-> [i \in 0..(QueueCount(k) - 1) |-> 1 % QueueSize[k]],
     inflight |-> [i \in 0..(QueueCount(k) - 1) |-> <<>>],
     seen |-> [i \in 0..(QueueCount(k) - 1) |-> 0]]

Init ==
    /\ kind \in Kinds
    /\ t = NewTransport(QueueCount(kind))
    /\ b = NewBlock(<<0, 0, 0>>)
    /\ rx_pending = <<>> /\ rx_chan = <<>> /\ tx_chan = <<>>
    /\ mem = FreshMemory(kind)
    /\ busy = Idle
    /\ \E uses \in Traffic[kind] : drv = FreshDriver(kind, uses, 0)
    /\ tx_expect = <<>> /\ rx_expect = <<>>

\* a register write of the set-up
SetupWrite ==
    /\ ~Live /\ busy = Idle
    /\ LET w == SetupScript(kind)[drv.step] IN t' = WriteReg(t, w[1], w[2])
    /\ drv' = [drv EXCEPT !.step = @ + 1]
    /\ UNCHANGED <<kind, b, rx_pending, mem, busy, hostVars>>

\* entries of the used ring that the driver has not looked at, in order
Unseen(i) ==
    LET n == (mem[UsedAt(i)].idx - drv.seen[i] + IdxMod) % IdxMod
    IN [j \in 1..n |-> mem[UsedAt(i)].ring[(drv.seen[i] + j - 1) % QueueSize[kind]]]

\* the driver starts over; what it had in its buffers is gone
StartOver ==
    /\ busy = Idle /\ drv.resets < MaxResets /\ drv.step > 1
    /\ drv' = FreshDriver(kind, drv.uses, drv.resets + 1)
    /\ mem' = FreshMemory(kind)
    /\ t' = WriteReg(t, "STATUS", 0)
    /\ tx_expect' = tx_chan
    /\ rx_expect' = rx_pending \o rx_chan
    /\ UNCHANGED <<kind, b, rx_pending, rx_chan, tx_chan, busy>>

(***************************************************************************)
(* The chains the driver may build, as sequences of buffers.  Those that   *)
(* no driver should build are among them: buffers that are too short, too  *)
(* long, in the wrong direction or at an address that is not mapped, a     *)
(* missing header, payload or status, and chains that do not end but go    *)
(* round or lead out of the descriptor table.                              *)
(***************************************************************************)
\* consecutive frames differ, so that a swap shows
Number(f) == IF kind = "net" THEN f[1] ELSE IF f.payload = <<>> THEN 2 ELSE f.payload[1]

Fresh(frames) == IF frames = <<>> THEN 1 ELSE 3 - Number(frames[Len(frames)])

In(bytes) == [writable |-> FALSE, mapped |-> TRUE, data |-> bytes]
Out(n) == [writable |-> TRUE, mapped |-> TRUE, data |-> Zeros(n)]
Unmapped(d) == [d EXCEPT !.mapped = FALSE]

BlockShapes ==
    {<<In(<<VIRTIO_BLK_T_IN, 0>>), Out(1), Out(1)>>,
     <<In(<<VIRTIO_BLK_T_OUT, 0>>), In(<<1>>), Out(1)>>,
     <<In(<<VIRTIO_BLK_T_OUT, 0>>)>>,
     <<In(<<VIRTIO_BLK_T_IN, 0>>), Out(MAX_REQUEST + 1), Unmapped(Out(1))>>}

\* a host frame is two bytes on the network, and a packet three on the socket
RxShapes ==
    IF kind = "net"
    THEN {<<Out(NET_HDR_SIZE), Out(2)>>, <<Out(NET_HDR_SIZE + 1)>>,
          <<Unmapped(Out(NET_HDR_SIZE + 2))>>}
    ELSE {<<Out(3)>>, <<Out(2), Out(1)>>, <<Unmapped(Out(3))>>, <<In(<<0>>)>>}

TxShapes(v) ==
    IF kind = "net"
    THEN {<<In(Zeros(NET_HDR_SIZE)), In(<<v>>)>>, <<In(Zeros(NET_HDR_SIZE))>>,
          <<In(Zeros(NET_HDR_SIZE)), Unmapped(In(<<v>>))>>,
          <<In(Zeros(MAX_FRAME + 1))>>, <<Out(1)>>}
    ELSE {<<In(<<5, 1, v>>)>>, <<In(<<5, 1>>), In(<<v>>)>>, <<In(<<5, 1>>)>>, <<In(<<5>>)>>,
          <<Unmapped(In(<<5, 0>>))>>, <<In(Zeros(MAX_FRAME + 1))>>}

Shapes(i) ==
    CASE kind = "block" -> BlockShapes
      [] kind # "block" /\ i = RX_QUEUE -> RxShapes
      [] kind # "block" /\ i = TX_QUEUE -> TxShapes(Fresh(tx_expect))
      [] OTHER -> {<<Out(1)>>}

\* the chain of which the last descriptor leads out of the table
Astray(i) ==
    CASE kind = "block" -> <<In(<<VIRTIO_BLK_T_OUT, 0>>)>>
      [] kind = "net" /\ i = RX_QUEUE -> <<Out(NET_HDR_SIZE + 1)>>
      [] kind = "net" /\ i = TX_QUEUE -> <<In(Zeros(NET_HDR_SIZE))>>
      [] kind = "vsock" /\ i = RX_QUEUE -> <<In(<<0>>)>>
      [] kind = "vsock" /\ i = TX_QUEUE -> <<In(<<5, 1>>)>>
      [] OTHER -> <<>>

Sendable(d) == ~d.writable /\ d.mapped /\ Len(d.data) <= MAX_FRAME

\* the frame a chain carries to the host, if it is one
TxFrames(i, s) ==
    LET raw == IF Len(s) = 1 THEN s[1].data ELSE s[1].data \o s[2].data IN
    IF i # TX_QUEUE \/ \E j \in DOMAIN s : ~Sendable(s[j]) THEN <<>>
    ELSE IF kind = "net" THEN IF Len(s) = 2 THEN <<s[2].data>> ELSE <<>>
    ELSE IF Len(raw) >= VSOCK_HDR_SIZE
         THEN <<[op |-> 5, len |-> raw[2], payload |-> SubSeq(raw, 3, Len(raw))]>>
         ELSE <<>>

Occupied(i) == UNION {{c[j] : j \in DOMAIN c} : c \in {drv.inflight[i][n] : n \in DOMAIN drv.inflight[i]}}

\* descriptors are taken in turn, so that a head is not the slot it is put into
NextFree(i, n) == [j \in 1..n |-> (drv.alloc[i] + j - 1) % QueueSize[kind]]

\* how the last descriptor of a chain goes on
Tails == {"end", "round", "outside"}

\* A cycle takes all descriptors: in a shorter one the device would use a buffer
\* twice.
Submit(i) ==
    /\ Live
    /\ i = TX_QUEUE => Len(tx_expect) < MaxTx
    /\ \E s \in Shapes(i), last \in Tails :
       /\ Len(s) <= QueueSize[kind] - Cardinality(Occupied(i))
       /\ last = "round" => Len(s) = QueueSize[kind]
       /\ last = "outside" <=> s = Astray(i)
       /\ LET c == NextFree(i, Len(s))
              a == mem[AvailAt(i)]
          IN /\ mem' = [mem EXCEPT
                   ![DescAt(i)] = [d \in DOMAIN @ |->
                       IF \E j \in DOMAIN c : c[j] = d
                       THEN LET j == CHOOSE j \in DOMAIN c : c[j] = d IN
                            [writable |-> s[j].writable, mapped |-> s[j].mapped,
                             data |-> s[j].data,
                             has_next |-> j < Len(s) \/ last # "end",
                             next |-> IF j < Len(s) THEN c[j + 1]
                                      ELSE IF last = "outside" THEN QueueSize[kind] ELSE c[1]]
                       ELSE @[d]],
                   ![AvailAt(i)].ring[a.idx % QueueSize[kind]] = c[1],
                   ![AvailAt(i)].idx = (a.idx + 1) % IdxMod]
             /\ drv' = [drv EXCEPT !.inflight[i] = Append(@, c),
                                   !.alloc[i] = (@ + Len(s)) % QueueSize[kind]]
             /\ tx_expect' = tx_expect \o TxFrames(i, s)
    /\ UNCHANGED <<kind, t, b, rx_pending, busy, rx_chan, tx_chan, rx_expect>>

\* the chains in flight without the one that begins at head
Without(chains, head) ==
    LET k == CHOOSE k \in DOMAIN chains : chains[k][1] = head
    IN [j \in 1..(Len(chains) - 1) |-> IF j < k THEN chains[j] ELSE chains[j + 1]]

\* the driver takes the next entry of the used ring, and its chain is free again
Consume(i) ==
    /\ Live /\ drv.seen[i] # mem[UsedAt(i)].idx
    /\ LET e == Unseen(i)[1] IN
       /\ drv' = [drv EXCEPT !.seen[i] = (@ + 1) % IdxMod,
                             !.inflight[i] = Without(@, e.id)]
       /\ mem' = [mem EXCEPT ![DescAt(i)] = [d \in DOMAIN @ |->
                    IF \E j \in DOMAIN drv.inflight[i][1] : drv.inflight[i][1][j] = d
                    THEN NoBuffer ELSE @[d]]]
       /\ rx_expect' = IF i = RX_QUEUE /\ kind # "block" /\ e.len > 0
                       THEN Tail(rx_expect) ELSE rx_expect
    /\ UNCHANGED <<kind, t, b, rx_pending, busy, rx_chan, tx_chan, tx_expect>>

\* the interrupt handler acknowledges
Ack ==
    /\ Live /\ busy = Idle /\ ReadReg(t, <<0, 0>>, "INTERRUPT_STATUS") = 1
    /\ t' = WriteReg(t, "INTERRUPT_ACK", 1)
    /\ UNCHANGED <<kind, b, rx_pending, mem, busy, drv, hostVars>>
-----------------------------------------------------------------------------
(***************************************************************************)
(* QUEUE_NOTIFY: the device processes queue i under its lock, and then the *)
(* interrupt is raised.                                                    *)
(***************************************************************************)
Notify(i) ==
    /\ Live /\ busy = Idle
    /\ busy' = [Idle EXCEPT !.op = "notify", !.queue = i]
    /\ UNCHANGED <<kind, t, b, rx_pending, mem, drv, hostVars>>

\* the queue is advanced and the chain returned
Return(i, head, m, written) ==
    /\ t' = [t EXCEPT !.queues[i].queue = Popped(@)]
    /\ mem' = PushUsed(Q(i), m, head, written)

\* one round of process_queue of the block device
ProcessBlock ==
    /\ kind = "block" /\ busy.op = "notify" /\ HasChain(Q(busy.queue), mem)
    /\ \E io \in BOOLEAN :
          LET i == busy.queue
              head == HeadIndex(Q(i), mem)
              r == ProcessRequest(b, Q(i), mem, head, io)
          IN /\ b' = r.b
             /\ Return(i, head, r.mem, r.written)
    /\ UNCHANGED <<kind, rx_pending, busy, drv, hostVars>>

\* one round of process_tx, or of the stubbed event queue
ProcessTx ==
    /\ kind # "block" /\ busy.op = "notify" /\ busy.queue # RX_QUEUE
    /\ HasChain(Q(busy.queue), mem)
    /\ LET i == busy.queue
           head == HeadIndex(Q(i), mem)
       IN /\ tx_chan' = tx_chan \o (IF i # TX_QUEUE THEN <<>>
                                    ELSE IF kind = "net" THEN NetTx(Q(i), mem, head)
                                    ELSE VsockTx(Q(i), mem, head))
          /\ Return(i, head, mem, 0)
    /\ UNCHANGED <<kind, b, rx_pending, busy, drv, rx_chan, tx_expect, rx_expect>>

\* nothing more to process, or a notification that only announces RX buffers
Processed ==
    \/ ~HasChain(Q(busy.queue), mem)
    \/ kind = "vsock" /\ busy.queue = RX_QUEUE
    \/ kind = "net" /\ busy.queue = RX_QUEUE /\ rx_pending = <<>>

NotifyEnds ==
    /\ busy.op = "notify" /\ Processed
    /\ t' = Raise(t)
    /\ busy' = Idle
    /\ UNCHANGED <<kind, b, rx_pending, mem, drv, hostVars>>

(***************************************************************************)
(* poll_rx: what the channel holds becomes pending, then frames are put    *)
(* into RX chains: one by the network device, as many as there are chains  *)
(* by the vsock device.                                                    *)
(***************************************************************************)
PollStart ==
    /\ busy = Idle /\ kind # "block" /\ rx_pending \o rx_chan # <<>>
    /\ rx_pending' = rx_pending \o rx_chan
    /\ rx_chan' = <<>>
    /\ busy' = [Idle EXCEPT !.op = "poll"]
    /\ UNCHANGED <<kind, t, b, mem, drv, tx_chan, tx_expect, rx_expect>>

\* mutant: a frame is dropped when its chain has no writable buffer
KeepsFrame_Never(written) == FALSE

\* a frame of which nothing was written stays pending
KeepsFrame(written) == written = 0

\* one round of deliver_rx of the network device, also for a notification
DeliverNet ==
    /\ kind = "net" /\ busy # Idle /\ busy.queue = RX_QUEUE
    /\ rx_pending # <<>> /\ HasChain(Q(RX_QUEUE), mem)
    /\ LET head == HeadIndex(Q(RX_QUEUE), mem)
           r == NetRx(Q(RX_QUEUE), mem, head, Head(rx_pending))
           q == Popped(Q(RX_QUEUE))
           notified == busy.op = "notify" \/ r.written > 0
       IN /\ mem' = PushUsed(Q(RX_QUEUE), r.mem, head, r.written)
          /\ rx_pending' = IF KeepsFrame(r.written) THEN rx_pending ELSE Tail(rx_pending)
          /\ t' = [IF notified THEN Raise(t) ELSE t EXCEPT !.queues[RX_QUEUE].queue = q]
          /\ busy' = Idle
    /\ UNCHANGED <<kind, b, drv, hostVars>>

\* one round of the vsock device; a chain it cannot use ends the poll
DeliverVsock ==
    /\ kind = "vsock" /\ busy.op = "poll"
    /\ rx_pending # <<>> /\ HasChain(Q(RX_QUEUE), mem)
    /\ LET head == HeadIndex(Q(RX_QUEUE), mem)
           r == VsockRx(Q(RX_QUEUE), mem, head, Head(rx_pending))
           injected == busy.injected \/ r.written > 0
           ends == KeepsFrame(r.written)
       IN /\ mem' = PushUsed(Q(RX_QUEUE), r.mem, head, r.written)
          /\ rx_pending' = IF ends THEN rx_pending ELSE Tail(rx_pending)
          /\ t' = [IF ends /\ injected THEN Raise(t) ELSE t
                     EXCEPT !.queues[RX_QUEUE].queue = Popped(@)]
          /\ busy' = IF ends THEN Idle ELSE [busy EXCEPT !.injected = TRUE]
    /\ UNCHANGED <<kind, b, drv, hostVars>>

PollEnds ==
    /\ busy.op = "poll" /\ (rx_pending = <<>> \/ ~HasChain(Q(RX_QUEUE), mem))
    /\ t' = IF busy.injected THEN Raise(t) ELSE t
    /\ busy' = Idle
    /\ UNCHANGED <<kind, b, rx_pending, mem, drv, hostVars>>
-----------------------------------------------------------------------------
\* the host's side of the channels
HostSends ==
    /\ kind # "block" /\ RX_QUEUE \in drv.uses /\ Len(rx_expect) < MaxRx
    /\ LET n == Fresh(rx_expect)
           f == IF kind = "net" THEN <<n, n + 2>> ELSE [op |-> 5, len |-> 1, payload |-> <<n>>]
       IN /\ rx_chan' = Append(rx_chan, f)
          /\ rx_expect' = Append(rx_expect, f)
    /\ UNCHANGED <<kind, t, b, rx_pending, mem, busy, drv, tx_chan, tx_expect>>

HostReceives ==
    /\ tx_chan # <<>>
    /\ tx_chan' = Tail(tx_chan)
    /\ tx_expect' = Tail(tx_expect)
    /\ UNCHANGED <<kind, t, b, rx_pending, mem, busy, drv, rx_chan, rx_expect>>

Driver ==
    \/ SetupWrite \/ StartOver \/ Ack
    \/ \E i \in drv.uses : Submit(i) \/ Consume(i) \/ Notify(i)

Device ==
    \/ ProcessBlock \/ ProcessTx \/ NotifyEnds
    \/ PollStart \/ DeliverNet \/ DeliverVsock \/ PollEnds

Next == Driver \/ Device \/ HostSends \/ HostReceives

Spec == Init /\ [][Next]_vars

-----------------------------------------------------------------------------
(***************************************************************************)
(* Every chain is taken once and returned once, in the order in which the  *)
(* driver made them available: what the used ring holds that the driver    *)
(* has not seen is the beginning of what it has in flight, and the rest of *)
(* that is what the device has not taken yet, also when the indices wrap   *)
(* and after a reset.                                                      *)
(***************************************************************************)
RingsAgree ==
    Live =>
      \A i \in Queues :
        LET fly == drv.inflight[i]
            back == Unseen(i)
            waiting == (mem[AvailAt(i)].idx - Q(i).last_avail_idx + IdxMod) % IdxMod
        IN /\ Len(back) + waiting = Len(fly)
           /\ \A j \in DOMAIN back : back[j].id = fly[j][1]

(***************************************************************************)
(* The host gets the guest's frames once, complete, and in order.          *)
(***************************************************************************)
TxInOrder ==
    /\ Len(tx_chan) <= Len(tx_expect)
    /\ tx_chan = SubSeq(tx_expect, 1, Len(tx_chan))
    /\ Live /\ QueueCount(kind) > 1 /\ ~HasChain(Q(TX_QUEUE), mem) => tx_chan = tx_expect

(***************************************************************************)
(* The guest gets the host's frames once and in order: the chains it has   *)
(* got back but not looked at, the frames pending in the device and those  *)
(* in the channel are all that is still to come, in that order.  A chain   *)
(* that the device passes over, or a missing one, loses nothing.           *)
(*                                                                         *)
(* A chain that is used holds its frame.  On the network that is the frame *)
(* behind an empty header, spread over the buffers that can be written and *)
(* cut off where they end, and the length says how much of it is there.    *)
(* A socket packet is in the first buffer, whole: the code writes it there *)
(* whatever the length of the buffer, and it is lost, though the chain is  *)
(* returned as used, if that buffer is not mapped.                         *)
(***************************************************************************)
\* the part of load between from and to is what the buffer takes
TakesPart(d, load, from, to) ==
    IF d.writable /\ d.mapped
    THEN /\ to = from + Least(Len(d.data), Len(load) - from)
         /\ \A i \in 1..(to - from) : d.data[i] = load[from + i]
    ELSE to = from

SpreadOver(table, c, load, len) ==
    \E at \in [0..Len(c) -> 0..Len(load)] :
       /\ at[0] = 0 /\ at[Len(c)] = len
       /\ \A j \in 1..Len(c) : TakesPart(table[c[j]], load, at[j - 1], at[j])

HoldsPacket(d, load, len) ==
    /\ len = Len(load)
    /\ d.mapped => \A i \in 1..Len(load) : d.data[i] = load[i]

Arrived(f, c, len) ==
    LET table == mem[DescAt(RX_QUEUE)] IN
    IF kind = "net" THEN SpreadOver(table, c, Zeros(NET_HDR_SIZE) \o f, len)
                    ELSE HoldsPacket(table[c[1]], ToBytes(f), len)

RxInOrder ==
    kind # "block" =>
      LET back == IF Live THEN Unseen(RX_QUEUE) ELSE <<>>
          used == {j \in DOMAIN back : back[j].len > 0}
          rest == rx_pending \o rx_chan
      IN /\ Len(rx_expect) = Cardinality(used) + Len(rest)
         /\ \A j \in used :
              Arrived(rx_expect[Cardinality({h \in used : h <= j})],
                      drv.inflight[RX_QUEUE][j], back[j].len)
         /\ \A j \in 1..Len(rest) : rx_expect[Cardinality(used) + j] = rest[j]
=============================================================================
