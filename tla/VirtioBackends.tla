-------------------------- MODULE VirtioBackends ---------------------------
(***************************************************************************)
(* What the block, network and vsock devices do with one chain of          *)
(* descriptors.  Buffers are sequences of bytes, in units: the sizes of    *)
(* sectors, headers and limits are scaled down by the constants.  A        *)
(* buffer that is not mapped cannot be read or written.                    *)
(***************************************************************************)
EXTENDS VirtioMmioTransport

CONSTANTS
    SECTOR_SIZE,     \* 512 in the code
    MAX_REQUEST,     \* largest block request, 16 MiB in the code
    MAX_FRAME,       \* largest chain that is gathered, 65536 in the code
    NET_HDR_SIZE     \* size of the virtio-net header, 12 in the code

\* on the wire the header of a vsock packet is two units
VSOCK_HDR_SIZE == 2

\* a chain that is gathered may be longer than a header
ASSUME BackendAssumptions ==
    /\ SECTOR_SIZE \in Nat \ {0}
    /\ MAX_REQUEST \in Nat /\ MAX_FRAME \in Nat /\ NET_HDR_SIZE \in Nat
    /\ NET_HDR_SIZE < MAX_FRAME /\ VSOCK_HDR_SIZE < MAX_FRAME

VIRTIO_BLK_T_IN == 0
VIRTIO_BLK_T_OUT == 1
VIRTIO_BLK_S_OK == 0
VIRTIO_BLK_S_IOERR == 1

Zeros(n) == [i \in 1..n |-> 0]

Least(a, b) == IF a < b THEN a ELSE b

\* the bytes at the start of a buffer are replaced
Overwrite(buf, bytes) == bytes \o SubSeq(buf, Len(bytes) + 1, Len(buf))

Buffer(q, mem, i) == mem[q.desc][i]

WriteBuffer(q, mem, i, bytes) ==
    IF Buffer(q, mem, i).mapped
    THEN [mem EXCEPT ![q.desc][i].data = Overwrite(@, bytes)]
    ELSE mem

-----------------------------------------------------------------------------
(***************************************************************************)
(* The block device: a file, and its capacity in whole sectors.            *)
(***************************************************************************)
NewBlock(disk) == [disk |-> disk, capacity |-> Len(disk) \div SECTOR_SIZE]

\* the checks at the start of handle_read and handle_write
InBounds(b, sector, len) ==
    /\ len <= MAX_REQUEST
    /\ sector < b.capacity
    /\ sector * SECTOR_SIZE + len <= b.capacity * SECTOR_SIZE

\* io: whether the host's file operations succeed
HandleRead(b, q, mem, i, sector, io) ==
    LET len == Len(Buffer(q, mem, i).data)
        at == sector * SECTOR_SIZE
    IN IF InBounds(b, sector, len) /\ io /\ Buffer(q, mem, i).mapped
       THEN [status |-> VIRTIO_BLK_S_OK, written |-> len,
             mem |-> WriteBuffer(q, mem, i, SubSeq(b.disk, at + 1, at + len))]
       ELSE [status |-> VIRTIO_BLK_S_IOERR, written |-> 0, mem |-> mem]

HandleWrite(b, q, mem, i, sector, io) ==
    LET bytes == Buffer(q, mem, i).data
        at == sector * SECTOR_SIZE
    IN IF InBounds(b, sector, Len(bytes)) /\ io /\ Buffer(q, mem, i).mapped
       THEN [status |-> VIRTIO_BLK_S_OK,
             disk |-> [j \in DOMAIN b.disk |->
                         IF j \in (at + 1)..(at + Len(bytes))
                         THEN bytes[j - at] ELSE b.disk[j]]]
       ELSE [status |-> VIRTIO_BLK_S_IOERR, disk |-> b.disk]

\* what process_request does for a type and a data buffer
Serves(req_type, writable) ==
    IF req_type = VIRTIO_BLK_T_IN /\ writable THEN "read"
    ELSE IF req_type = VIRTIO_BLK_T_OUT /\ ~writable THEN "write" ELSE "refuse"

(***************************************************************************)
(* process_request: header, data and status are the first three buffers    *)
(* of the chain.  The header is the type and the sector.                   *)
(***************************************************************************)
ProcessRequest(b, q, mem, head, io) ==
    LET c == Chain(q, mem, head)
        hdr == Buffer(q, mem, c[1])
        what == Serves(hdr.data[1], Buffer(q, mem, c[2]).writable)
        r == HandleRead(b, q, mem, c[2], hdr.data[2], io)
        w == HandleWrite(b, q, mem, c[2], hdr.data[2], io)
        status == CASE what = "read" -> r.status
                    [] what = "write" -> w.status
                    [] OTHER -> VIRTIO_BLK_S_IOERR
        total == IF what = "read" THEN r.written ELSE 0
        mem2 == IF what = "read" THEN r.mem ELSE mem
        b2 == IF what = "write" THEN [b EXCEPT !.disk = w.disk] ELSE b
    IN IF Len(c) < 2 \/ ~hdr.mapped
       THEN [b |-> b, mem |-> mem, written |-> 0]
       ELSE IF Len(c) < 3 \/ ~Buffer(q, mem, c[3]).writable
       THEN [b |-> b2, mem |-> mem2, written |-> total]
       ELSE [b |-> b2, mem |-> WriteBuffer(q, mem2, c[3], <<status>>),
             written |-> total + 1]

-----------------------------------------------------------------------------
(***************************************************************************)
(* Transmission: the readable buffers of a chain, one after the other.     *)
(* The network device passes over writable buffers, the vsock device       *)
(* stops at one; both stop before a buffer that would exceed the limit,    *)
(* and pass over one that cannot be read.                                  *)
(***************************************************************************)
Gather(q, mem, head, passesWritable) ==
    LET c == Chain(q, mem, head)
        got[n \in 0..Len(c)] ==
           IF n = 0
           THEN [bytes |-> <<>>, stopped |-> FALSE]
           ELSE LET g == got[n - 1]
                    d == Buffer(q, mem, c[n])
                IN IF g.stopped
                   THEN g
                   ELSE IF d.writable
                   THEN [g EXCEPT !.stopped = ~passesWritable]
                   ELSE IF Len(g.bytes) + Len(d.data) > MAX_FRAME
                   THEN [g EXCEPT !.stopped = TRUE]
                   ELSE IF d.mapped THEN [g EXCEPT !.bytes = @ \o d.data] ELSE g
    IN got[Len(c)].bytes

\* mutant: a chain that is only a header sends an empty frame
NetTx_HeaderOnly(q, mem, head) ==
    LET data == Gather(q, mem, head, TRUE)
    IN <<SubSeq(data, NET_HDR_SIZE + 1, Len(data))>>

\* the frames that process_tx sends for one chain: none if it is only a header
NetTx(q, mem, head) ==
    LET data == Gather(q, mem, head, TRUE)
    IN IF Len(data) > NET_HDR_SIZE
       THEN <<SubSeq(data, NET_HDR_SIZE + 1, Len(data))>>
       ELSE <<>>

(***************************************************************************)
(* Reception: a frame behind an empty header is spread over the writable   *)
(* buffers of a chain; what does not fit is cut off.                       *)
(***************************************************************************)
NetRx(q, mem, head, frame) ==
    LET c == Chain(q, mem, head)
        payload == Zeros(NET_HDR_SIZE) \o frame
        put[n \in 0..Len(c)] ==
           IF n = 0
           THEN [mem |-> mem, written |-> 0]
           ELSE LET p == put[n - 1]
                    d == Buffer(q, mem, c[n])
                    more == Least(Len(d.data), Len(payload) - p.written)
                IN IF d.writable /\ d.mapped
                   THEN [mem |-> WriteBuffer(q, p.mem, c[n],
                                   SubSeq(payload, p.written + 1, p.written + more)),
                         written |-> p.written + more]
                   ELSE p
    IN put[Len(c)]

-----------------------------------------------------------------------------
(***************************************************************************)
(* Vsock packets are a header and a payload.  On the wire the header is    *)
(* two units, the operation and the length of the payload; addresses and   *)
(* credits are left out.                                                   *)
(***************************************************************************)
ToBytes(p) == <<p.op, p.len>> \o p.payload

\* packets that process_tx forwards for one chain; a payload shorter than the
\* header says is dropped
VsockTx(q, mem, head) ==
    LET raw == Gather(q, mem, head, FALSE)
        last == VSOCK_HDR_SIZE + raw[2]
    IN IF Len(raw) >= VSOCK_HDR_SIZE
       THEN <<[op |-> raw[1], len |-> raw[2],
               payload |-> IF last <= Len(raw)
                           THEN SubSeq(raw, VSOCK_HDR_SIZE + 1, last) ELSE <<>>]>>
       ELSE <<>>

\* the first buffer takes the whole packet, or the packet stays pending
VsockRx(q, mem, head, p) ==
    LET c == Chain(q, mem, head)
    IN IF c # <<>> /\ Buffer(q, mem, c[1]).writable
       THEN [mem |-> WriteBuffer(q, mem, c[1], ToBytes(p)), written |-> Len(ToBytes(p))]
       ELSE [mem |-> mem, written |-> 0]
=============================================================================
