----------------------------- MODULE SerialBuf -----------------------------
(***************************************************************************)
(* The ring buffer for serial output (hitz-vmm: serial_buf.rs).  One       *)
(* writer, the serial device behind the devices' mutex, and a number of    *)
(* independent readers, the clients that stream /vms/{id}/serial.          *)
(*                                                                         *)
(* A byte is represented by its position in the output, counted from 1, so *)
(* that a misplaced, repeated or stale byte can be told from the right one.*)
(* Ring cells are numbered from 0, as in the code; a cell that was never   *)
(* written holds 0.  The watch channel is tokio's: a reader learns of a    *)
(* send whenever it asks next, and of the senders' end only after that.    *)
(***************************************************************************)
EXTENDS Naturals, Sequences

CONSTANTS
  Cap,        \* capacity of the ring (64 KiB in the code)
  Readers,    \* SerialReader instances
  MaxLen,     \* bound on the length of one write
  MaxTotal    \* bound on the bytes written

ASSUME RingAssumptions ==
  /\ Cap \in Nat \ {0}
  /\ MaxLen \in Nat
  /\ MaxTotal \in Nat

VARIABLES
  inner,      \* the state behind the mutex
  sent,       \* the watch channel has been sent to
  writer,     \* between the writer's unlock and its send, or not
  closer,     \* the same for close()
  senders,    \* some SerialBuf still exists
  reader      \* the readers; chunk is what read_chunk returned last

vars == <<inner, sent, writer, closer, senders, reader>>

Cells == 0..(Cap - 1)

Absent == [pc |-> "absent", read_pos |-> 0, unseen |-> FALSE, chunk |-> <<>>]

Init ==
  /\ inner = [buf |-> [i \in Cells |-> 0], write_pos |-> 0, total_written |-> 0,
              closed |-> FALSE]
  /\ sent = FALSE
  /\ writer = "idle"
  /\ closer = "idle"
  /\ senders = TRUE
  /\ reader = [r \in Readers |-> Absent]

---------------------------------------------------------------------------
(* write. *)

\* The bytes at positions from + 1 to to.
Bytes(from, to) == [i \in 1..(to - from) |-> from + i]

\* buf[at..at + len].copy_from_slice(data)
CopyInto(buf, at, data) ==
  [i \in Cells |-> IF i \in at..(at + Len(data) - 1) THEN data[i - at + 1] ELSE buf[i]]

\* Mutant: the skipped bytes do not advance the position.
StartOf_NoSkip(write_pos, len) == write_pos

\* Where the last Cap bytes of a write of len bytes begin.
StartOf(write_pos, len) == (write_pos + IF len > Cap THEN len - Cap ELSE 0) % Cap

NextPos(pos, n) == (pos + n) % Cap

Written(s, len) ==
  LET end     == s.total_written + len
      data    == Bytes(IF len > Cap THEN end - Cap ELSE s.total_written, end)
      pos     == StartOf(s.write_pos, len)
      space   == Cap - pos
  IN  [s EXCEPT
         !.buf = IF Len(data) <= space
                   THEN CopyInto(@, pos, data)
                   ELSE CopyInto(CopyInto(@, pos, SubSeq(data, 1, space)),
                                 0, SubSeq(data, space + 1, Len(data))),
         !.write_pos = IF Len(data) <= space THEN NextPos(pos, Len(data))
                                             ELSE Len(data) - space,
         !.total_written = end]

Write(len) ==
  /\ senders /\ writer = "idle" /\ ~inner.closed
  /\ inner.total_written + len <= MaxTotal
  /\ inner' = Written(inner, len)
  /\ writer' = "notify"
  /\ UNCHANGED <<sent, closer, senders, reader>>

\* notify_tx.send(()): every receiver has something it has not seen.
Send ==
  /\ sent' = TRUE
  /\ reader' = [r \in Readers |-> [reader[r] EXCEPT !.unseen = (reader[r].pc # "absent")]]

\* Mutant: write does not send.
WriteNotifies_Silent ==
  /\ writer = "notify"
  /\ writer' = "idle"
  /\ UNCHANGED <<inner, sent, closer, senders, reader>>

WriteNotifies ==
  /\ writer = "notify"
  /\ Send
  /\ writer' = "idle"
  /\ UNCHANGED <<inner, closer, senders>>

---------------------------------------------------------------------------
(* close, once the VM's threads have ended. *)

Close ==
  /\ senders /\ writer = "idle" /\ closer = "idle"
  /\ inner' = [inner EXCEPT !.closed = TRUE]
  /\ closer' = "notify"
  /\ UNCHANGED <<sent, writer, senders, reader>>

\* Mutant: close does not send.
CloseNotifies_Silent ==
  /\ closer = "notify"
  /\ closer' = "done"
  /\ UNCHANGED <<inner, sent, writer, senders, reader>>

CloseNotifies ==
  /\ closer = "notify"
  /\ Send
  /\ closer' = "done"
  /\ UNCHANGED <<inner, writer, senders>>

\* The last SerialBuf is dropped, closed before or not.
DropSenders ==
  /\ senders /\ writer = "idle" /\ closer # "notify"
  /\ senders' = FALSE
  /\ UNCHANGED <<inner, sent, writer, closer, reader>>

---------------------------------------------------------------------------
(* The readers. *)

\* SerialBuf::reader: from the current position, with the buffer's own
\* receiver, which has seen nothing, as its own.
NewReader(r) ==
  /\ senders
  /\ reader[r].pc = "absent"
  /\ reader' = [reader EXCEPT ![r] = [pc |-> "reading", read_pos |-> inner.total_written,
                                      unseen |-> sent, chunk |-> <<>>]]
  /\ UNCHANGED <<inner, sent, writer, closer, senders>>

\* A reader that was lapped skips to the oldest byte in the ring.
Oldest(s, read_pos) ==
  IF s.total_written - read_pos > Cap THEN s.total_written - Cap ELSE read_pos

\* Mutant: the start is not wrapped to the ring.
ChunkStart_NoWrap(s, n) == IF s.write_pos >= n THEN s.write_pos - n ELSE 0

\* Where the last n bytes begin.
ChunkStart(s, n) == (s.write_pos + Cap - (n % Cap)) % Cap

Slice(buf, from, to) == [i \in 1..(to - from) |-> buf[from + i - 1]]

Chunk(s, read_pos) ==
  LET n     == s.total_written - Oldest(s, read_pos)
      start == ChunkStart(s, n)
  IN  IF start + n <= Cap
        THEN Slice(s.buf, start, start + n)
        ELSE Slice(s.buf, start, Cap) \o Slice(s.buf, 0, n - (Cap - start))

HasData(s, read_pos) == read_pos < s.total_written

\* One turn of read_chunk's loop under the lock: a chunk, the end, or waiting.
ReadChunk(r) ==
  /\ reader[r].pc = "reading"
  /\ LET pos == reader[r].read_pos IN
     reader' = [reader EXCEPT ![r] =
       IF HasData(inner, pos)
         THEN [@ EXCEPT !.read_pos = inner.total_written, !.chunk = Chunk(inner, pos)]
         ELSE [@ EXCEPT !.pc = IF inner.closed THEN "done" ELSE "waiting"]]
  /\ UNCHANGED <<inner, sent, writer, closer, senders>>

\* notify_rx.changed() returns: something unseen, or no sender is left.
Changed(r) ==
  /\ reader[r].pc = "waiting"
  /\ reader[r].unseen \/ ~senders
  /\ reader' = [reader EXCEPT ![r].pc = IF reader[r].unseen THEN "reading" ELSE "done",
                              ![r].unseen = FALSE]
  /\ UNCHANGED <<inner, sent, writer, closer, senders>>

---------------------------------------------------------------------------
Next ==
  \/ \E len \in 1..MaxLen : Write(len)
  \/ WriteNotifies \/ Close \/ CloseNotifies \/ DropSenders
  \/ \E r \in Readers : NewReader(r) \/ ReadChunk(r) \/ Changed(r)

Spec == Init /\ [][Next]_vars

\* A thread that has unlocked goes on to its send, and the executor polls
\* readers that can proceed.  Nobody need write or close.
FairSpec ==
  /\ Spec
  /\ WF_vars(WriteNotifies) /\ WF_vars(CloseNotifies)
  /\ \A r \in Readers : WF_vars(ReadChunk(r) \/ Changed(r))

---------------------------------------------------------------------------
(* Properties. *)

\* Type invariant.
TypeOK ==
  /\ inner.buf \in [Cells -> 0..MaxTotal]
  /\ inner.write_pos \in Cells
  /\ inner.total_written \in 0..MaxTotal
  /\ inner.closed \in BOOLEAN
  /\ sent \in BOOLEAN /\ senders \in BOOLEAN
  /\ writer \in {"idle", "notify"} /\ closer \in {"idle", "notify", "done"}
  /\ \A r \in Readers :
       /\ reader[r].pc \in {"absent", "reading", "waiting", "done"}
       /\ reader[r].read_pos \in 0..MaxTotal
       /\ reader[r].unseen \in BOOLEAN
       /\ reader[r].chunk \in Seq(0..MaxTotal)

\* The ring holds the last Cap bytes of the output, each in the cell its
\* position says, and the next byte goes to the cell of the oldest.
RingHoldsTail ==
  /\ inner.write_pos = inner.total_written % Cap
  /\ \A p \in 1..inner.total_written :
       p + Cap > inner.total_written => inner.buf[(p - 1) % Cap] = p

\* A read delivers exactly the unread bytes, or the last Cap of them if the
\* writer has lapped the reader: nothing twice, stale, or out of order
\* (serial_buf.rs:207-208).
ReadsTheTail ==
  [][\A r \in Readers :
       reader[r].pc = "reading" /\ reader'[r].read_pos # reader[r].read_pos =>
         LET end  == reader'[r].read_pos
             from == IF end - reader[r].read_pos > Cap THEN end - Cap ELSE reader[r].read_pos
         IN  end = inner.total_written /\ reader'[r].chunk = Bytes(from, end)]_vars

\* No wake-up is lost between a reader's look at the ring and its wait: a
\* reader behind the writer gets on ...
Delivered ==
  \A r \in Readers :
    (reader[r].pc = "waiting" /\ reader[r].read_pos < inner.total_written)
      ~> (reader[r].pc # "waiting")

\* ... and every reader comes to its end after close, having drained the
\* output (serial_buf.rs:219-220).
CloseEndsReaders ==
  \A r \in Readers :
    (inner.closed /\ reader[r].pc # "absent")
      ~> (reader[r].pc = "done" /\ reader[r].read_pos = inner.total_written)
=============================================================================
