----------------------------- MODULE VirtQueue -----------------------------
(***************************************************************************)
(* The split virtqueue as the device sees it: a record with the addresses  *)
(* of the descriptor table, the available ring and the used ring, and the  *)
(* position in the available ring.  Everything else is in guest memory.    *)
(*                                                                         *)
(* Guest memory is a function from the addresses that are mapped to what   *)
(* the driver keeps there: a table of descriptors, or a ring with its      *)
(* index.  An access to any other address fails.  A descriptor's buffer    *)
(* is part of its record: data is what the driver or the device has put    *)
(* into it, mapped says whether its address is accessible.                 *)
(***************************************************************************)
EXTENDS Naturals, Sequences

CONSTANTS
    IdxMod,         \* number of values of a ring index, 2^16 in the code
    MAX_QUEUE_SIZE  \* largest queue depth, 256 in the code

ASSUME QueueAssumptions ==
    /\ IdxMod \in Nat /\ MAX_QUEUE_SIZE \in Nat
    /\ 0 < MAX_QUEUE_SIZE /\ MAX_QUEUE_SIZE < IdxMod

NewQueue(size) ==
    [size |-> IF size = 0 \/ size > MAX_QUEUE_SIZE THEN MAX_QUEUE_SIZE ELSE size,
     desc |-> <<0, 0>>, avail |-> <<0, 0>>, used |-> <<0, 0>>,
     last_avail_idx |-> 0, ready |-> FALSE]

Configure(q, desc, avail, used) ==
    [q EXCEPT !.desc = desc, !.avail = avail, !.used = used]

SetReady(q, ready) == [q EXCEPT !.ready = ready]

SetSize(q, size) ==
    IF size > 0 /\ size <= MAX_QUEUE_SIZE THEN [q EXCEPT !.size = size] ELSE q

\* mutant: the position in the available ring survives the reset
ResetQueue_KeepsIndex(q) ==
    [NewQueue(MAX_QUEUE_SIZE) EXCEPT !.last_avail_idx = q.last_avail_idx]

ResetQueue(q) == NewQueue(MAX_QUEUE_SIZE)

-----------------------------------------------------------------------------
(***************************************************************************)
(* pop_chain: whether there is a chain to take, its head, and the queue    *)
(* after it was taken.                                                     *)
(***************************************************************************)
HasChain(q, mem) ==
    /\ q.ready
    /\ q.avail \in DOMAIN mem
    /\ q.last_avail_idx # mem[q.avail].idx

HeadIndex(q, mem) == mem[q.avail].ring[q.last_avail_idx % q.size]

Popped(q) == [q EXCEPT !.last_avail_idx = (@ + 1) % IdxMod]

\* push_used: the element, then the index
PushUsed(q, mem, head, len) ==
    IF q.used \notin DOMAIN mem
    THEN mem
    ELSE LET idx == mem[q.used].idx IN
         [mem EXCEPT ![q.used].ring[idx % q.size] = [id |-> head, len |-> len],
                     ![q.used].idx = (idx + 1) % IdxMod]

(***************************************************************************)
(* The descriptors that next_descriptor yields one after the other,        *)
(* together with their indices: the chain ends at a descriptor without     *)
(* NEXT, at an index out of range, and after as many descriptors as the    *)
(* queue has, so that a cyclic chain ends as well.                         *)
(***************************************************************************)
Chain(q, mem, head) ==
    LET walk[n \in 0..q.size] ==
           IF n = 0
           THEN [taken |-> <<>>, next |-> head, more |-> q.desc \in DOMAIN mem]
           ELSE LET w == walk[n - 1] IN
                IF w.more /\ w.next < q.size
                THEN [taken |-> Append(w.taken, w.next),
                      next |-> mem[q.desc][w.next].next,
                      more |-> mem[q.desc][w.next].has_next]
                ELSE [w EXCEPT !.more = FALSE]
    IN walk[q.size].taken
=============================================================================
