---------------------------- MODULE GuestMemory ----------------------------
(***************************************************************************)
(* Guest physical memory: the regions the VMM has allocated, and what has  *)
(* been written where.  Addresses and sizes count KiB, so that a page is   *)
(* four of them; AddressSpace stands for the width of u64.                 *)
(*                                                                         *)
(* A memory is a record: regions, in the order of their addresses; writes, *)
(* the slices written so far, oldest first; and err, the error of the      *)
(* first operation that failed.  As after the code's ?, nothing happens to *)
(* a memory that has failed.                                               *)
(***************************************************************************)
EXTENDS Integers, Sequences, SequencesExt

PAGE == 4

AddressSpace == 2^30

NoError == "none"

EmptyMemory == [regions |-> <<>>, writes |-> <<>>, err |-> NoError]

Fails(m, e) == [m EXCEPT !.err = e]

Over(a, n) == a + n >= AddressSpace

AlignUp(n) == ((n + PAGE - 1) \div PAGE) * PAGE

Intersect(a, n, b, k) == a < b + k /\ a + n > b

Overlaps(r, gpa, size) == Intersect(gpa, size, r.gpa, r.size)

\* add_region: rounded up to pages, never over another region
AddRegion(m, gpa, size) ==
    IF m.err # NoError THEN m
    ELSE IF Over(size, PAGE - 1) \/ Over(gpa, AlignUp(size))
    THEN Fails(m, "InvalidSize")
    ELSE IF \E i \in DOMAIN m.regions : Overlaps(m.regions[i], gpa, AlignUp(size))
    THEN Fails(m, "MapMemory")
    ELSE LET below == SelectSeq(m.regions, LAMBDA r : r.gpa < gpa)
             above == SelectSeq(m.regions, LAMBDA r : r.gpa > gpa)
         IN  [m EXCEPT !.regions =
                below \o <<[gpa |-> gpa, size |-> AlignUp(size)]>> \o above]

Holding(m, addr) ==
    {i \in DOMAIN m.regions :
        m.regions[i].gpa <= addr /\ addr < m.regions[i].gpa + m.regions[i].size}

\* find_region: the error of an access, or none
FindRegion(m, addr, len) ==
    IF Over(addr, len) THEN "OutOfBounds"
    ELSE IF Holding(m, addr) = {} THEN "NotMapped"
    ELSE LET r == m.regions[CHOOSE i \in Holding(m, addr) : TRUE] IN
         IF len > r.size - (addr - r.gpa) THEN "OutOfBounds" ELSE NoError

WriteSlice(m, gpa, len, what) ==
    IF m.err # NoError \/ len = 0 THEN m
    ELSE IF FindRegion(m, gpa, len) # NoError
    THEN Fails(m, FindRegion(m, gpa, len))
    ELSE [m EXCEPT !.writes = Append(@, [at |-> gpa, len |-> len, what |-> what])]

\* write_zeroes: a page at a time, so that a part of it may be done
WriteZeroes(m, gpa, len, what) ==
    FoldLeft(LAMBDA w, i : WriteSlice(w, gpa + i * PAGE,
                              IF len - i * PAGE < PAGE THEN len - i * PAGE ELSE PAGE, what),
             m, [k \in 1..AlignUp(len) \div PAGE |-> k - 1])

\* what a read of addr finds: the last slice written over it
Content(m, addr) ==
    LET over == {i \in DOMAIN m.writes :
                    m.writes[i].at <= addr /\ addr < m.writes[i].at + m.writes[i].len}
    IN  IF over = {} THEN "zero"
        ELSE m.writes[CHOOSE i \in over : \A j \in over : j <= i].what
=============================================================================
