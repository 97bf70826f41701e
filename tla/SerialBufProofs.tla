-------------------------- MODULE SerialBufProofs --------------------------
(***************************************************************************)
(* Proofs about SerialBuf for every capacity of the ring, every set of     *)
(* readers and every length of the output.                                 *)
(***************************************************************************)
EXTENDS SerialBuf, Integers, SequenceTheorems, TLAPS

---------------------------------------------------------------------------
(* Remainders. *)

\* Quotient and remainder are unique.
LEMMA DivUnique ==
  ASSUME NEW c \in Nat \ {0}, NEW k \in Int, NEW l \in Int,
         NEW r \in 0..(c - 1), NEW s \in 0..(c - 1),
         c * k + r = c * l + s
  PROVE  k = l /\ r = s
<1>1. ASSUME NEW x \in Int, NEW y \in Int, x < y PROVE c * x + c <= c * y
  <2>1. c * (y - x - 1) >= 0
    BY <1>1
  <2>2. c * (y - x - 1) = c * y - c * x - c
    OBVIOUS
  <2> QED BY <2>1, <2>2
<1>2. ~(k < l)
  BY <1>1
<1>3. ~(l < k)
  BY <1>1
<1> QED BY <1>2, <1>3

\* They are what \div and % compute.
LEMMA DivMod ==
  ASSUME NEW c \in Nat \ {0}, NEW a \in Nat
  PROVE  a % c \in 0..(c - 1) /\ a \div c \in Nat /\ a = c * (a \div c) + (a % c)
<1>1. a % c \in 0..(c - 1)
  OBVIOUS
<1>2. a \div c \in Int
  OBVIOUS
<1>3. a = c * (a \div c) + (a % c)
  OBVIOUS
<1>4. a \div c >= 0
  BY <1>1, <1>2, <1>3
<1> QED BY <1>1, <1>2, <1>3, <1>4

\* The remainder of a sum.
LEMMA ModAdd ==
  ASSUME NEW c \in Nat \ {0}, NEW a \in Nat, NEW b \in Nat
  PROVE  ((a % c) + b) % c = (a + b) % c
<1> DEFINE r == a % c  q == a \div c
<1>1. r \in 0..(c - 1) /\ q \in Nat /\ a = c * q + r
  BY DivMod
<1>2. r + b \in Nat /\ a + b \in Nat
  BY <1>1
<1> DEFINE s == (r + b) % c  k == (r + b) \div c
           t == (a + b) % c  l == (a + b) \div c
<1>3. s \in 0..(c - 1) /\ k \in Nat /\ r + b = c * k + s
  BY <1>2, DivMod
<1>4. t \in 0..(c - 1) /\ l \in Nat /\ a + b = c * l + t
  BY <1>2, DivMod
<1> HIDE DEF r, q, s, k, t, l
<1> DEFINE n == q + k
<1>5. c * n = c * q + c * k
  BY <1>1, <1>3
<1>6. n \in Int /\ l \in Int
  BY <1>1, <1>3, <1>4
<1> HIDE DEF n
<1>7. c * n + s = c * l + t
  BY <1>1, <1>3, <1>4, <1>5, <1>6
<1>8. s = t
  <2>1. n \in Int /\ l \in Int /\ s \in 0..(c - 1) /\ t \in 0..(c - 1)
    BY <1>3, <1>4, <1>6
  <2> QED BY <1>7, <2>1, DivUnique
<1> QED BY <1>8 DEF s, t, r

\* Going on by less than a turn wraps at most once.
LEMMA Wrap ==
  ASSUME NEW c \in Nat \ {0}, NEW a \in Nat, NEW j \in 0..c
  PROVE  (a + j) % c = IF (a % c) + j < c THEN (a % c) + j ELSE (a % c) + j - c
<1> DEFINE r == a % c  q == a \div c
           t == (a + j) % c  l == (a + j) \div c
<1>1. r \in 0..(c - 1) /\ q \in Nat /\ a = c * q + r
  BY DivMod
<1>2. t \in 0..(c - 1) /\ l \in Nat /\ a + j = c * l + t
  <2>1. a + j \in Nat
    OBVIOUS
  <2> QED BY <2>1, DivMod
<1> HIDE DEF r, q, t, l
<1>3. CASE r + j < c
  <2>1. c * q + (r + j) = c * l + t
    BY <1>1, <1>2
  <2>2. r + j \in 0..(c - 1)
    BY <1>1, <1>3
  <2>3. r + j = t
    BY <1>1, <1>2, <2>1, <2>2, DivUnique
  <2> QED BY <1>3, <2>3 DEF r, t
<1>4. CASE ~(r + j < c)
  <2> DEFINE n == q + 1  s == r + j - c
  <2>1. c * n = c * q + c /\ n \in Int /\ l \in Int
    BY <1>1, <1>2
  <2>2. s \in 0..(c - 1) /\ s = r + j - c
    BY <1>1, <1>4
  <2> HIDE DEF n, s
  <2>3. c * n + s = c * l + t
    BY <1>1, <1>2, <2>1, <2>2
  <2>4. s = t
    <3>1. n \in Int /\ l \in Int /\ s \in 0..(c - 1) /\ t \in 0..(c - 1)
      BY <1>2, <2>1, <2>2
    <3> QED BY <2>3, <3>1, DivUnique
  <2> QED BY <1>4, <2>4 DEF r, t, s
<1> QED BY <1>3, <1>4

LEMMA ModSmall ==
  ASSUME NEW c \in Nat \ {0}, NEW a \in 0..(c - 1)
  PROVE  a % c = a
<1>1. a = 0 + a /\ a \in 0..c /\ 0 \in Nat
  OBVIOUS
<1>2. 0 % c = 0
  <2> DEFINE r == 0 % c  q == 0 \div c
  <2>1. r \in 0..(c - 1) /\ q \in Nat /\ 0 = c * q + r
    BY DivMod
  <2> HIDE DEF r, q
  <2>2. c * q >= 0
    BY <2>1
  <2>3. r = 0
    BY <2>1, <2>2
  <2> QED BY <2>3 DEF r
<1>3. (0 + a) % c = IF (0 % c) + a < c THEN (0 % c) + a ELSE (0 % c) + a - c
  BY <1>1, Wrap
<1> QED BY <1>2, <1>3

---------------------------------------------------------------------------
(* The ring after a write. *)

InnerRecords ==
  [buf : [Cells -> 0..MaxTotal], write_pos : Cells, total_written : 0..MaxTotal,
   closed : BOOLEAN]

\* The bytes of a write that are copied, and those that are skipped.
Copied(len) == IF len > Cap THEN Cap ELSE len
Skipped(len) == IF len > Cap THEN len - Cap ELSE 0

\* The cells of the ring after a copy of n bytes, the first of them the one after
\* the first base bytes of the output, from cell pos on.
Filled(buf, pos, base, n) ==
  [i \in Cells |-> IF i >= pos /\ i < pos + n THEN base + (i - pos) + 1
                   ELSE IF i + Cap < pos + n THEN base + (i + Cap - pos) + 1
                   ELSE buf[i]]

LEMMA BytesSeq ==
  ASSUME NEW a \in Nat, NEW b \in Nat, a <= b
  PROVE  /\ Bytes(a, b) \in Seq(Nat)
         /\ Len(Bytes(a, b)) = b - a
         /\ \A i \in 1..(b - a) : Bytes(a, b)[i] = a + i
<1>1. b - a \in Nat
  OBVIOUS
<1> DEFINE n == b - a
<1>2. Bytes(a, b) = [i \in 1..n |-> a + i]
  BY DEF Bytes
<1> HIDE DEF n
<1>3. \A i \in 1..n : a + i \in Nat
  BY <1>1 DEF n
<1>4. Bytes(a, b) \in [1..n -> Nat] /\ n \in Nat
  BY <1>1, <1>2, <1>3 DEF n
<1>5. Bytes(a, b) \in Seq(Nat) /\ Len(Bytes(a, b)) = n
  BY <1>2, <1>4
<1> QED BY <1>2, <1>5 DEF n

\* The two copies of write leave the ring filled.
LEMMA CopyFills ==
  ASSUME NEW buf \in [Cells -> 0..MaxTotal], NEW pos \in Cells,
         NEW base \in Nat, NEW n \in 1..Cap
  PROVE  LET data == Bytes(base, base + n)
             space == Cap - pos
         IN  Filled(buf, pos, base, n) =
               IF Len(data) <= space THEN CopyInto(buf, pos, data)
               ELSE CopyInto(CopyInto(buf, pos, SubSeq(data, 1, space)),
                             0, SubSeq(data, space + 1, Len(data)))
<1> USE RingAssumptions
<1> DEFINE data == Bytes(base, base + n)
           space == Cap - pos
<1>1. data \in Seq(Nat) /\ Len(data) = n /\ \A i \in 1..n : data[i] = base + i
  <2>1. base + n \in Nat /\ base <= base + n /\ (base + n) - base = n
    OBVIOUS
  <2> QED BY <2>1, BytesSeq
<1>2. space \in 1..Cap
  BY DEF Cells
<1> HIDE DEF data
<1>3. CASE n <= space
  <2>1. \A i \in Cells : (i \in pos..(pos + n - 1)) <=> (i >= pos /\ i < pos + n)
    BY DEF Cells
  <2>2. \A i \in Cells : i >= pos /\ i < pos + n => data[i - pos + 1] = base + (i - pos) + 1
    BY <1>1 DEF Cells
  <2>3. \A i \in Cells : ~(i + Cap < pos + n)
    BY <1>3 DEF Cells
  <2>4. CopyInto(buf, pos, data) = Filled(buf, pos, base, n)
    BY <1>1, <2>1, <2>2, <2>3 DEF CopyInto, Filled
  <2> QED BY <1>1, <1>3, <2>4 DEF data
<1>4. CASE n > space
  <2> DEFINE one == SubSeq(data, 1, space)
             two == SubSeq(data, space + 1, n)
  <2>1. one \in Seq(Nat) /\ Len(one) = space /\ \A i \in 1..space : one[i] = base + i
    BY <1>1, <1>2, <1>4
  <2>2. two \in Seq(Nat) /\ Len(two) = n - space
        /\ \A i \in 1..(n - space) : two[i] = base + space + i
    <3>1. space + 1 \in 1..n /\ n - (space + 1) + 1 = n - space
      BY <1>2, <1>4
    <3>2. two \in Seq(Nat) /\ Len(two) = n - (space + 1) + 1
          /\ \A i \in 1..(n - (space + 1) + 1) : two[i] = data[(space + 1) + i - 1]
      <4>1. \A i \in (space + 1)..n : data[i] \in Nat
        BY <1>1, <1>2
      <4>2. space + 1 \in Int /\ n \in Int /\ space + 1 <= n
        BY <3>1
      <4> HIDE DEF space
      <4> QED BY <4>1, <4>2, SubSeqProperties
    <3>3. \A i \in 1..(n - space) : (space + 1) + i - 1 \in 1..n /\ (space + 1) + i - 1 = space + i
      BY <1>2, <1>4
    <3>4. \A i \in 1..(n - space) : data[space + i] = base + space + i
      BY <1>1, <1>2, <3>3
    <3> QED BY <3>1, <3>2, <3>3, <3>4
  <2> HIDE DEF one, two
  <2>3. CopyInto(buf, pos, one) =
          [i \in Cells |-> IF i >= pos THEN base + (i - pos) + 1 ELSE buf[i]]
    <3>1. \A i \in Cells : (i \in pos..(pos + space - 1)) <=> i >= pos
      BY DEF Cells
    <3>2. \A i \in Cells : i >= pos => one[i - pos + 1] = base + (i - pos) + 1
      BY <2>1 DEF Cells
    <3> QED BY <2>1, <3>1, <3>2 DEF CopyInto
  <2>4. CopyInto(CopyInto(buf, pos, one), 0, two) = Filled(buf, pos, base, n)
    <3>1. \A i \in Cells : (i \in 0..(0 + (n - space) - 1)) <=> i + Cap < pos + n
      BY <1>4 DEF Cells
    <3>2. \A i \in Cells : i + Cap < pos + n =>
            /\ two[i - 0 + 1] = base + (i + Cap - pos) + 1
            /\ ~(i >= pos)
      BY <1>4, <2>2 DEF Cells
    <3>3. \A i \in Cells : i >= pos => i < pos + n
      BY <1>4 DEF Cells
    <3> QED BY <2>2, <2>3, <3>1, <3>2, <3>3 DEF CopyInto, Filled
  <2>5. ~(Len(data) <= space)
    BY <1>1, <1>2, <1>4
  <2>6. Filled(buf, pos, base, n) =
          CopyInto(CopyInto(buf, pos, SubSeq(data, 1, space)),
                   0, SubSeq(data, space + 1, Len(data)))
    BY <1>1, <2>4 DEF one, two
  <2> QED BY <2>5, <2>6 DEF data
<1>5. n \in Int /\ space \in Int
  BY <1>2
<1> QED BY <1>3, <1>4, <1>5

\* What write makes of the state behind the mutex.
LEMMA WrittenEffect ==
  ASSUME NEW s \in InnerRecords, s.write_pos = s.total_written % Cap,
         NEW len \in Nat \ {0}, s.total_written + len <= MaxTotal
  PROVE  /\ Written(s, len) \in InnerRecords
         /\ Written(s, len).total_written = s.total_written + len
         /\ Written(s, len).closed = s.closed
         /\ Written(s, len).write_pos = (s.total_written + len) % Cap
         /\ Written(s, len).buf =
              Filled(s.buf, (s.total_written + Skipped(len)) % Cap,
                     s.total_written + Skipped(len), Copied(len))
<1> USE RingAssumptions
<1> DEFINE total == s.total_written
           base == total + Skipped(len)
           end == total + len
           n == Copied(len)
           pos == base % Cap
           data == Bytes(base, base + n)
           space == Cap - pos
           fits == Len(data) <= space
           buf == IF fits THEN CopyInto(s.buf, pos, data)
                  ELSE CopyInto(CopyInto(s.buf, pos, SubSeq(data, 1, space)),
                                0, SubSeq(data, space + 1, Len(data)))
           write_pos == IF fits THEN NextPos(pos, Len(data)) ELSE Len(data) - space
<1>1. /\ total \in 0..MaxTotal /\ s.write_pos \in Cells /\ s.buf \in [Cells -> 0..MaxTotal]
      /\ s.closed \in BOOLEAN
  BY DEF InnerRecords
<1>2. Skipped(len) \in Nat /\ n \in 1..Cap /\ base \in Nat /\ base + n = end
  BY <1>1 DEF Skipped, Copied
<1>3. (IF len > Cap THEN end - Cap ELSE total) = base
  BY <1>1 DEF Skipped
<1>4. StartOf(s.write_pos, len) = pos
  <2>1. ((total % Cap) + Skipped(len)) % Cap = (total + Skipped(len)) % Cap
    BY <1>1, <1>2, ModAdd
  <2> QED BY <2>1 DEF StartOf, Skipped
<1>5. pos \in Cells
  BY <1>2, DivMod DEF Cells
<1>6. Len(data) = n
  <2>1. base + n \in Nat /\ base <= base + n /\ (base + n) - base = n
    BY <1>2
  <2> QED BY <1>2, <2>1, BytesSeq
<1>7. Written(s, len) = [s EXCEPT !.buf = buf, !.write_pos = write_pos, !.total_written = end]
  BY <1>2, <1>3, <1>4 DEF Written
<1>8. buf = Filled(s.buf, pos, base, n)
  BY <1>1, <1>2, <1>5, CopyFills
<1>9. write_pos = end % Cap
  <2>1. (base + n) % Cap = IF pos + n < Cap THEN pos + n ELSE pos + n - Cap
    <3>1. n \in 0..Cap
      BY <1>2
    <3> HIDE DEF base, n
    <3> QED BY <1>2, <3>1, Wrap
  <2>2. CASE fits
    <3>1. (pos + n) % Cap = (base + n) % Cap
      BY <1>2, ModAdd
    <3> QED BY <1>2, <1>6, <2>2, <3>1 DEF NextPos
  <2>3. CASE ~fits
    BY <1>2, <1>5, <1>6, <2>1, <2>3 DEF Cells
  <2> QED BY <2>2, <2>3
<1>10. end \in 0..MaxTotal /\ end % Cap \in Cells
  <2>1. end \in 0..MaxTotal /\ end \in Nat
    BY <1>1
  <2> HIDE DEF end
  <2> QED BY <2>1, DivMod DEF Cells
<1>11. Filled(s.buf, pos, base, n) \in [Cells -> 0..MaxTotal]
  <2>1. end \in 0..MaxTotal
    BY <1>10
  <2> HIDE DEF base, end, n, pos
  <2>2. ASSUME NEW i \in Cells
        PROVE  /\ i >= pos /\ i < pos + n => base + (i - pos) + 1 \in 0..MaxTotal
               /\ i + Cap < pos + n => base + (i + Cap - pos) + 1 \in 0..MaxTotal
               /\ s.buf[i] \in 0..MaxTotal
    BY <1>1, <1>2, <1>5, <2>1 DEF Cells
  <2> QED BY <2>2 DEF Filled
<1> HIDE DEF total, base, end, n, pos, data, space, fits, buf, write_pos
<1>12. /\ Written(s, len).buf = buf /\ Written(s, len).write_pos = write_pos
       /\ Written(s, len).total_written = end /\ Written(s, len).closed = s.closed
       /\ Written(s, len) \in InnerRecords
  BY <1>1, <1>7, <1>8, <1>9, <1>10, <1>11 DEF InnerRecords
<1> QED BY <1>8, <1>9, <1>12 DEF total, base, end, n, pos

\* The tail is where the cells of the positions say it is.
HoldsTail(s) ==
  /\ s.write_pos = s.total_written % Cap
  /\ \A p \in 1..s.total_written :
       p + Cap > s.total_written => s.buf[(p - 1) % Cap] = p

LEMMA WrittenTail ==
  ASSUME NEW s \in InnerRecords, HoldsTail(s),
         NEW len \in Nat \ {0}, s.total_written + len <= MaxTotal
  PROVE  HoldsTail(Written(s, len))
<1> USE RingAssumptions
<1> DEFINE total == s.total_written
           base == total + Skipped(len)
           n == Copied(len)
           pos == base % Cap
           buf == Filled(s.buf, pos, base, n)
<1>1. /\ Written(s, len).total_written = total + len
      /\ Written(s, len).write_pos = (total + len) % Cap
      /\ Written(s, len).buf = buf
  BY WrittenEffect DEF HoldsTail
<1>2. total \in Nat /\ base \in Nat /\ n \in 1..Cap /\ base + n = total + len
  BY DEF InnerRecords, Skipped, Copied
<1>3. pos \in Cells
  BY <1>2, DivMod DEF Cells
<1>4. ASSUME NEW p \in 1..(total + len), p + Cap > total + len
      PROVE  buf[(p - 1) % Cap] = p
  <2> DEFINE i == (p - 1) % Cap
  <2>1. p - 1 \in Nat
    OBVIOUS
  <2>2. i \in Cells
    BY <2>1, DivMod DEF Cells
  <2>3. CASE p > base
    <3> DEFINE j == p - 1 - base
    <3>1. j \in 0..Cap /\ j < n /\ p - 1 = base + j
      BY <1>2, <2>3
    <3>2. i = IF pos + j < Cap THEN pos + j ELSE pos + j - Cap
      <4> HIDE DEF j, base
      <4> QED BY <1>2, <3>1, Wrap
    <3> HIDE DEF i, pos, base, total, n
    <3>3. buf[i] = IF i >= pos /\ i < pos + n THEN base + (i - pos) + 1
                   ELSE IF i + Cap < pos + n THEN base + (i + Cap - pos) + 1
                   ELSE s.buf[i]
      BY <2>2 DEF Filled
    <3>4. IF i >= pos /\ i < pos + n THEN base + (i - pos) + 1 = p
          ELSE i + Cap < pos + n /\ base + (i + Cap - pos) + 1 = p
      BY <1>2, <1>3, <2>2, <3>1, <3>2 DEF Cells
    <3>5. buf[i] = p
      BY <3>3, <3>4
    <3> QED BY <3>5 DEF i
  <2>4. CASE ~(p > base)
    <3>1. base = total /\ n = len /\ p \in 1..total /\ p + Cap > total
      BY <1>2, <1>4, <2>4 DEF Skipped, Copied
    <3>2. s.buf[i] = p
      BY <3>1 DEF HoldsTail
    <3> DEFINE d == total - (p - 1)
    <3>3. d \in 0..Cap /\ d >= 1 /\ d + n <= Cap /\ base = (p - 1) + d
      BY <1>2, <1>4, <3>1
    <3>4. pos = IF i + d < Cap THEN i + d ELSE i + d - Cap
      BY <2>1, <3>3, Wrap
    <3> HIDE DEF i, pos, base, total, n, d
    <3>5. ~(i >= pos /\ i < pos + n) /\ ~(i + Cap < pos + n)
      BY <1>2, <1>3, <2>2, <3>3, <3>4 DEF Cells
    <3>6. buf[i] = p
      BY <2>2, <3>2, <3>5 DEF Filled
    <3> QED BY <3>6 DEF i
  <2> QED BY <2>3, <2>4
<1> HIDE DEF total, base, n, pos, buf
<1> QED BY <1>1, <1>4 DEF HoldsTail

---------------------------------------------------------------------------
(* What a read delivers. *)

LEMMA SliceSeq ==
  ASSUME NEW buf \in [Cells -> 0..MaxTotal], NEW from \in 0..Cap, NEW to \in from..Cap
  PROVE  /\ Slice(buf, from, to) \in Seq(0..MaxTotal)
         /\ Len(Slice(buf, from, to)) = to - from
         /\ \A i \in 1..(to - from) : Slice(buf, from, to)[i] = buf[from + i - 1]
<1> USE RingAssumptions
<1> DEFINE n == to - from
<1>1. n \in Nat
  OBVIOUS
<1>2. \A i \in 1..n : buf[from + i - 1] \in 0..MaxTotal
  BY DEF Cells
<1>3. Slice(buf, from, to) = [i \in 1..n |-> buf[from + i - 1]]
  BY DEF Slice
<1> HIDE DEF n
<1>4. Slice(buf, from, to) \in [1..n -> 0..MaxTotal]
  BY <1>2, <1>3
<1>5. Slice(buf, from, to) \in Seq(0..MaxTotal) /\ Len(Slice(buf, from, to)) = n
  BY <1>1, <1>4
<1> QED BY <1>3, <1>5 DEF n

LEMMA SameSeq ==
  ASSUME NEW S, NEW T, NEW s \in Seq(S), NEW t \in Seq(T), NEW n,
         Len(s) = n, Len(t) = n, \A i \in 1..n : s[i] = t[i]
  PROVE  s = t
<1>1. s \in [1..n -> S] /\ t \in [1..n -> T]
  BY LenProperties
<1> QED BY <1>1

\* The last n bytes begin in the cell of the first of them.
LEMMA ChunkStartIs ==
  ASSUME NEW s \in InnerRecords, s.write_pos = s.total_written % Cap,
         NEW from \in Nat, NEW n \in 1..Cap, s.total_written = from + n
  PROVE  ChunkStart(s, n) = from % Cap
<1> USE RingAssumptions
<1> DEFINE r == from % Cap  w == s.write_pos
<1>1. r \in 0..(Cap - 1)
  BY DivMod
<1>2. w = IF r + n < Cap THEN r + n ELSE r + n - Cap
  <2>1. n \in 0..Cap
    OBVIOUS
  <2> QED BY <2>1, Wrap
<1> HIDE DEF r, w
<1>3. r % Cap = r
  BY <1>1, ModSmall
<1>4. (r + Cap) % Cap = r
  <2>1. r \in Nat /\ Cap \in 0..Cap
    BY <1>1
  <2>2. (r + Cap) % Cap = IF (r % Cap) + Cap < Cap THEN (r % Cap) + Cap ELSE (r % Cap) + Cap - Cap
    BY <2>1, Wrap
  <2> QED BY <1>1, <1>3, <2>2
<1>5. CASE n < Cap
  <2>1. n % Cap = n
    BY <1>5, ModSmall
  <2>2. w + Cap - n = r + Cap \/ w + Cap - n = r
    BY <1>1, <1>2
  <2>3. (w + Cap - n) % Cap = r
    BY <1>3, <1>4, <2>2
  <2> QED BY <2>1, <2>3 DEF ChunkStart, w, r
<1>6. CASE n = Cap
  <2>1. 0 % Cap = 0
    <3>1. 0 \in 0..(Cap - 1)
      OBVIOUS
    <3> QED BY <3>1, ModSmall
  <2>2. Cap % Cap = 0
    <3>1. 0 \in Nat /\ Cap \in 0..Cap /\ 0 + Cap = Cap
      OBVIOUS
    <3>2. (0 + Cap) % Cap = IF (0 % Cap) + Cap < Cap THEN (0 % Cap) + Cap ELSE (0 % Cap) + Cap - Cap
      BY <3>1, Wrap
    <3> QED BY <2>1, <3>1, <3>2
  <2>3. w + Cap - 0 = r + Cap
    BY <1>1, <1>2, <1>6
  <2>4. (w + Cap - (n % Cap)) % Cap = r
    BY <1>4, <1>6, <2>2, <2>3
  <2> QED BY <2>4 DEF ChunkStart, w, r
<1> QED BY <1>5, <1>6

LEMMA ChunkIsTail ==
  ASSUME NEW s \in InnerRecords, HoldsTail(s),
         NEW read_pos \in Nat, read_pos < s.total_written
  PROVE  Chunk(s, read_pos) = Bytes(Oldest(s, read_pos), s.total_written)
<1> USE RingAssumptions
<1> DEFINE total == s.total_written
           from == Oldest(s, read_pos)
           n == total - from
           start == ChunkStart(s, n)
<1>1. total \in 0..MaxTotal /\ s.buf \in [Cells -> 0..MaxTotal]
  BY DEF InnerRecords
<1>2. from \in Nat /\ n \in 1..Cap /\ total = from + n
  BY <1>1 DEF Oldest
<1> HIDE DEF from, n
<1>3. start = from % Cap
  BY <1>2, ChunkStartIs DEF HoldsTail
<1>4. start \in Cells
  BY <1>2, <1>3, DivMod DEF Cells
<1> HIDE DEF start
<1>5. ASSUME NEW i \in 1..n
      PROVE  s.buf[IF start + i - 1 < Cap THEN start + i - 1 ELSE start + i - 1 - Cap] = from + i
  <2> DEFINE j == i - 1
  <2>1. j \in 0..Cap /\ from + j = (from + i) - 1 /\ start + j = start + i - 1
    BY <1>2, <1>4 DEF Cells
  <2>2. (from + j) % Cap = IF start + j < Cap THEN start + j ELSE start + j - Cap
    <3> HIDE DEF j
    <3> QED BY <1>2, <1>3, <2>1, Wrap
  <2>3. from + i \in 1..total /\ (from + i) + Cap > total
    BY <1>2
  <2>4. s.buf[((from + i) - 1) % Cap] = from + i
    BY <2>3 DEF HoldsTail
  <2> QED BY <2>1, <2>2, <2>4
<1>6. /\ Bytes(from, total) \in Seq(Nat) /\ Len(Bytes(from, total)) = n
      /\ \A i \in 1..n : Bytes(from, total)[i] = from + i
  <2>1. total \in Nat /\ from <= total /\ total - from = n
    BY <1>1, <1>2
  <2> HIDE DEF total
  <2> QED BY <1>2, <2>1, BytesSeq
<1>7. Chunk(s, read_pos) =
        IF start + n <= Cap THEN Slice(s.buf, start, start + n)
        ELSE Slice(s.buf, start, Cap) \o Slice(s.buf, 0, n - (Cap - start))
  BY DEF Chunk, from, n, start
<1>8. CASE start + n <= Cap
  <2> DEFINE one == Slice(s.buf, start, start + n)
  <2>1. start \in 0..Cap /\ start + n \in start..Cap /\ (start + n) - start = n
    BY <1>2, <1>4, <1>8 DEF Cells
  <2>2. /\ one \in Seq(0..MaxTotal) /\ Len(one) = n
        /\ \A i \in 1..n : one[i] = s.buf[start + i - 1]
    <3> DEFINE to == start + n
               buf == s.buf
    <3>1. start \in 0..Cap /\ to \in start..Cap /\ to - start = n /\ buf \in [Cells -> 0..MaxTotal]
      BY <1>1, <2>1
    <3> HIDE DEF to, buf
    <3>2. /\ Slice(buf, start, to) \in Seq(0..MaxTotal)
          /\ Len(Slice(buf, start, to)) = to - start
          /\ \A i \in 1..(to - start) : Slice(buf, start, to)[i] = buf[start + i - 1]
      BY <3>1, SliceSeq
    <3>3. /\ Slice(buf, start, to) \in Seq(0..MaxTotal)
          /\ Len(Slice(buf, start, to)) = n
          /\ \A i \in 1..n : Slice(buf, start, to)[i] = buf[start + i - 1]
      BY <3>1, <3>2
    <3> QED BY <3>3 DEF to, buf
  <2> HIDE DEF one
  <2>3. ASSUME NEW i \in 1..n PROVE one[i] = Bytes(from, total)[i]
    <3>1. start + i - 1 < Cap
      BY <1>2, <1>4, <1>8 DEF Cells
    <3> QED BY <1>5, <1>6, <2>2, <3>1
  <2>4. one = Bytes(from, total)
    BY <1>6, <2>2, <2>3, SameSeq
  <2> QED BY <1>7, <1>8, <2>4 DEF one, from
<1>9. CASE ~(start + n <= Cap)
  <2> DEFINE a == Cap - start
             one == Slice(s.buf, start, Cap)
             two == Slice(s.buf, 0, n - a)
  <2>1. a \in 1..Cap /\ n - a \in 0..Cap /\ start \in 0..Cap /\ n - a >= 0
    BY <1>2, <1>4, <1>9 DEF Cells
  <2>2. /\ one \in Seq(0..MaxTotal) /\ Len(one) = a
        /\ \A i \in 1..a : one[i] = s.buf[start + i - 1]
    <3>1. Cap \in start..Cap
      BY <2>1
    <3> QED BY <1>1, <2>1, <3>1, SliceSeq
  <2>3. /\ two \in Seq(0..MaxTotal) /\ Len(two) = n - a
        /\ \A i \in 1..(n - a) : two[i] = s.buf[0 + i - 1]
    <3> DEFINE b == n - a
               buf == s.buf
    <3>1. b \in 0..Cap /\ 0 \in 0..Cap /\ b - 0 = b /\ buf \in [Cells -> 0..MaxTotal]
      BY <1>1, <2>1
    <3> HIDE DEF b, buf
    <3>2. /\ Slice(buf, 0, b) \in Seq(0..MaxTotal)
          /\ Len(Slice(buf, 0, b)) = b - 0
          /\ \A i \in 1..(b - 0) : Slice(buf, 0, b)[i] = buf[0 + i - 1]
      BY <3>1, SliceSeq
    <3>3. /\ Slice(buf, 0, b) \in Seq(0..MaxTotal)
          /\ Len(Slice(buf, 0, b)) = b
          /\ \A i \in 1..b : Slice(buf, 0, b)[i] = buf[0 + i - 1]
      BY <3>1, <3>2
    <3> QED BY <3>3 DEF b, buf
  <2> HIDE DEF one, two
  <2>4. /\ one \o two \in Seq(0..MaxTotal)
        /\ Len(one \o two) = n
        /\ \A i \in 1..n : (one \o two)[i] = IF i <= a THEN one[i] ELSE two[i - a]
    <3>1. Len(one) + Len(two) = n
      BY <1>2, <2>1, <2>2, <2>3
    <3>2. /\ one \o two \in Seq(0..MaxTotal)
          /\ Len(one \o two) = Len(one) + Len(two)
          /\ \A i \in 1..(Len(one) + Len(two)) :
               (one \o two)[i] = IF i <= Len(one) THEN one[i] ELSE two[i - Len(one)]
      BY <2>2, <2>3, ConcatProperties
    <3> HIDE DEF a
    <3> QED BY <2>2, <3>1, <3>2
  <2>5. ASSUME NEW i \in 1..n PROVE (one \o two)[i] = Bytes(from, total)[i]
    <3>1. CASE i <= a
      <4>1. i \in 1..a /\ start + i - 1 < Cap
        BY <1>2, <1>4, <2>1, <3>1 DEF Cells
      <4>2. (one \o two)[i] = s.buf[start + i - 1]
        BY <2>2, <2>4, <3>1, <4>1
      <4> QED BY <1>5, <1>6, <4>1, <4>2
    <3>2. CASE ~(i <= a)
      <4>1. i - a \in 1..(n - a) /\ 0 + (i - a) - 1 = start + i - 1 - Cap /\ ~(start + i - 1 < Cap)
        BY <1>2, <1>4, <2>1, <3>2 DEF Cells
      <4>2. two[i - a] = s.buf[start + i - 1 - Cap]
        BY <2>3, <4>1
      <4> QED BY <1>5, <1>6, <2>4, <3>2, <4>1, <4>2
    <3> QED BY <3>1, <3>2
  <2>6. one \o two = Bytes(from, total)
    <3> DEFINE both == one \o two
    <3>1. /\ both \in Seq(0..MaxTotal) /\ Len(both) = n
          /\ \A i \in 1..n : both[i] = Bytes(from, total)[i]
      BY <2>4, <2>5
    <3> HIDE DEF both
    <3>2. both = Bytes(from, total)
      BY <1>6, <3>1, SameSeq
    <3> QED BY <3>2 DEF both
  <2> QED BY <1>7, <1>9, <2>6 DEF one, two, from
<1> QED BY <1>8, <1>9

---------------------------------------------------------------------------
(* The invariant. *)

ReaderRecords ==
  [pc : {"absent", "reading", "waiting", "done"}, read_pos : 0..MaxTotal,
   unseen : BOOLEAN, chunk : Seq(0..MaxTotal)]

TypeInv ==
  /\ inner \in InnerRecords
  /\ sent \in BOOLEAN /\ senders \in BOOLEAN
  /\ writer \in {"idle", "notify"} /\ closer \in {"idle", "notify", "done"}
  /\ reader \in [Readers -> ReaderRecords]

\* The last SerialBuf is not dropped between an unlock and its send.
SendersLast == writer = "notify" \/ closer = "notify" => senders

\* No reader is ahead of the writer.
NotAhead == \A r \in Readers : reader[r].read_pos <= inner.total_written

\* No wake-up is lost: a reader that waits although there is something to read,
\* or although the buffer is closed, has a notification that it has not seen, or
\* one that is about to be sent (serial_buf.rs, read_chunk and its notify_rx).
NoLostWakeup ==
  \A r \in Readers : reader[r].pc = "waiting" =>
    /\ reader[r].read_pos < inner.total_written => reader[r].unseen \/ writer = "notify"
    /\ inner.closed => reader[r].unseen \/ closer = "notify"

\* A reader that has come to its end has read the output to its end, and there
\* will be no more of it (serial_buf.rs:219-220).
DrainedAtEnd ==
  \A r \in Readers : reader[r].pc = "done" =>
    /\ reader[r].read_pos = inner.total_written
    /\ inner.closed \/ ~senders

Inv == TypeInv /\ RingHoldsTail /\ SendersLast /\ NotAhead /\ NoLostWakeup /\ DrainedAtEnd

LEMMA TailIsRing == RingHoldsTail <=> HoldsTail(inner)
  BY DEF RingHoldsTail, HoldsTail

LEMMA InitInv == Init => Inv
<1> USE RingAssumptions
<1> SUFFICES ASSUME Init PROVE Inv
  OBVIOUS
<1>1. 0 % Cap = 0
  <2>1. 0 \in 0..(Cap - 1)
    OBVIOUS
  <2> QED BY <2>1, ModSmall
<1>2. inner \in InnerRecords /\ inner.total_written = 0 /\ inner.write_pos = 0
  BY DEF Init, InnerRecords, Cells
<1>3. RingHoldsTail
  BY <1>1, <1>2 DEF RingHoldsTail
<1>4. Absent \in ReaderRecords /\ Absent.pc = "absent" /\ Absent.read_pos = 0
  BY DEF Absent, ReaderRecords
<1>5. reader \in [Readers -> ReaderRecords] /\ \A r \in Readers : reader[r] = Absent
  BY <1>4 DEF Init
<1>6. \A r \in Readers : reader[r].pc = "absent" /\ reader[r].read_pos = 0
  BY <1>4, <1>5
<1>7. TypeInv
  BY <1>2, <1>5 DEF Init, TypeInv
<1>8. SendersLast
  BY DEF Init, SendersLast
<1>9. NotAhead /\ NoLostWakeup /\ DrainedAtEnd
  BY <1>2, <1>6 DEF NotAhead, NoLostWakeup, DrainedAtEnd
<1> QED BY <1>3, <1>7, <1>8, <1>9 DEF Inv

\* What the invariant says of one reader.
ReaderOK(new) ==
  /\ new.read_pos <= inner.total_written
  /\ new.pc = "waiting" =>
       /\ new.read_pos < inner.total_written => new.unseen \/ writer = "notify"
       /\ inner.closed => new.unseen \/ closer = "notify"
  /\ new.pc = "done" =>
       new.read_pos = inner.total_written /\ (inner.closed \/ ~senders)

\* A step of one reader.
LEMMA ReaderStep ==
  ASSUME Inv, NEW r \in Readers, NEW new \in ReaderRecords,
         reader' = [reader EXCEPT ![r] = new],
         UNCHANGED <<inner, sent, writer, closer, senders>>,
         ReaderOK(new)
  PROVE  Inv'
<1>1. /\ reader' \in [Readers -> ReaderRecords] /\ reader'[r] = new
      /\ \A q \in Readers : q # r => reader'[q] = reader[q]
  BY DEF Inv, TypeInv
<1> QED BY <1>1 DEF ReaderOK, Inv, TypeInv, RingHoldsTail, SendersLast, NotAhead, NoLostWakeup,
                    DrainedAtEnd

LEMMA SendEffect ==
  ASSUME TypeInv, Send
  PROVE  /\ reader' \in [Readers -> ReaderRecords]
         /\ \A r \in Readers :
              /\ reader'[r].pc = reader[r].pc /\ reader'[r].read_pos = reader[r].read_pos
              /\ reader'[r].unseen = (reader[r].pc # "absent")
  BY DEF Send, TypeInv, ReaderRecords

LEMMA StepInv == ASSUME Inv, [Next]_vars PROVE Inv'
<1> USE RingAssumptions
<1>1. ASSUME NEW len \in 1..MaxLen, Write(len) PROVE Inv'
  <2>1. len \in Nat \ {0} /\ inner.total_written + len <= MaxTotal /\ inner' = Written(inner, len)
    BY <1>1 DEF Write
  <2>2. HoldsTail(inner) /\ inner \in InnerRecords
    BY TailIsRing DEF Inv, TypeInv
  <2>3. /\ inner' \in InnerRecords
        /\ inner'.total_written = inner.total_written + len /\ inner'.closed = inner.closed
    BY <2>1, <2>2, WrittenEffect DEF HoldsTail
  <2>4. HoldsTail(inner')
    BY <2>1, <2>2, WrittenTail
  <2>5. RingHoldsTail'
    BY <2>4 DEF RingHoldsTail, HoldsTail
  <2>6. inner.total_written \in Nat /\ \A r \in Readers : reader[r].read_pos \in Nat
    BY DEF Inv, TypeInv, InnerRecords, ReaderRecords
  <2>7. NotAhead'
    BY <1>1, <2>1, <2>3, <2>6 DEF Write, Inv, NotAhead
  <2> QED BY <1>1, <2>3, <2>5, <2>7
          DEF Write, Inv, TypeInv, SendersLast, NoLostWakeup, DrainedAtEnd
<1>2. CASE WriteNotifies
  <2>1. Send
    BY <1>2 DEF WriteNotifies
  <2>2. /\ reader' \in [Readers -> ReaderRecords]
        /\ \A r \in Readers :
             /\ reader'[r].pc = reader[r].pc /\ reader'[r].read_pos = reader[r].read_pos
             /\ reader'[r].unseen = (reader[r].pc # "absent")
    BY <2>1, SendEffect DEF Inv
  <2> QED BY <1>2, <2>2 DEF WriteNotifies, Send, Inv, TypeInv, RingHoldsTail, SendersLast, NotAhead,
                            NoLostWakeup, DrainedAtEnd
<1>3. CASE Close
  <2>1. /\ inner' \in InnerRecords /\ inner'.buf = inner.buf /\ inner'.write_pos = inner.write_pos
        /\ inner'.total_written = inner.total_written /\ inner'.closed
    BY <1>3 DEF Close, Inv, TypeInv, InnerRecords
  <2> QED BY <1>3, <2>1 DEF Close, Inv, TypeInv, RingHoldsTail, SendersLast, NotAhead,
                            NoLostWakeup, DrainedAtEnd
<1>4. CASE CloseNotifies
  <2>1. Send
    BY <1>4 DEF CloseNotifies
  <2>2. /\ reader' \in [Readers -> ReaderRecords]
        /\ \A r \in Readers :
             /\ reader'[r].pc = reader[r].pc /\ reader'[r].read_pos = reader[r].read_pos
             /\ reader'[r].unseen = (reader[r].pc # "absent")
    BY <2>1, SendEffect DEF Inv
  <2> QED BY <1>4, <2>2 DEF CloseNotifies, Send, Inv, TypeInv, RingHoldsTail, SendersLast, NotAhead,
                            NoLostWakeup, DrainedAtEnd
<1>5. CASE DropSenders
  BY <1>5 DEF DropSenders, Inv, TypeInv, RingHoldsTail, SendersLast, NotAhead,
              NoLostWakeup, DrainedAtEnd
<1>6. ASSUME NEW r \in Readers, NewReader(r) PROVE Inv'
  <2> DEFINE new == [pc |-> "reading", read_pos |-> inner.total_written,
                     unseen |-> sent, chunk |-> <<>>]
  <2>1. new \in ReaderRecords /\ new.pc = "reading" /\ new.read_pos = inner.total_written
    BY DEF ReaderRecords, Inv, TypeInv, InnerRecords
  <2>2. reader' = [reader EXCEPT ![r] = new] /\ UNCHANGED <<inner, sent, writer, closer, senders>>
    BY <1>6 DEF NewReader
  <2>3. inner.total_written \in Nat
    BY DEF Inv, TypeInv, InnerRecords
  <2> HIDE DEF new
  <2>4. ReaderOK(new)
    BY <2>1, <2>3 DEF ReaderOK
  <2> QED BY <2>1, <2>2, <2>4, ReaderStep
<1>7. ASSUME NEW r \in Readers, ReadChunk(r) PROVE Inv'
  <2> DEFINE pos == reader[r].read_pos
             total == inner.total_written
  <2>1. /\ reader[r] \in ReaderRecords /\ pos \in 0..MaxTotal /\ total \in 0..MaxTotal
        /\ inner \in InnerRecords /\ pos <= total
    BY DEF Inv, TypeInv, ReaderRecords, InnerRecords, NotAhead
  <2>2. UNCHANGED <<inner, sent, writer, closer, senders>> /\ reader[r].pc = "reading"
    BY <1>7 DEF ReadChunk
  <2>3. CASE HasData(inner, pos)
    <3> DEFINE new == [reader[r] EXCEPT !.read_pos = total, !.chunk = Chunk(inner, pos)]
    <3>1. reader' = [reader EXCEPT ![r] = new]
      BY <1>7, <2>3 DEF ReadChunk
    <3>2. Chunk(inner, pos) \in Seq(0..MaxTotal)
      <4>1. Chunk(inner, pos) = Bytes(Oldest(inner, pos), total)
        BY <2>1, <2>3, ChunkIsTail, TailIsRing DEF HasData, Inv
      <4> DEFINE from == Oldest(inner, pos)
                 n == total - from
      <4>2. from \in Nat /\ n \in Nat /\ total = from + n
        BY <2>1 DEF Oldest
      <4> HIDE DEF from
      <4>3. \A i \in 1..n : from + i \in 0..MaxTotal
        BY <2>1, <4>2
      <4>4. Bytes(from, total) = [i \in 1..n |-> from + i]
        BY DEF Bytes
      <4> HIDE DEF n
      <4>5. Bytes(from, total) \in [1..n -> 0..MaxTotal]
        BY <4>3, <4>4
      <4>6. Bytes(from, total) \in Seq(0..MaxTotal)
        BY <4>2, <4>5
      <4> QED BY <4>1, <4>6 DEF from
    <3>3. new \in ReaderRecords /\ new.pc = "reading" /\ new.read_pos = total
      BY <2>1, <2>2, <3>2 DEF ReaderRecords
    <3> HIDE DEF new
    <3>4. ReaderOK(new)
      BY <2>1, <3>3 DEF ReaderOK
    <3> QED BY <2>2, <3>1, <3>3, <3>4, ReaderStep
  <2>4. CASE ~HasData(inner, pos)
    <3> DEFINE to == IF inner.closed THEN "done" ELSE "waiting"
               new == [reader[r] EXCEPT !.pc = to]
    <3>1. reader' = [reader EXCEPT ![r] = new]
      BY <1>7, <2>4 DEF ReadChunk
    <3>2. to \in {"done", "waiting"} /\ (to = "done" <=> inner.closed)
      OBVIOUS
    <3> HIDE DEF to
    <3>3. new \in ReaderRecords /\ new.pc = to /\ new.read_pos = pos
      BY <2>1, <3>2 DEF ReaderRecords
    <3>4. pos = total
      BY <2>1, <2>4 DEF HasData
    <3> HIDE DEF new
    <3>5. ReaderOK(new)
      BY <2>1, <3>2, <3>3, <3>4 DEF ReaderOK
    <3> QED BY <2>2, <3>1, <3>3, <3>5, ReaderStep
  <2> QED BY <2>3, <2>4
<1>8. ASSUME NEW r \in Readers, Changed(r) PROVE Inv'
  <2> DEFINE to == IF reader[r].unseen THEN "reading" ELSE "done"
             new == [reader[r] EXCEPT !.pc = to, !.unseen = FALSE]
  <2>1. /\ reader[r] \in ReaderRecords /\ reader[r].pc = "waiting"
        /\ reader[r].read_pos \in Nat /\ inner.total_written \in Nat
        /\ reader[r].read_pos <= inner.total_written
    BY <1>8 DEF Changed, Inv, TypeInv, ReaderRecords, InnerRecords, NotAhead
  <2>2. reader' = [reader EXCEPT ![r] = new]
    BY <1>8 DEF Changed, Inv, TypeInv
  <2>3. to \in {"done", "reading"} /\ (to = "reading" <=> reader[r].unseen)
    BY <2>1 DEF ReaderRecords
  <2> HIDE DEF to
  <2>4. new \in ReaderRecords /\ new.pc = to /\ new.read_pos = reader[r].read_pos
    BY <2>1, <2>3 DEF ReaderRecords
  <2> HIDE DEF new
  <2>5. to = "done" => ~senders /\ reader[r].read_pos = inner.total_written
    <3> SUFFICES ASSUME to = "done" PROVE ~senders /\ reader[r].read_pos = inner.total_written
      OBVIOUS
    <3>1. ~reader[r].unseen /\ ~senders
      BY <1>8, <2>3 DEF Changed
    <3>2. writer # "notify"
      BY <3>1 DEF Inv, SendersLast
    <3> QED BY <2>1, <3>1, <3>2 DEF Inv, NoLostWakeup
  <2>6. UNCHANGED <<inner, sent, writer, closer, senders>>
    BY <1>8 DEF Changed
  <2>7. ReaderOK(new)
    BY <2>1, <2>3, <2>4, <2>5 DEF ReaderOK
  <2> QED BY <2>2, <2>4, <2>6, <2>7, ReaderStep
<1>9. CASE UNCHANGED vars
  BY <1>9 DEF vars, Inv, TypeInv, RingHoldsTail, SendersLast, NotAhead, NoLostWakeup, DrainedAtEnd
<1> QED BY <1>1, <1>2, <1>3, <1>4, <1>5, <1>6, <1>7, <1>8, <1>9 DEF Next

\* A read takes the unread tail.
LEMMA ReadStep ==
  ASSUME Inv, [Next]_vars, NEW r \in Readers,
         reader[r].pc = "reading", reader'[r].read_pos # reader[r].read_pos
  PROVE  /\ reader'[r].read_pos = inner.total_written
         /\ reader'[r].chunk = Bytes(Oldest(inner, reader[r].read_pos), inner.total_written)
<1>1. /\ reader \in [Readers -> ReaderRecords] /\ inner \in InnerRecords /\ HoldsTail(inner)
      /\ reader[r].read_pos \in Nat
  BY TailIsRing DEF Inv, TypeInv, ReaderRecords
<1>2. ~WriteNotifies /\ ~CloseNotifies
  BY SendEffect DEF Inv, WriteNotifies, CloseNotifies
<1>3. \A q \in Readers : ~NewReader(q) /\ ~Changed(q)
  <2> SUFFICES ASSUME NEW q \in Readers, NewReader(q) \/ Changed(q) PROVE FALSE
    OBVIOUS
  <2>1. CASE q = r
    BY <2>1 DEF NewReader, Changed
  <2>2. CASE q # r
    BY <1>1, <2>2 DEF NewReader, Changed
  <2> QED BY <2>1, <2>2
<1>4. \A q \in Readers : ReadChunk(q) => q = r
  BY <1>1 DEF ReadChunk
<1>5. ReadChunk(r)
  BY <1>2, <1>3, <1>4 DEF Next, vars, Write, Close, DropSenders
<1>6. CASE HasData(inner, reader[r].read_pos)
  <2>1. reader' = [reader EXCEPT ![r] =
          [reader[r] EXCEPT !.read_pos = inner.total_written,
                            !.chunk = Chunk(inner, reader[r].read_pos)]]
    BY <1>5, <1>6 DEF ReadChunk
  <2>2. /\ reader'[r].read_pos = inner.total_written
        /\ reader'[r].chunk = Chunk(inner, reader[r].read_pos)
    BY <1>1, <2>1 DEF ReaderRecords
  <2>3. Chunk(inner, reader[r].read_pos) = Bytes(Oldest(inner, reader[r].read_pos), inner.total_written)
    BY <1>1, <1>6, ChunkIsTail DEF HasData
  <2> QED BY <2>2, <2>3
<1>7. CASE ~HasData(inner, reader[r].read_pos)
  <2>1. reader' = [reader EXCEPT ![r] =
          [reader[r] EXCEPT !.pc = IF inner.closed THEN "done" ELSE "waiting"]]
    BY <1>5, <1>7 DEF ReadChunk
  <2>2. reader'[r].read_pos = reader[r].read_pos
    BY <1>1, <2>1 DEF ReaderRecords
  <2> QED BY <2>2
<1> QED BY <1>6, <1>7

\* The inductive invariant.
THEOREM Invariance == Spec => []Inv
  BY InitInv, StepInv, PTL DEF Spec

\* Whatever the capacity and the lengths of the writes, the ring holds the last
\* Cap bytes, each in its cell (serial_buf.rs, write).
THEOREM RingHoldsTailHolds == Spec => []RingHoldsTail
<1>1. Inv => RingHoldsTail
  BY DEF Inv
<1> QED BY <1>1, Invariance, PTL

\* No reader sleeps through a write or the close, and one that ends has missed
\* nothing: the safety part of Delivered and CloseEndsReaders (serial_buf.rs,
\* read_chunk).
THEOREM WakeupsHold == Spec => [](NoLostWakeup /\ DrainedAtEnd)
<1>1. Inv => NoLostWakeup /\ DrainedAtEnd
  BY DEF Inv
<1> QED BY <1>1, Invariance, PTL

\* Every read delivers exactly the unread bytes, or the last Cap of them
\* (serial_buf.rs, read_chunk).
THEOREM ReadsTheTailHolds == Spec => ReadsTheTail
<1>1. ASSUME Inv, [Next]_vars
      PROVE  [\A r \in Readers :
                reader[r].pc = "reading" /\ reader'[r].read_pos # reader[r].read_pos =>
                  LET end  == reader'[r].read_pos
                      from == IF end - reader[r].read_pos > Cap THEN end - Cap ELSE reader[r].read_pos
                  IN  end = inner.total_written /\ reader'[r].chunk = Bytes(from, end)]_vars
  BY <1>1, ReadStep DEF Oldest
<1> QED BY <1>1, Invariance, PTL DEF Spec, ReadsTheTail
=============================================================================
