------------------------- MODULE VirtioDeviceProofs -------------------------
(***************************************************************************)
(* Proofs about VirtioDevice, for every kind of device, every depth of its *)
(* queues that divides the range of the ring indices, every range, and     *)
(* every traffic: the rings agree with what the driver has in flight.       *)
(*                                                                         *)
(* The ring indices wrap, so the state says only where each party stands   *)
(* modulo IdxMod.  The inductive invariant speaks of the numbers behind    *)
(* them: how many chains of a queue have been made available, taken and    *)
(* seen since the last reset, and at which descriptor each of them begins  *)
(* when the table is thought of as unrolled.                               *)
(***************************************************************************)
EXTENDS VirtioDevice, Integers, WellFoundedInduction, FiniteSetTheorems, FunctionTheorems,
        SequenceTheorems, TLAPS

-----------------------------------------------------------------------------
(* Remainders. *)

LEMMA NatSucc == \A z \in Nat : z + 1 \in Nat
OBVIOUS

\* Quotient and remainder are unique.
LEMMA DivUnique ==
  ASSUME NEW c \in Nat \ {0}, NEW k \in Int, NEW l \in Int,
         NEW r \in 0..(c - 1), NEW s \in 0..(c - 1),
         c * k + r = c * l + s
  PROVE  k = l /\ r = s
<1>1. ASSUME NEW x \in Int, NEW y \in Int, x < y PROVE c * x + c <= c * y
  <2>1. c * (y - x - 1) >= 0
    BY <1>1
  <2>2. c * (y - x - 1) = c * y - c * x - c
    OBVIOUS
  <2> QED BY <2>1, <2>2
<1>2. ~(k < l)
  BY <1>1
<1>3. ~(l < k)
  BY <1>1
<1> QED BY <1>2, <1>3

\* They are what \div and % compute.
LEMMA DivMod ==
  ASSUME NEW c \in Nat \ {0}, NEW a \in Nat
  PROVE  a % c \in 0..(c - 1) /\ a \div c \in Nat /\ a = c * (a \div c) + (a % c)
<1>1. a % c \in 0..(c - 1)
  OBVIOUS
<1>2. a \div c \in Int
  OBVIOUS
<1>3. a = c * (a \div c) + (a % c)
  OBVIOUS
<1>4. a \div c >= 0
  BY <1>1, <1>2, <1>3
<1> QED BY <1>1, <1>2, <1>3, <1>4

\* The remainder of a sum.
LEMMA ModAdd ==
  ASSUME NEW c \in Nat \ {0}, NEW a \in Nat, NEW d \in Nat
  PROVE  ((a % c) + d) % c = (a + d) % c
<1> DEFINE r == a % c  q == a \div c
<1>1. r \in 0..(c - 1) /\ q \in Nat /\ a = c * q + r
  BY DivMod
<1>2. r + d \in Nat /\ a + d \in Nat
  BY <1>1
<1> DEFINE s == (r + d) % c  k == (r + d) \div c
           u == (a + d) % c  l == (a + d) \div c
<1>3. s \in 0..(c - 1) /\ k \in Nat /\ r + d = c * k + s
  BY <1>2, DivMod
<1>4. u \in 0..(c - 1) /\ l \in Nat /\ a + d = c * l + u
  BY <1>2, DivMod
<1> HIDE DEF r, q, s, k, u, l
<1> DEFINE n == q + k
<1>5. c * n = c * q + c * k
  BY <1>1, <1>3
<1>6. n \in Int /\ l \in Int
  BY <1>1, <1>3, <1>4
<1> HIDE DEF n
<1>7. c * n + s = c * l + u
  BY <1>1, <1>3, <1>4, <1>5, <1>6
<1>8. s = u
  <2>1. n \in Int /\ l \in Int /\ s \in 0..(c - 1) /\ u \in 0..(c - 1)
    BY <1>3, <1>4, <1>6
  <2> QED BY <1>7, <2>1, DivUnique
<1> QED BY <1>8 DEF s, u, r

\* Going on by less than a turn wraps at most once.
LEMMA Wrap ==
  ASSUME NEW c \in Nat \ {0}, NEW a \in Nat, NEW j \in 0..c
  PROVE  (a + j) % c = IF (a % c) + j < c THEN (a % c) + j ELSE (a % c) + j - c
<1> DEFINE r == a % c  q == a \div c
           u == (a + j) % c  l == (a + j) \div c
<1>1. r \in 0..(c - 1) /\ q \in Nat /\ a = c * q + r
  BY DivMod
<1>2. u \in 0..(c - 1) /\ l \in Nat /\ a + j = c * l + u
  <2>1. a + j \in Nat
    OBVIOUS
  <2> QED BY <2>1, DivMod
<1> HIDE DEF r, q, u, l
<1>3. CASE r + j < c
  <2>1. c * q + (r + j) = c * l + u
    BY <1>1, <1>2
  <2>2. r + j \in 0..(c - 1)
    BY <1>1, <1>3
  <2>3. r + j = u
    BY <1>1, <1>2, <2>1, <2>2, DivUnique
  <2> QED BY <1>3, <2>3 DEF r, u
<1>4. CASE ~(r + j < c)
  <2> DEFINE n == q + 1  s == r + j - c
  <2>1. c * n = c * q + c /\ n \in Int /\ l \in Int
    BY <1>1, <1>2
  <2>2. s \in 0..(c - 1) /\ s = r + j - c
    BY <1>1, <1>4
  <2> HIDE DEF n, s
  <2>3. c * n + s = c * l + u
    BY <1>1, <1>2, <2>1, <2>2
  <2>4. s = u
    <3>1. n \in Int /\ l \in Int /\ s \in 0..(c - 1) /\ u \in 0..(c - 1)
      BY <1>2, <2>1, <2>2
    <3> QED BY <2>3, <3>1, DivUnique
  <2> QED BY <1>4, <2>4 DEF r, u, s
<1> QED BY <1>3, <1>4

LEMMA ModSmall ==
  ASSUME NEW c \in Nat \ {0}, NEW a \in 0..(c - 1)
  PROVE  a % c = a
<1>1. a = 0 + a /\ a \in 0..c /\ 0 \in Nat
  OBVIOUS
<1>2. 0 % c = 0
  <2> DEFINE r == 0 % c  q == 0 \div c
  <2>1. r \in 0..(c - 1) /\ q \in Nat /\ 0 = c * q + r
    BY DivMod
  <2> HIDE DEF r, q
  <2>2. c * q >= 0
    BY <2>1
  <2>3. r = 0
    BY <2>1, <2>2
  <2> QED BY <2>3 DEF r
<1>3. (0 + a) % c = IF (0 % c) + a < c THEN (0 % c) + a ELSE (0 % c) + a - c
  BY <1>1, Wrap
<1> QED BY <1>2, <1>3

\* A remainder of a remainder, when one modulus divides the other.
LEMMA ModMod ==
  ASSUME NEW c \in Nat \ {0}, NEW k \in Nat \ {0}, NEW m \in Nat \ {0}, m = c * k,
         NEW a \in Nat
  PROVE  (a % m) % c = a % c
<1> DEFINE r == a % m  q == a \div m
           s == r % c  p == r \div c
           u == a % c  l == a \div c
<1>1. r \in 0..(m - 1) /\ q \in Nat /\ a = m * q + r
  BY DivMod
<1>2. r \in Nat
  BY <1>1
<1>3. s \in 0..(c - 1) /\ p \in Nat /\ r = c * p + s
  BY <1>2, DivMod
<1>4. u \in 0..(c - 1) /\ l \in Nat /\ a = c * l + u
  BY DivMod
<1> HIDE DEF r, q, s, p, u, l
<1> DEFINE n == k * q + p
<1>5. c * n = m * q + c * p
  <2>1. c * (k * q + p) = c * (k * q) + c * p
    BY <1>1, <1>3
  <2>2. c * (k * q) = (c * k) * q
    BY <1>1
  <2> QED BY <2>1, <2>2
<1>6. n \in Int /\ l \in Int
  BY <1>1, <1>3, <1>4
<1> HIDE DEF n
<1>7. c * n + s = c * l + u
  BY <1>1, <1>3, <1>4, <1>5, <1>6
<1>8. s = u
  <2>1. n \in Int /\ l \in Int /\ s \in 0..(c - 1) /\ u \in 0..(c - 1)
    BY <1>3, <1>4, <1>6
  <2> QED BY <1>7, <2>1, DivUnique
<1> QED BY <1>8 DEF s, u, r

\* Within a turn all places are different.
LEMMA ModDistinct ==
  ASSUME NEW c \in Nat \ {0}, NEW a \in Nat, NEW d \in Nat, a < d, d - a < c
  PROVE  a % c # d % c
<1> DEFINE j == d - a
<1>1. j \in 0..c /\ j > 0 /\ j < c /\ d = a + j
  OBVIOUS
<1>2. a % c \in 0..(c - 1)
  BY DivMod
<1> HIDE DEF j
<1>3. (a + j) % c = IF (a % c) + j < c THEN (a % c) + j ELSE (a % c) + j - c
  BY <1>1, Wrap
<1> QED BY <1>1, <1>2, <1>3

\* How far two indices are apart, from their remainders.
LEMMA ModDist ==
  ASSUME NEW c \in Nat \ {0}, NEW a \in Nat, NEW d \in Nat, a <= d, d - a < c
  PROVE  ((d % c) - (a % c) + c) % c = d - a
<1> DEFINE j == d - a  r == a % c  s == d % c
<1>1. j \in 0..c /\ j \in 0..(c - 1) /\ d = a + j
  OBVIOUS
<1>2. r \in 0..(c - 1)
  BY DivMod
<1>3. s = IF r + j < c THEN r + j ELSE r + j - c
  BY <1>1, Wrap
<1> HIDE DEF j, r, s
<1>4. j % c = j
  BY <1>1, ModSmall
<1>5. CASE r + j < c
  <2>1. s - r + c = j + c
    BY <1>1, <1>2, <1>3, <1>5
  <2>2. (j + c) % c = IF (j % c) + c < c THEN (j % c) + c ELSE (j % c) + c - c
    <3>1. j \in Nat /\ c \in 0..c
      BY <1>1
    <3> QED BY <3>1, Wrap
  <2>3. (j + c) % c = j
    BY <1>1, <1>4, <2>2
  <2> QED BY <2>1, <2>3 DEF r, s, j
<1>6. CASE ~(r + j < c)
  <2>1. s - r + c = j
    BY <1>1, <1>2, <1>3, <1>6
  <2> QED BY <1>4, <2>1 DEF r, s, j
<1> QED BY <1>5, <1>6

-----------------------------------------------------------------------------
(* Recursion: the walk along a chain, the spreading of a frame over its      *)
(* writable buffers, and the gathering of one from the others.  Each is a    *)
(* function on 0..n that is defined from its value at the number before;     *)
(* that there is one is shown by induction, once for all of them.            *)

\* Induction up to a number, on a set.
LEMMA UpTo ==
  ASSUME NEW n \in Nat, NEW S, 0 \in S, \A m \in 0..(n - 1) : m \in S => m + 1 \in S
  PROVE  \A m \in 0..n : m \in S
<1> SUFFICES ASSUME NEW T, T = {m \in 0..n : m \notin S}, T # {} PROVE FALSE
  OBVIOUS
<1>1. T \subseteq Nat
  OBVIOUS
<1>2. \E d \in T : \A e \in T : ~(<<e, d>> \in OpToRel(<, Nat))
  BY <1>1, NatLessThanWellFounded, WFMin
<1>3. \A d, e \in Nat : e < d => <<e, d>> \in OpToRel(<, Nat)
  BY Zenon DEF OpToRel
<1>4. PICK d \in T : \A e \in T : ~(e < d)
  BY <1>1, <1>2, <1>3, Zenon
<1>5. d \in 0..n /\ d \notin S /\ d # 0
  BY <1>4
<1>6. d - 1 \in 0..(n - 1) /\ d - 1 \in 0..n /\ d - 1 < d
  BY <1>5
<1>7. d - 1 \in S
  BY <1>4, <1>6
<1>8. (d - 1) + 1 \in S
  BY <1>6, <1>7
<1> QED BY <1>5, <1>8

WalkStep(q, m, w) ==
  IF w.more /\ w.next < q.size
  THEN [taken |-> Append(w.taken, w.next),
        next |-> m[q.desc][w.next].next,
        more |-> m[q.desc][w.next].has_next]
  ELSE [w EXCEPT !.more = FALSE]

SpreadStep(q, m, c, payload, p, n) ==
  LET d == Buffer(q, m, c[n])
      more == Least(Len(d.data), Len(payload) - p.written)
  IN IF d.writable /\ d.mapped
     THEN [mem |-> WriteBuffer(q, p.mem, c[n],
                     SubSeq(payload, p.written + 1, p.written + more)),
           written |-> p.written + more]
     ELSE p

GatherStep(q, m, c, passesWritable, g, n) ==
  LET d == Buffer(q, m, c[n])
  IN IF g.stopped
     THEN g
     ELSE IF d.writable
     THEN [g EXCEPT !.stopped = ~passesWritable]
     ELSE IF Len(g.bytes) + Len(d.data) > MAX_FRAME
     THEN [g EXCEPT !.stopped = TRUE]
     ELSE IF d.mapped THEN [g EXCEPT !.bytes = @ \o d.data] ELSE g

First(what, p) ==
  CASE what = "walk" -> [taken |-> <<>>, next |-> p[3], more |-> p[1].desc \in DOMAIN p[2]]
    [] what = "spread" -> [mem |-> p[2], written |-> 0]
    [] what = "gather" -> [bytes |-> <<>>, stopped |-> FALSE]

Step(what, p, w, n) ==
  CASE what = "walk" -> WalkStep(p[1], p[2], w)
    [] what = "spread" -> SpreadStep(p[1], p[2], p[3], p[4], w, n)
    [] what = "gather" -> GatherStep(p[1], p[2], p[3], p[4], w, n)

IsRec(f, what, p, n) ==
  f = [k \in 0..n |-> IF k = 0 THEN First(what, p) ELSE Step(what, p, f[k - 1], k)]

LEMMA RecExists ==
  ASSUME NEW what, NEW p, NEW n \in Nat
  PROVE  \E f : IsRec(f, what, p, n)
<1> DEFINE S == {k \in 0..n : \E f : IsRec(f, what, p, k)}
<1>1. 0 \in S
  <2> DEFINE f == [k \in 0..0 |-> First(what, p)]
  <2>1. IsRec(f, what, p, 0)
    <3>1. \A k \in 0..0 : k = 0
      OBVIOUS
    <3>2. f = [k \in 0..0 |-> IF k = 0 THEN First(what, p) ELSE Step(what, p, f[k - 1], k)]
      BY <3>1, Zenon
    <3> QED BY <3>2, Zenon DEF IsRec
  <2> QED BY <2>1
<1>2. ASSUME NEW j \in 0..(n - 1), j \in S PROVE j + 1 \in S
  <2>1. PICK f : IsRec(f, what, p, j)
    BY <1>2
  <2> DEFINE g == [k \in 0..(j + 1) |-> IF k = j + 1 THEN Step(what, p, f[j], j + 1) ELSE f[k]]
             h == [k \in 0..(j + 1) |-> IF k = 0 THEN First(what, p)
                                        ELSE Step(what, p, g[k - 1], k)]
  <2>2. \A k \in 0..j : f[k] = IF k = 0 THEN First(what, p) ELSE Step(what, p, f[k - 1], k)
    <3>1. f = [k \in 0..j |-> IF k = 0 THEN First(what, p) ELSE Step(what, p, f[k - 1], k)]
      BY <2>1, Zenon DEF IsRec
    <3> HIDE DEF IsRec, First, Step
    <3> QED BY <3>1, Zenon
  <2>3. \A k \in 0..(j + 1) : g[k] = h[k]
    <3> SUFFICES ASSUME NEW k \in 0..(j + 1) PROVE g[k] = h[k]
      OBVIOUS
    <3>1. CASE k = j + 1
      <4>1. k # 0 /\ k - 1 = j /\ j \in 0..(j + 1) /\ j # j + 1
        BY <3>1
      <4>2. g[k] = Step(what, p, f[j], j + 1)
        BY <3>1, Zenon
      <4>3. g[j] = f[j]
        BY <4>1, Zenon
      <4>4. h[k] = Step(what, p, g[k - 1], k)
        BY <4>1, Zenon
      <4> QED BY <3>1, <4>1, <4>2, <4>3, <4>4, Zenon
    <3>2. CASE k # j + 1 /\ k # 0
      <4>1. k \in 0..j /\ k - 1 \in 0..(j + 1) /\ k - 1 # j + 1
        BY <3>2
      <4>2. g[k] = f[k] /\ g[k - 1] = f[k - 1]
        BY <3>2, <4>1, Zenon
      <4>3. h[k] = Step(what, p, g[k - 1], k)
        BY <3>2, Zenon
      <4> QED BY <2>2, <3>2, <4>1, <4>2, <4>3, Zenon
    <3>3. CASE k = 0
      <4>1. 0 \in 0..j /\ 0 # j + 1 /\ 0 \in 0..(j + 1)
        OBVIOUS
      <4>2. g[0] = f[0] /\ h[0] = First(what, p) /\ f[0] = First(what, p)
        BY <2>2, <4>1, Zenon
      <4> QED BY <3>3, <4>2, Zenon
    <3> QED BY <3>1, <3>2, <3>3
  <2>4. g = h
    BY <2>3, Zenon
  <2>5. IsRec(g, what, p, j + 1)
    <3> HIDE DEF g, First, Step
    <3> QED BY <2>4, Zenon DEF IsRec
  <2>6. j + 1 \in 0..n
    OBVIOUS
  <2> QED BY <2>5, <2>6
<1>3. \A k \in 0..(n - 1) : k \in S => k + 1 \in S
  BY <1>2
<1>4. \A k \in 0..n : k \in S
  <2> HIDE DEF S
  <2> QED BY <1>1, <1>3, UpTo
<1>5. n \in S
  BY <1>4
<1> QED BY <1>5

\* The values of such a function.
LEMMA RecValues ==
  ASSUME NEW f, NEW what, NEW p, NEW n \in Nat, IsRec(f, what, p, n)
  PROVE  /\ f[0] = First(what, p)
         /\ \A k \in 0..(n - 1) : f[k + 1] = Step(what, p, f[k], k + 1)
<1>1. \A k \in 0..n : f[k] = IF k = 0 THEN First(what, p) ELSE Step(what, p, f[k - 1], k)
  <2>1. f = [k \in 0..n |-> IF k = 0 THEN First(what, p) ELSE Step(what, p, f[k - 1], k)]
    BY Zenon DEF IsRec
  <2> QED BY <2>1, Zenon
<1>2. f[0] = First(what, p)
  <2>1. 0 \in 0..n
    OBVIOUS
  <2> QED BY <1>1, <2>1, Zenon
<1>3. ASSUME NEW k \in 0..(n - 1) PROVE f[k + 1] = Step(what, p, f[k], k + 1)
  <2>1. k + 1 \in 0..n /\ k + 1 # 0 /\ (k + 1) - 1 = k
    OBVIOUS
  <2>2. f[k + 1] = Step(what, p, f[(k + 1) - 1], k + 1)
    BY <1>1, <2>1, Zenon
  <2> QED BY <2>1, <2>2
<1> QED BY <1>2, <1>3

LEMMA ChainIs ==
  ASSUME NEW q, NEW m, NEW head, q.size \in Nat
  PROVE  \E f : IsRec(f, "walk", <<q, m, head>>, q.size) /\ Chain(q, m, head) = f[q.size].taken
<1> DEFINE F == CHOOSE f : IsRec(f, "walk", <<q, m, head>>, q.size)
<1>1. IsRec(F, "walk", <<q, m, head>>, q.size)
  BY RecExists
<1>2. Chain(q, m, head) = F[q.size].taken
  <2>1. First("walk", <<q, m, head>>)
          = [taken |-> <<>>, next |-> head, more |-> q.desc \in DOMAIN m]
    BY DEF First
  <2>2. \A w, n : Step("walk", <<q, m, head>>, w, n) = WalkStep(q, m, w)
    BY DEF Step
  <2>3. \A f : IsRec(f, "walk", <<q, m, head>>, q.size) <=>
           f = [k \in 0..q.size |-> IF k = 0
                  THEN [taken |-> <<>>, next |-> head, more |-> q.desc \in DOMAIN m]
                  ELSE WalkStep(q, m, f[k - 1])]
    BY <2>1, <2>2, Zenon DEF IsRec
  <2>4. F = CHOOSE f : f = [k \in 0..q.size |-> IF k = 0
                  THEN [taken |-> <<>>, next |-> head, more |-> q.desc \in DOMAIN m]
                  ELSE WalkStep(q, m, f[k - 1])]
    BY <2>3, Zenon
  <2> QED BY <2>4, Zenon DEF Chain, WalkStep
<1> QED BY <1>1, <1>2

\* A chain is a sequence.
LEMMA ChainSeq ==
  ASSUME NEW q, NEW m, NEW head, q.size \in Nat
  PROVE  \E T : Chain(q, m, head) \in Seq(T)
<1> DEFINE p == <<q, m, head>>
           n == q.size
<1>1. PICK f : IsRec(f, "walk", p, n) /\ Chain(q, m, head) = f[n].taken
  BY ChainIs
<1> HIDE DEF n
<1>2. /\ f[0] = First("walk", p)
      /\ \A k \in 0..(n - 1) : f[k + 1] = Step("walk", p, f[k], k + 1)
  BY <1>1, RecValues DEF n
<1> DEFINE Ok(w) == \E T : \E s \in Seq(T) : \E x, y : w = [taken |-> s, next |-> x, more |-> y]
           S == {k \in 0..n : Ok(f[k])}
<1>3. Ok(f[0])
  <2>1. f[0] = [taken |-> <<>>, next |-> head, more |-> q.desc \in DOMAIN m]
    BY <1>2 DEF First
  <2>2. <<>> \in Seq({})
    OBVIOUS
  <2> QED BY <2>1, <2>2
<1>4. ASSUME NEW k \in 0..(n - 1), Ok(f[k]) PROVE Ok(f[k + 1])
  <2>1. PICK T : \E s \in Seq(T) : \E x, y : f[k] = [taken |-> s, next |-> x, more |-> y]
    BY <1>4
  <2>2. PICK s \in Seq(T) : \E x, y : f[k] = [taken |-> s, next |-> x, more |-> y]
    BY <2>1
  <2>3. PICK x, y : f[k] = [taken |-> s, next |-> x, more |-> y]
    BY <2>2
  <2>4. f[k + 1] = WalkStep(q, m, f[k])
    BY <1>2 DEF Step
  <2>5. CASE f[k].more /\ f[k].next < q.size
    <3>1. f[k + 1] = [taken |-> Append(s, x), next |-> m[q.desc][x].next,
                      more |-> m[q.desc][x].has_next]
      BY <2>3, <2>4, <2>5 DEF WalkStep
    <3>2. Append(s, x) \in Seq(T \cup {x})
      <4>1. s \in Seq(T \cup {x})
        OBVIOUS
      <4> QED BY <4>1
    <3> QED BY <3>1, <3>2, Zenon
  <2>6. CASE ~(f[k].more /\ f[k].next < q.size)
    <3>1. f[k + 1] = [f[k] EXCEPT !.more = FALSE]
      BY <2>4, <2>6 DEF WalkStep
    <3>2. f[k + 1] = [[taken |-> s, next |-> x, more |-> y] EXCEPT !.more = FALSE]
      BY <2>3, <3>1, Zenon
    <3>3. f[k + 1] = [taken |-> s, next |-> x, more |-> FALSE]
      BY <3>2
    <3> QED BY <2>2, <3>3, Zenon
  <2> QED BY <2>5, <2>6
<1> HIDE DEF Ok
<1>5. 0 \in S /\ n \in Nat /\ \A k \in 0..(n - 1) : k \in S => k + 1 \in S
  BY <1>3, <1>4 DEF n
<1>6. \A k \in 0..n : k \in S
  <2> HIDE DEF S
  <2> QED BY <1>5, UpTo
<1>7. Ok(f[n])
  BY <1>5, <1>6
<1> QED BY <1>1, <1>7 DEF Ok

-----------------------------------------------------------------------------
(* What the devices leave alone: they write into the buffers of a chain, and *)
(* the rings change only when the chain is returned.                         *)

IsFcn(f) == f = [x \in DOMAIN f |-> f[x]]

SameBut(a, m, n) ==
  /\ IsFcn(n) /\ DOMAIN n = DOMAIN m
  /\ \A x \in DOMAIN m : x # a => n[x] = m[x]

LEMMA SameButTrans ==
  ASSUME NEW a, NEW l, NEW m, NEW n, SameBut(a, l, m), SameBut(a, m, n)
  PROVE  SameBut(a, l, n)
  BY DEF SameBut

LEMMA WriteBufferFrame ==
  ASSUME NEW q, NEW m, IsFcn(m), NEW i, NEW bytes
  PROVE  SameBut(q.desc, m, WriteBuffer(q, m, i, bytes))
<1>1. CASE ~Buffer(q, m, i).mapped
  BY <1>1 DEF WriteBuffer, SameBut, IsFcn
<1>2. CASE Buffer(q, m, i).mapped
  <2> DEFINE w == [m EXCEPT ![q.desc][i].data = Overwrite(@, bytes)]
  <2>1. WriteBuffer(q, m, i, bytes) = w
    BY <1>2 DEF WriteBuffer
  <2>2. DOMAIN w = DOMAIN m
    BY DEF IsFcn
  <2>3. \A x \in DOMAIN m : x # q.desc => w[x] = m[x]
    BY DEF IsFcn
  <2>4. w = [x \in DOMAIN w |-> w[x]]
    BY DEF IsFcn
  <2> HIDE DEF w
  <2> QED BY <2>1, <2>2, <2>3, <2>4 DEF SameBut, IsFcn
<1> QED BY <1>1, <1>2

LEMMA RequestFrame ==
  ASSUME NEW d, NEW q, NEW m, IsFcn(m), NEW head, NEW io
  PROVE  SameBut(q.desc, m, ProcessRequest(d, q, m, head, io).mem)
<1>1. SameBut(q.desc, m, m)
  BY DEF SameBut
<1>2. \A n, i, bytes : SameBut(q.desc, m, n) => SameBut(q.desc, m, WriteBuffer(q, n, i, bytes))
  <2> TAKE n, i, bytes
  <2> HAVE SameBut(q.desc, m, n)
  <2>1. SameBut(q.desc, n, WriteBuffer(q, n, i, bytes))
    BY WriteBufferFrame DEF SameBut
  <2> QED BY <2>1, SameButTrans
<1>3. \A i, sector : SameBut(q.desc, m, HandleRead(d, q, m, i, sector, io).mem)
  <2> TAKE i, sector
  <2> HIDE DEF SameBut, WriteBuffer
  <2> QED BY <1>1, <1>2 DEF HandleRead
<1> DEFINE c == Chain(q, m, head)
           hdr == Buffer(q, m, c[1])
           what == Serves(hdr.data[1], Buffer(q, m, c[2]).writable)
           r == HandleRead(d, q, m, c[2], hdr.data[2], io)
           mem2 == IF what = "read" THEN r.mem ELSE m
<1>4. SameBut(q.desc, m, mem2)
  <2>1. SameBut(q.desc, m, r.mem)
    BY <1>3
  <2> HIDE DEF r, what
  <2> QED BY <1>1, <2>1
<1>5. \E status : ProcessRequest(d, q, m, head, io).mem
                    \in {m, mem2, WriteBuffer(q, mem2, c[3], <<status>>)}
  <2> HIDE DEF SameBut, WriteBuffer
  <2> QED BY DEF ProcessRequest
<1> HIDE DEF mem2
<1> QED BY <1>1, <1>2, <1>4, <1>5

LEMMA VsockRxFrame ==
  ASSUME NEW q, NEW m, IsFcn(m), NEW head, NEW p
  PROVE  SameBut(q.desc, m, VsockRx(q, m, head, p).mem)
<1>1. SameBut(q.desc, m, m)
  BY DEF SameBut
<1>2. \A i, bytes : SameBut(q.desc, m, WriteBuffer(q, m, i, bytes))
  BY WriteBufferFrame
<1> QED BY <1>1, <1>2 DEF VsockRx

LEMMA SpreadIs ==
  ASSUME NEW q, NEW m, NEW head, NEW frame, q.size \in Nat
  PROVE  LET c == Chain(q, m, head)
             p == <<q, m, c, Zeros(NET_HDR_SIZE) \o frame>>
         IN  /\ Len(c) \in Nat
             /\ \E f : IsRec(f, "spread", p, Len(c)) /\ NetRx(q, m, head, frame) = f[Len(c)]
<1> DEFINE c == Chain(q, m, head)
           load == Zeros(NET_HDR_SIZE) \o frame
           p == <<q, m, c, load>>
           F == CHOOSE f : IsRec(f, "spread", p, Len(c))
<1>1. Len(c) \in Nat
  BY ChainSeq
<1>2. IsRec(F, "spread", p, Len(c))
  BY <1>1, RecExists
<1>3. NetRx(q, m, head, frame) = F[Len(c)]
  <2>1. First("spread", p) = [mem |-> m, written |-> 0]
    BY DEF First
  <2>2. \A w, n : Step("spread", p, w, n) = SpreadStep(q, m, c, load, w, n)
    BY DEF Step
  <2>3. \A f : IsRec(f, "spread", p, Len(c)) <=>
           f = [k \in 0..Len(c) |-> IF k = 0 THEN [mem |-> m, written |-> 0]
                                    ELSE SpreadStep(q, m, c, load, f[k - 1], k)]
    BY <2>1, <2>2, ZenonT(60) DEF IsRec
  <2>4. F = CHOOSE f : f = [k \in 0..Len(c) |-> IF k = 0 THEN [mem |-> m, written |-> 0]
                                    ELSE SpreadStep(q, m, c, load, f[k - 1], k)]
    BY <2>3, Zenon
  <2> QED BY <2>4, Zenon DEF NetRx, SpreadStep
<1> QED BY <1>1, <1>2, <1>3

LEMMA NetRxFrame ==
  ASSUME NEW q, NEW m, IsFcn(m), NEW head, NEW frame, q.size \in Nat
  PROVE  SameBut(q.desc, m, NetRx(q, m, head, frame).mem)
<1> DEFINE c == Chain(q, m, head)
           load == Zeros(NET_HDR_SIZE) \o frame
           p == <<q, m, c, load>>
           n == Len(c)
<1>1. n \in Nat
  BY SpreadIs
<1>2. PICK f : IsRec(f, "spread", p, n) /\ NetRx(q, m, head, frame) = f[n]
  BY SpreadIs
<1>3. /\ f[0] = First("spread", p)
      /\ \A k \in 0..(n - 1) : f[k + 1] = Step("spread", p, f[k], k + 1)
  <2> HIDE DEF n, p
  <2> QED BY <1>1, <1>2, RecValues
<1>4. SameBut(q.desc, m, f[0].mem)
  <2>1. f[0].mem = m
    BY <1>3 DEF First
  <2> QED BY <2>1 DEF SameBut
<1>5. ASSUME NEW k \in 0..(n - 1), SameBut(q.desc, m, f[k].mem)
      PROVE  SameBut(q.desc, m, f[k + 1].mem)
  <2>1. f[k + 1] = SpreadStep(q, m, c, load, f[k], k + 1)
    BY <1>3 DEF Step
  <2>2. \A i, bytes : SameBut(q.desc, f[k].mem, WriteBuffer(q, f[k].mem, i, bytes))
    BY <1>5, WriteBufferFrame DEF SameBut
  <2>3. \A i, bytes : SameBut(q.desc, m, WriteBuffer(q, f[k].mem, i, bytes))
    BY <1>5, <2>2, SameButTrans
  <2> HIDE DEF c, load
  <2> QED BY <1>5, <2>1, <2>3 DEF SpreadStep
<1> DEFINE S == {k \in 0..n : SameBut(q.desc, m, f[k].mem)}
<1> HIDE DEF n
<1>6. 0 \in S /\ \A k \in 0..(n - 1) : k \in S => k + 1 \in S
  BY <1>1, <1>4, <1>5
<1>7. \A k \in 0..n : k \in S
  <2> HIDE DEF S
  <2> QED BY <1>1, <1>6, UpTo
<1> QED BY <1>1, <1>2, <1>7

-----------------------------------------------------------------------------
(* The transport and its registers. *)

QueueRecords ==
  [size : Nat, desc : Nat \X Nat, avail : Nat \X Nat, used : Nat \X Nat,
   last_avail_idx : Nat, ready : BOOLEAN]

QueueStates == [queue : QueueRecords, num : Nat, addr : [AddrRegs -> Nat]]

Transports(n) ==
  [status : Nat, interrupt_status : Nat, queue_sel : Nat,
   device_features_sel : Nat, driver_features_sel : Nat,
   driver_features : [1..2 -> Nat], config_generation : Nat,
   queues : [0..(n - 1) -> QueueStates]]

LEMMA NewQueueStateType ==
  /\ NewQueueState \in QueueStates
  /\ NewQueueState.queue.last_avail_idx = 0 /\ ~NewQueueState.queue.ready
<1>1. NewQueue(MAX_QUEUE_SIZE) =
        [size |-> MAX_QUEUE_SIZE, desc |-> <<0, 0>>, avail |-> <<0, 0>>, used |-> <<0, 0>>,
         last_avail_idx |-> 0, ready |-> FALSE]
  BY DEF NewQueue
<1>2. /\ NewQueue(MAX_QUEUE_SIZE) \in QueueRecords
      /\ NewQueue(MAX_QUEUE_SIZE).last_avail_idx = 0 /\ ~NewQueue(MAX_QUEUE_SIZE).ready
  BY <1>1, QueueAssumptions DEF QueueAssumptions, QueueRecords
<1>3. [r \in AddrRegs |-> 0] \in [AddrRegs -> Nat]
  OBVIOUS
<1> HIDE DEF QueueRecords
<1> QED BY <1>2, <1>3, QueueAssumptions DEF QueueAssumptions, NewQueueState, QueueStates

LEMMA NewTransportType ==
  ASSUME NEW n \in Nat
  PROVE  /\ NewTransport(n) \in Transports(n)
         /\ \A i \in 0..(n - 1) : NewTransport(n).queues[i] = NewQueueState
<1>1. <<0, 0>> \in [1..2 -> Nat]
  OBVIOUS
<1>2. [i \in 0..(n - 1) |-> NewQueueState] \in [0..(n - 1) -> QueueStates]
  BY NewQueueStateType
<1> HIDE DEF QueueStates, NewQueueState
<1> QED BY <1>1, <1>2 DEF NewTransport, Transports

LEMMA ResetType ==
  ASSUME NEW n \in Nat, NEW x \in Transports(n)
  PROVE  /\ WriteReg(x, "STATUS", 0) \in Transports(n)
         /\ \A i \in 0..(n - 1) : WriteReg(x, "STATUS", 0).queues[i] = NewQueueState
<1> DEFINE qs == [i \in DOMAIN x.queues |->
                    [NewQueueState EXCEPT !.queue = ResetQueue(x.queues[i].queue)]]
<1>1. \A y : [NewQueueState EXCEPT !.queue = ResetQueue(y)] = NewQueueState
  BY DEF NewQueueState, ResetQueue
<1>2. qs = [i \in 0..(n - 1) |-> NewQueueState]
  BY <1>1 DEF Transports
<1>3. qs \in [0..(n - 1) -> QueueStates] /\ \A i \in 0..(n - 1) : qs[i] = NewQueueState
  BY <1>2, NewQueueStateType
<1>4. WriteReg(x, "STATUS", 0) = Reset(x)
  BY DEF WriteReg, AddrRegs
<1> DEFINE none == <<0, 0>>
<1>5. none \in [1..2 -> Nat]
  OBVIOUS
<1>6. Reset(x) = [x EXCEPT !.status = 0, !.interrupt_status = 0, !.queue_sel = 0,
              !.device_features_sel = 0, !.driver_features_sel = 0,
              !.driver_features = none, !.queues = qs]
  BY DEF Reset
<1> HIDE DEF qs, none, QueueStates, NewQueueState
<1>7. Reset(x) = [status |-> 0, interrupt_status |-> 0, queue_sel |-> 0,
                  device_features_sel |-> 0, driver_features_sel |-> 0,
                  driver_features |-> none, config_generation |-> x.config_generation,
                  queues |-> qs]
  BY <1>6 DEF Transports
<1>8. Reset(x) \in Transports(n) /\ Reset(x).queues = qs
  <2>1. x.config_generation \in Nat
    BY DEF Transports
  <2> QED BY <1>3, <1>5, <1>7, <2>1 DEF Transports
<1> QED BY <1>3, <1>4, <1>8

\* Registers that do not concern the queues.
LEMMA OtherRegs ==
  ASSUME NEW n \in Nat, NEW x \in Transports(n), NEW v \in Nat, NEW reg,
         \/ reg \in {"DEVICE_FEATURES_SEL", "DRIVER_FEATURES_SEL", "DRIVER_FEATURES",
                     "INTERRUPT_ACK"}
         \/ reg = "STATUS" /\ v # 0
  PROVE  /\ WriteReg(x, reg, v) \in Transports(n)
         /\ WriteReg(x, reg, v).queues = x.queues
         /\ WriteReg(x, reg, v).queue_sel = x.queue_sel
<1> HIDE DEF QueueStates
<1>1. CASE reg = "DEVICE_FEATURES_SEL"
  <2>1. WriteReg(x, reg, v) = [x EXCEPT !.device_features_sel = v]
    BY <1>1 DEF WriteReg, AddrRegs
  <2> QED BY <2>1 DEF Transports
<1>2. CASE reg = "DRIVER_FEATURES_SEL"
  <2>1. WriteReg(x, reg, v) = [x EXCEPT !.driver_features_sel = v]
    BY <1>2 DEF WriteReg, AddrRegs
  <2> QED BY <2>1 DEF Transports
<1>3. CASE reg = "DRIVER_FEATURES"
  <2>1. WriteReg(x, reg, v) = [x EXCEPT !.driver_features[Word(x.driver_features_sel)] = v]
    BY <1>3 DEF WriteReg, AddrRegs
  <2>2. Word(x.driver_features_sel) \in 1..2
    BY DEF Word
  <2> HIDE DEF Word
  <2> QED BY <2>1, <2>2 DEF Transports
<1>4. CASE reg = "INTERRUPT_ACK"
  <2>1. WriteReg(x, reg, v) = [x EXCEPT !.interrupt_status = AckBits(@, v)]
    BY <1>4 DEF WriteReg, AddrRegs
  <2>2. AckBits(x.interrupt_status, v) \in Nat
    BY DEF AckBits, Transports
  <2> HIDE DEF AckBits
  <2> QED BY <2>1, <2>2 DEF Transports
<1>5. CASE reg = "STATUS" /\ v # 0
  <2>1. WriteReg(x, reg, v) = [x EXCEPT !.status = v]
    BY <1>5 DEF WriteReg, AddrRegs
  <2> QED BY <2>1 DEF Transports
<1> QED BY <1>1, <1>2, <1>3, <1>4, <1>5

LEMMA SelReg ==
  ASSUME NEW n \in Nat, NEW x \in Transports(n), NEW i \in 0..(n - 1)
  PROVE  /\ WriteReg(x, "QUEUE_SEL", i) \in Transports(n)
         /\ WriteReg(x, "QUEUE_SEL", i).queues = x.queues
         /\ WriteReg(x, "QUEUE_SEL", i).queue_sel = i
<1> HIDE DEF QueueStates
<1>1. i \in DOMAIN x.queues
  BY DEF Transports
<1>2. WriteReg(x, "QUEUE_SEL", i) = [x EXCEPT !.queue_sel = i]
  BY <1>1 DEF WriteReg, AddrRegs
<1> QED BY <1>2, SMTT(30) DEF Transports

\* A change of one queue.
LEMMA OneQueue ==
  ASSUME NEW n \in Nat, NEW x \in Transports(n), NEW i \in 0..(n - 1), NEW s \in QueueStates
  PROVE  /\ [x EXCEPT !.queues[i] = s] \in Transports(n)
         /\ [x EXCEPT !.queues[i] = s].queue_sel = x.queue_sel
         /\ [x EXCEPT !.queues[i] = s].queues[i] = s
         /\ \A j \in 0..(n - 1) : j # i => [x EXCEPT !.queues[i] = s].queues[j] = x.queues[j]
<1> HIDE DEF QueueStates
<1> QED BY DEF Transports

\* The registers of the queue that is selected.
Numbered(s, v) == [s EXCEPT !.num = v, !.queue = SetSize(@, v)]

LEMMA NumReg ==
  ASSUME NEW x, NEW i, x.queue_sel = i, NEW v
  PROVE  WriteReg(x, "QUEUE_NUM", v) = [x EXCEPT !.queues[i] = Numbered(x.queues[i], v)]
  BY DEF WriteReg, AddrRegs, Numbered

LEMMA ReadyReg ==
  ASSUME NEW x, NEW i, x.queue_sel = i, NEW v \in Nat, v # 0
  PROVE  WriteReg(x, "QUEUE_READY", v) = [x EXCEPT !.queues[i] = MadeReady(x.queues[i], TRUE)]
<1>1. (v # 0) = TRUE
  OBVIOUS
<1>2. WriteReg(x, "QUEUE_READY", v) = [x EXCEPT !.queues[i] = MadeReady(x.queues[i], v # 0)]
  BY DEF WriteReg, AddrRegs
<1>3. MadeReady(x.queues[i], v # 0) = MadeReady(x.queues[i], TRUE)
  BY <1>1, Zenon
<1> QED BY <1>2, <1>3, Zenon

LEMMA AddrReg ==
  ASSUME NEW x, NEW i, x.queue_sel = i, NEW v, NEW reg \in AddrRegs,
         NEW z, z = [x.queues[i] EXCEPT !.addr[reg] = v]
  PROVE  WriteReg(x, reg, v) = [x EXCEPT !.queues[i] = z]
<1>1. reg \notin {"DEVICE_FEATURES_SEL", "DRIVER_FEATURES_SEL", "DRIVER_FEATURES", "QUEUE_SEL",
                  "QUEUE_NUM", "QUEUE_READY", "INTERRUPT_ACK", "STATUS"}
  BY DEF AddrRegs
<1> QED BY <1>1 DEF WriteReg, AddrRegs

-----------------------------------------------------------------------------
(* The set-up.  A queue is described by how many of the nine writes that set *)
(* it up have been made.                                                     *)

QueueIs(s, i, n, p) ==
  /\ s.queue.last_avail_idx = 0
  /\ s.queue.ready <=> p >= 9
  /\ p >= 2 => s.queue.size = n
  /\ p >= 3 => s.addr["QUEUE_DESC_LOW"] = i + 1
  /\ p >= 4 => s.addr["QUEUE_DESC_HIGH"] = 1
  /\ p >= 5 => s.addr["QUEUE_AVAIL_LOW"] = i + 1
  /\ p >= 6 => s.addr["QUEUE_AVAIL_HIGH"] = 2
  /\ p >= 7 => s.addr["QUEUE_USED_LOW"] = i + 1
  /\ p >= 8 => s.addr["QUEUE_USED_HIGH"] = 3
  /\ p >= 9 => /\ s.queue.desc = DescAt(i) /\ s.queue.avail = AvailAt(i)
               /\ s.queue.used = UsedAt(i)

LEMMA StableIs ==
  ASSUME NEW s, NEW i, NEW n, NEW p \in Int, NEW r \in Int,
         (p <= 1 /\ r <= 1) \/ (p >= 9 /\ r >= 9), QueueIs(s, i, n, p)
  PROVE  QueueIs(s, i, n, r)
  BY DEF QueueIs

LEMMA NewIs ==
  ASSUME NEW i, NEW n, NEW p \in Int, p <= 1
  PROVE  QueueIs(NewQueueState, i, n, p)
<1>1. ~(p >= 9) /\ ~(p >= 2)
  OBVIOUS
<1>2. ~(p >= 3) /\ ~(p >= 4) /\ ~(p >= 5) /\ ~(p >= 6) /\ ~(p >= 7) /\ ~(p >= 8) /\ ~(p >= 9)
  OBVIOUS
<1> QED BY <1>1, <1>2, NewQueueStateType, Zenon DEF QueueIs

LEMMA NumIs ==
  ASSUME NEW s \in QueueStates, NEW i \in Nat, NEW n \in 1..MAX_QUEUE_SIZE, QueueIs(s, i, n, 1)
  PROVE  Numbered(s, n) \in QueueStates /\ QueueIs(Numbered(s, n), i, n, 2)
<1>1. n > 0 /\ n <= MAX_QUEUE_SIZE /\ n \in Nat
  BY QueueAssumptions DEF QueueAssumptions
<1> DEFINE z == SetSize(s.queue, n)
<1>2. z = [s.queue EXCEPT !.size = n]
  BY <1>1 DEF SetSize
<1>3. s.queue \in QueueRecords
  BY DEF QueueStates
<1>4. /\ z \in QueueRecords /\ z.size = n
      /\ z.last_avail_idx = s.queue.last_avail_idx /\ z.ready = s.queue.ready
  BY <1>1, <1>2, <1>3 DEF QueueRecords
<1> DEFINE w == [s EXCEPT !.num = n, !.queue = z]
<1> HIDE DEF z, QueueRecords
<1>5. w \in QueueStates /\ w.queue = z
  BY <1>1, <1>4 DEF QueueStates
<1>6. w = Numbered(s, n)
  BY DEF z, QueueStates, Numbered
<1> HIDE DEF w
<1>7. QueueIs(w, i, n, 2)
  BY <1>4, <1>5 DEF QueueIs
<1> QED BY <1>5, <1>6, <1>7

LEMMA AddrIs ==
  ASSUME NEW s \in QueueStates, NEW i \in Nat, NEW n \in Nat, NEW p \in 2..7,
         QueueIs(s, i, n, p), NEW reg \in AddrRegs, NEW v \in Nat,
         \/ p = 2 /\ reg = "QUEUE_DESC_LOW" /\ v = i + 1
         \/ p = 3 /\ reg = "QUEUE_DESC_HIGH" /\ v = 1
         \/ p = 4 /\ reg = "QUEUE_AVAIL_LOW" /\ v = i + 1
         \/ p = 5 /\ reg = "QUEUE_AVAIL_HIGH" /\ v = 2
         \/ p = 6 /\ reg = "QUEUE_USED_LOW" /\ v = i + 1
         \/ p = 7 /\ reg = "QUEUE_USED_HIGH" /\ v = 3
  PROVE  LET w == [s EXCEPT !.addr[reg] = v]
         IN  w \in QueueStates /\ QueueIs(w, i, n, p + 1)
<1> DEFINE w == [s EXCEPT !.addr[reg] = v]
<1> HIDE DEF QueueRecords
<1>1. /\ w \in QueueStates /\ w.queue = s.queue
      /\ w.addr[reg] = v /\ \A r \in AddrRegs : r # reg => w.addr[r] = s.addr[r]
  BY DEF QueueStates
<1> HIDE DEF w
<1>2. AddrRegs = {"QUEUE_DESC_LOW", "QUEUE_DESC_HIGH", "QUEUE_AVAIL_LOW",
                  "QUEUE_AVAIL_HIGH", "QUEUE_USED_LOW", "QUEUE_USED_HIGH"}
  BY DEF AddrRegs
<1>3. QueueIs(w, i, n, p + 1)
  BY <1>1, <1>2 DEF QueueIs
<1> QED BY <1>1, <1>3 DEF w

SetUpQueue(q, d, a, u) == SetReady(Configure(q, d, a, u), TRUE)

LEMMA ConfigureIs ==
  ASSUME NEW q \in QueueRecords, NEW d \in Nat \X Nat, NEW a \in Nat \X Nat,
         NEW u \in Nat \X Nat
  PROVE  /\ SetUpQueue(q, d, a, u) \in QueueRecords
         /\ SetUpQueue(q, d, a, u).size = q.size
         /\ SetUpQueue(q, d, a, u).last_avail_idx = q.last_avail_idx
         /\ SetUpQueue(q, d, a, u).desc = d
         /\ SetUpQueue(q, d, a, u).avail = a
         /\ SetUpQueue(q, d, a, u).used = u
  BY DEF QueueRecords, SetUpQueue, Configure, SetReady

LEMMA ConfigureReady ==
  ASSUME NEW q \in QueueRecords, NEW d \in Nat \X Nat, NEW a \in Nat \X Nat,
         NEW u \in Nat \X Nat
  PROVE  SetUpQueue(q, d, a, u).ready
  BY DEF QueueRecords, SetUpQueue, Configure, SetReady

LEMMA ReadyIs ==
  ASSUME NEW s \in QueueStates, NEW i \in Nat, NEW n \in Nat, QueueIs(s, i, n, 8)
  PROVE  MadeReady(s, TRUE) \in QueueStates /\ QueueIs(MadeReady(s, TRUE), i, n, 9)
<1>1. /\ s.addr["QUEUE_DESC_LOW"] = i + 1 /\ s.addr["QUEUE_DESC_HIGH"] = 1
      /\ s.addr["QUEUE_AVAIL_LOW"] = i + 1 /\ s.addr["QUEUE_AVAIL_HIGH"] = 2
      /\ s.addr["QUEUE_USED_LOW"] = i + 1 /\ s.addr["QUEUE_USED_HIGH"] = 3
      /\ s.queue.size = n /\ s.queue.last_avail_idx = 0
  BY DEF QueueIs
<1> DEFINE z == SetUpQueue(s.queue, DescAt(i), AvailAt(i), UsedAt(i))
           w == [s EXCEPT !.queue = z]
<1>2. s.queue \in QueueRecords
  BY DEF QueueStates
<1>3. DescAt(i) \in Nat \X Nat /\ AvailAt(i) \in Nat \X Nat /\ UsedAt(i) \in Nat \X Nat
  BY DEF DescAt, AvailAt, UsedAt
<1>4. /\ z \in QueueRecords /\ z.size = s.queue.size
      /\ z.last_avail_idx = s.queue.last_avail_idx
      /\ z.desc = DescAt(i) /\ z.avail = AvailAt(i) /\ z.used = UsedAt(i)
  <2>1. z \in QueueRecords
    <3>1. \A q \in QueueRecords, d, a, u \in Nat \X Nat : SetUpQueue(q, d, a, u) \in QueueRecords
      BY ConfigureIs
    <3> QED BY <1>2, <1>3, <3>1
  <2>2. z.size = s.queue.size
    <3>1. \A q \in QueueRecords, d, a, u \in Nat \X Nat : SetUpQueue(q, d, a, u).size = q.size
      BY ConfigureIs
    <3> QED BY <1>2, <1>3, <3>1
  <2>3. z.last_avail_idx = s.queue.last_avail_idx
    <3>1. \A q \in QueueRecords, d, a, u \in Nat \X Nat :
            SetUpQueue(q, d, a, u).last_avail_idx = q.last_avail_idx
      BY ConfigureIs
    <3> QED BY <1>2, <1>3, <3>1
  <2>4. z.desc = DescAt(i)
    <3>1. \A q \in QueueRecords, d, a, u \in Nat \X Nat : SetUpQueue(q, d, a, u).desc = d
      BY ConfigureIs
    <3> QED BY <1>2, <1>3, <3>1
  <2>5. z.avail = AvailAt(i)
    <3>1. \A q \in QueueRecords, d, a, u \in Nat \X Nat : SetUpQueue(q, d, a, u).avail = a
      BY ConfigureIs
    <3> QED BY <1>2, <1>3, <3>1
  <2>6. z.used = UsedAt(i)
    <3>1. \A q \in QueueRecords, d, a, u \in Nat \X Nat : SetUpQueue(q, d, a, u).used = u
      BY ConfigureIs
    <3> QED BY <1>2, <1>3, <3>1
  <2> QED BY <2>1, <2>2, <2>3, <2>4, <2>5, <2>6
<1>5. z.ready
  BY <1>2, <1>3, ConfigureReady
<1>6. MadeReady(s, TRUE) = w
  BY <1>1, Zenon DEF MadeReady, SetUpQueue, DescAt, AvailAt, UsedAt
<1> HIDE DEF z
<1>7. w \in QueueStates /\ w.queue = z /\ w.addr = s.addr
  <2> HIDE DEF QueueRecords
  <2> QED BY <1>4 DEF QueueStates
<1> HIDE DEF w
<1>8. QueueIs(w, i, n, 9)
  <2>1. 9 >= 9
    OBVIOUS
  <2> QED BY <1>1, <1>4, <1>5, <1>7, <2>1, Zenon DEF QueueIs
<1> QED BY <1>6, <1>7, <1>8

-----------------------------------------------------------------------------
(* The script: a prologue of seven writes, nine for each queue, and one.      *)

LEMMA Cat ==
  ASSUME NEW W, NEW u \in Seq(W), NEW w \in Seq(W)
  PROVE  /\ u \o w \in Seq(W) /\ Len(u \o w) = Len(u) + Len(w)
         /\ \A i \in 1..Len(u) : (u \o w)[i] = u[i]
         /\ \A i \in 1..Len(w) : (u \o w)[Len(u) + i] = w[i]
<1>1. /\ u \o w \in Seq(W) /\ Len(u \o w) = Len(u) + Len(w)
      /\ \A i \in 1..(Len(u) + Len(w)) :
           (u \o w)[i] = IF i <= Len(u) THEN u[i] ELSE w[i - Len(u)]
  BY ConcatProperties
<1>2. Len(u) \in Nat /\ Len(w) \in Nat
  BY LenProperties
<1>3. ASSUME NEW i \in 1..Len(w) PROVE (u \o w)[Len(u) + i] = w[i]
  <2>1. Len(u) + i \in 1..(Len(u) + Len(w)) /\ ~(Len(u) + i <= Len(u)) /\ Len(u) + i - Len(u) = i
    BY <1>2
  <2> QED BY <1>1, <2>1
<1> QED BY <1>1, <1>2, <1>3

JoinOf(x, p, u, v, w, e) ==
  /\ Len(x) = Len(p) + Len(u) + Len(v) + Len(w) + Len(e)
  /\ \A i \in 1..Len(p) : x[i] = p[i]
  /\ \A i \in 1..Len(u) : x[Len(p) + i] = u[i]
  /\ \A i \in 1..Len(v) : x[Len(p) + Len(u) + i] = v[i]
  /\ \A i \in 1..Len(w) : x[Len(p) + Len(u) + Len(v) + i] = w[i]
  /\ \A i \in 1..Len(e) : x[Len(p) + Len(u) + Len(v) + Len(w) + i] = e[i]

LEMMA Cat5 ==
  ASSUME NEW W, NEW p \in Seq(W), NEW u \in Seq(W), NEW v \in Seq(W), NEW w \in Seq(W),
         NEW e \in Seq(W), NEW x, x = p \o u \o v \o w \o e
  PROVE  JoinOf(x, p, u, v, w, e)
<1>1. PICK a : a = p \o u
  OBVIOUS
<1>2. /\ a \in Seq(W) /\ Len(a) = Len(p) + Len(u)
      /\ \A i \in 1..Len(p) : a[i] = p[i]
      /\ \A i \in 1..Len(u) : a[Len(p) + i] = u[i]
  BY <1>1, Cat
<1>3. PICK c : c = a \o v
  OBVIOUS
<1>4. /\ c \in Seq(W) /\ Len(c) = Len(a) + Len(v)
      /\ \A i \in 1..Len(a) : c[i] = a[i]
      /\ \A i \in 1..Len(v) : c[Len(a) + i] = v[i]
  <2>1. a \in Seq(W)
    BY <1>2
  <2> QED BY <1>3, <2>1, Cat
<1>5. PICK d : d = c \o w
  OBVIOUS
<1>6. /\ d \in Seq(W) /\ Len(d) = Len(c) + Len(w)
      /\ \A i \in 1..Len(c) : d[i] = c[i]
      /\ \A i \in 1..Len(w) : d[Len(c) + i] = w[i]
  <2>1. c \in Seq(W)
    BY <1>4
  <2> QED BY <1>5, <2>1, Cat
<1>7. x = d \o e
  BY <1>1, <1>3, <1>5
<1>8. /\ Len(x) = Len(d) + Len(e)
      /\ \A i \in 1..Len(d) : x[i] = d[i]
      /\ \A i \in 1..Len(e) : x[Len(d) + i] = e[i]
  <2>1. d \in Seq(W)
    BY <1>6
  <2> QED BY <1>7, <2>1, Cat
<1>10. PICK lp, lu, lv, lw \in Nat : lp = Len(p) /\ lu = Len(u) /\ lv = Len(v) /\ lw = Len(w)
  OBVIOUS
<1>11. Len(a) = lp + lu /\ Len(c) = lp + lu + lv /\ Len(d) = lp + lu + lv + lw
  BY <1>2, <1>4, <1>6, <1>10
<1>12. \A i \in 1..(lp + lu) : x[i] = a[i]
  BY <1>4, <1>6, <1>8, <1>10, <1>11
<1>13. \A i \in 1..lv : x[lp + lu + i] = v[i]
  <2> TAKE i \in 1..lv
  <2>1. lp + lu + i \in 1..(lp + lu + lv) /\ lp + lu + i \in 1..(lp + lu + lv + lw)
    BY <1>10
  <2> QED BY <1>4, <1>6, <1>8, <1>10, <1>11, <2>1
<1>14. \A i \in 1..lw : x[lp + lu + lv + i] = w[i]
  BY <1>6, <1>8, <1>10, <1>11
<1>15. \A i \in 1..lp : x[i] = p[i]
  BY <1>2, <1>10, <1>12
<1>16. \A i \in 1..lu : x[lp + i] = u[i]
  BY <1>2, <1>10, <1>12
<1>17. Len(x) = lp + lu + lv + lw + Len(e)
       /\ \A i \in 1..Len(e) : x[lp + lu + lv + lw + i] = e[i]
  BY <1>8, <1>11
<1> QED BY <1>10, <1>13, <1>14, <1>15, <1>16, <1>17 DEF JoinOf

RegNames == AddrRegs \cup {"STATUS", "DEVICE_FEATURES_SEL", "DRIVER_FEATURES_SEL",
                           "DRIVER_FEATURES", "QUEUE_SEL", "QUEUE_NUM", "QUEUE_READY"}

Writes == RegNames \X Nat

LEMMA SetupQueueSeq ==
  ASSUME NEW i \in Nat, NEW n \in Nat
  PROVE  SetupQueue(i, n) \in Seq(Writes) /\ Len(SetupQueue(i, n)) = 9
<1>1. /\ DescAt(i)[1] = i + 1 /\ DescAt(i)[2] = 1
      /\ AvailAt(i)[1] = i + 1 /\ AvailAt(i)[2] = 2
      /\ UsedAt(i)[1] = i + 1 /\ UsedAt(i)[2] = 3
  BY DEF DescAt, AvailAt, UsedAt
<1>2. \A reg \in RegNames, v \in Nat : <<reg, v>> \in Writes
  BY DEF Writes
<1>3. i + 1 \in Nat /\ 1 \in Nat /\ 2 \in Nat /\ 3 \in Nat
  OBVIOUS
<1> DEFINE w1 == <<"QUEUE_SEL", i>>  w2 == <<"QUEUE_NUM", n>>
           w3 == <<"QUEUE_DESC_LOW", i + 1>>  w4 == <<"QUEUE_DESC_HIGH", 1>>
           w5 == <<"QUEUE_AVAIL_LOW", i + 1>>  w6 == <<"QUEUE_AVAIL_HIGH", 2>>
           w7 == <<"QUEUE_USED_LOW", i + 1>>  w8 == <<"QUEUE_USED_HIGH", 3>>
           w9 == <<"QUEUE_READY", 1>>
<1>4. /\ w1 \in Writes /\ w2 \in Writes /\ w3 \in Writes /\ w4 \in Writes /\ w5 \in Writes
      /\ w6 \in Writes /\ w7 \in Writes /\ w8 \in Writes /\ w9 \in Writes
  <2> HIDE DEF Writes
  <2> QED BY <1>2, <1>3 DEF RegNames, AddrRegs
<1>5. SetupQueue(i, n) = <<w1, w2, w3, w4, w5, w6, w7, w8, w9>>
  BY <1>1 DEF SetupQueue
<1> HIDE DEF w1, w2, w3, w4, w5, w6, w7, w8, w9, Writes
<1> QED BY <1>4, <1>5

OtherWrites == {<<"STATUS", 1>>, <<"STATUS", 3>>, <<"DEVICE_FEATURES_SEL", 1>>,
                <<"DRIVER_FEATURES_SEL", 1>>, <<"DRIVER_FEATURES", 1>>, <<"STATUS", 11>>}

LEMMA ScriptIs ==
  ASSUME NEW k \in {"block", "net", "vsock"}, QueueSize[k] \in Nat
  PROVE  /\ QueueCount(k) \in 1..3
         /\ Len(SetupScript(k)) = 8 + 9 * QueueCount(k)
         /\ SetupScript(k)[1] = <<"STATUS", 0>>
         /\ \A s \in 2..7 : SetupScript(k)[s] \in OtherWrites
         /\ \A i \in 0..(QueueCount(k) - 1), j \in 1..9 :
              SetupScript(k)[7 + 9 * i + j] = SetupQueue(i, QueueSize[k])[j]
         /\ SetupScript(k)[8 + 9 * QueueCount(k)] = <<"STATUS", 15>>
<1> DEFINE n == QueueSize[k]
           p1 == <<"STATUS", 0>>  p2 == <<"STATUS", 1>>  p3 == <<"STATUS", 3>>
           p4 == <<"DEVICE_FEATURES_SEL", 1>>  p5 == <<"DRIVER_FEATURES_SEL", 1>>
           p6 == <<"DRIVER_FEATURES", 1>>  p7 == <<"STATUS", 11>>  p8 == <<"STATUS", 15>>
<1>0. PICK P, E, A0, A1, A2, l1, l2 :
        /\ P = <<p1, p2, p3, p4, p5, p6, p7>> /\ E = <<p8>>
        /\ A0 = SetupQueue(0, n)
        /\ A1 = (IF k \in {"net", "vsock"} THEN SetupQueue(1, n) ELSE <<>>)
        /\ A2 = (IF k = "vsock" THEN SetupQueue(2, n) ELSE <<>>)
        /\ l1 = (IF k \in {"net", "vsock"} THEN 9 ELSE 0)
        /\ l2 = (IF k = "vsock" THEN 9 ELSE 0)
  BY Zenon
<1>1. PICK X : X = SetupScript(k) /\ X = P \o A0 \o A1 \o A2 \o E
  BY <1>0, Zenon DEF SetupScript
<1>2. /\ p1 \in Writes /\ p2 \in Writes /\ p3 \in Writes /\ p4 \in Writes /\ p5 \in Writes
      /\ p6 \in Writes /\ p7 \in Writes /\ p8 \in Writes
  <2>1. \A reg \in RegNames, v \in Nat : <<reg, v>> \in Writes
    BY DEF Writes
  <2>2. 0 \in Nat /\ 1 \in Nat /\ 3 \in Nat /\ 11 \in Nat /\ 15 \in Nat
    OBVIOUS
  <2> HIDE DEF Writes
  <2> QED BY <2>1, <2>2 DEF RegNames
<1>3. p2 \in OtherWrites /\ p3 \in OtherWrites /\ p4 \in OtherWrites /\ p5 \in OtherWrites
      /\ p6 \in OtherWrites /\ p7 \in OtherWrites
  BY DEF OtherWrites
<1>4. QueueCount(k) \in 1..3
  BY DEF QueueCount
<1> HIDE DEF p1, p2, p3, p4, p5, p6, p7, p8, Writes
<1>5. P \in Seq(Writes) /\ Len(P) = 7 /\ P[1] = p1 /\ \A s \in 2..7 : P[s] \in OtherWrites
  BY <1>0, <1>2, <1>3
<1>6. E \in Seq(Writes) /\ Len(E) = 1 /\ E[1] = p8
  BY <1>0, <1>2
<1>7. A0 \in Seq(Writes) /\ Len(A0) = 9
  BY <1>0, SetupQueueSeq
<1>8. A1 \in Seq(Writes) /\ Len(A1) = l1
  <2>1. SetupQueue(1, n) \in Seq(Writes) /\ Len(SetupQueue(1, n)) = 9
    BY SetupQueueSeq
  <2>2. <<>> \in Seq(Writes) /\ Len(<<>>) = 0
    OBVIOUS
  <2>3. CASE k \in {"net", "vsock"}
    BY <1>0, <2>1, <2>3, Zenon
  <2>4. CASE ~(k \in {"net", "vsock"})
    BY <1>0, <2>2, <2>4
  <2> QED BY <2>3, <2>4
<1>9. A2 \in Seq(Writes) /\ Len(A2) = l2
  <2>1. SetupQueue(2, n) \in Seq(Writes) /\ Len(SetupQueue(2, n)) = 9
    BY SetupQueueSeq
  <2>2. <<>> \in Seq(Writes) /\ Len(<<>>) = 0
    OBVIOUS
  <2>3. CASE k = "vsock"
    BY <1>0, <2>1, <2>3, Zenon
  <2>4. CASE ~(k = "vsock")
    BY <1>0, <2>2, <2>4
  <2> QED BY <2>3, <2>4
<1>10. 9 + l1 + l2 = 9 * QueueCount(k)
  BY <1>0 DEF QueueCount
<1>11. /\ 0 <= QueueCount(k) - 1 /\ (1 <= QueueCount(k) - 1 => A1 = SetupQueue(1, n) /\ l1 = 9)
       /\ (2 <= QueueCount(k) - 1 => A2 = SetupQueue(2, n) /\ l1 = 9 /\ l2 = 9)
  BY <1>0 DEF QueueCount
<1>12. l1 \in {0, 9} /\ l2 \in {0, 9}
  BY <1>0
<1>13. /\ Len(X) = 7 + 9 + l1 + l2 + 1
       /\ \A i \in 1..7 : X[i] = P[i]
       /\ \A i \in 1..9 : X[7 + i] = A0[i]
       /\ \A i \in 1..l1 : X[16 + i] = A1[i]
       /\ \A i \in 1..l2 : X[16 + l1 + i] = A2[i]
       /\ X[16 + l1 + l2 + 1] = p8
  <2>1. P \in Seq(Writes) /\ E \in Seq(Writes) /\ A0 \in Seq(Writes) /\ A1 \in Seq(Writes)
        /\ A2 \in Seq(Writes)
    BY <1>5, <1>6, <1>7, <1>8, <1>9
  <2>2. JoinOf(X, P, A0, A1, A2, E)
    BY <1>1, <2>1, Cat5
  <2>3. Len(P) = 7 /\ Len(A0) = 9 /\ Len(A1) = l1 /\ Len(A2) = l2 /\ Len(E) = 1 /\ E[1] = p8
    BY <1>5, <1>6, <1>7, <1>8, <1>9
  <2> QED BY <1>12, <2>2, <2>3 DEF JoinOf
<1>17. Len(X) = 8 + 9 * QueueCount(k) /\ X[8 + 9 * QueueCount(k)] = p8
  <2>1. 16 + l1 + l2 + 1 = 8 + 9 * QueueCount(k)
    BY <1>4, <1>10, <1>12
  <2>2. Len(X) = 16 + l1 + l2 + 1
    BY <1>12, <1>13
  <2> QED BY <1>13, <2>1, <2>2
<1>19. X[1] = p1 /\ \A s \in 2..7 : X[s] \in OtherWrites
  BY <1>5, <1>13
<1>20. \A i \in 0..(QueueCount(k) - 1), j \in 1..9 : X[7 + 9 * i + j] = SetupQueue(i, n)[j]
  <2> TAKE i \in 0..(QueueCount(k) - 1), j \in 1..9
  <2>1. i \in {0, 1, 2} /\ n = n
    BY <1>4
  <2>2. CASE i = 0
    <3>1. 7 + 9 * i + j = 7 + j
      BY <2>2
    <3> QED BY <1>0, <1>13, <2>2, <3>1
  <2>3. CASE i = 1
    <3>1. l1 = 9 /\ A1 = SetupQueue(1, n)
      BY <1>4, <1>11, <2>3
    <3>2. 7 + 9 * i + j = 16 + j /\ j \in 1..l1
      BY <2>3, <3>1
    <3> QED BY <1>13, <2>3, <3>1, <3>2
  <2>4. CASE i = 2
    <3>1. l1 = 9 /\ l2 = 9 /\ A2 = SetupQueue(2, n)
      BY <1>4, <1>11, <2>4
    <3>2. 7 + 9 * i + j = 16 + l1 + j /\ j \in 1..l2
      BY <2>4, <3>1
    <3> QED BY <1>13, <2>4, <3>1, <3>2
  <2> QED BY <2>1, <2>2, <2>3, <2>4
<1> QED BY <1>1, <1>4, <1>17, <1>19, <1>20 DEF p1, p8

\* The transport before the write of number s.
SetUpTo(x, s, k) ==
  /\ x \in Transports(QueueCount(k))
  /\ \A i \in 0..(QueueCount(k) - 1) :
       /\ QueueIs(x.queues[i], i, QueueSize[k], s - 8 - 9 * i)
       /\ s \in (9 + 9 * i)..(17 + 9 * i) => x.queue_sel = i

\* A write that leaves the queues alone, outside the writes for a queue.
LEMMA PlainWrite ==
  ASSUME NEW k, QueueCount(k) \in 1..3, NEW s \in Nat,
         s < 8 \/ s = 8 + 9 * QueueCount(k), NEW x, SetUpTo(x, s, k),
         NEW y \in Transports(QueueCount(k)), y.queues = x.queues
  PROVE  SetUpTo(y, s + 1, k)
<1> SUFFICES ASSUME NEW i \in 0..(QueueCount(k) - 1)
             PROVE  /\ QueueIs(y.queues[i], i, QueueSize[k], s + 1 - 8 - 9 * i)
                    /\ ~(s + 1 \in (9 + 9 * i)..(17 + 9 * i))
  BY DEF SetUpTo
<1> DEFINE p == s - 8 - 9 * i  r == s + 1 - 8 - 9 * i
<1>1. p \in Int /\ r \in Int /\ ((p <= 1 /\ r <= 1) \/ (p >= 9 /\ r >= 9))
  OBVIOUS
<1>2. QueueIs(x.queues[i], i, QueueSize[k], p)
  BY DEF SetUpTo
<1>3. ~(s + 1 \in (9 + 9 * i)..(17 + 9 * i))
  OBVIOUS
<1> HIDE DEF p, r
<1>4. QueueIs(x.queues[i], i, QueueSize[k], r)
  BY <1>1, <1>2, StableIs
<1> QED BY <1>3, <1>4 DEF r

\* The write of number j among those for queue i.
LEMMA QueueWrite ==
  ASSUME NEW k, QueueCount(k) \in 1..3, NEW i \in 0..(QueueCount(k) - 1), NEW j \in 1..9,
         NEW s, s = 7 + 9 * i + j, NEW x, SetUpTo(x, s, k),
         NEW y \in Transports(QueueCount(k)), y.queue_sel = i,
         \A h \in 0..(QueueCount(k) - 1) : h # i => y.queues[h] = x.queues[h],
         QueueIs(y.queues[i], i, QueueSize[k], j)
  PROVE  SetUpTo(y, s + 1, k)
<1>0. s + 1 = 8 + 9 * i + j
  OBVIOUS
<1> SUFFICES ASSUME NEW h \in 0..(QueueCount(k) - 1)
             PROVE  /\ QueueIs(y.queues[h], h, QueueSize[k], s + 1 - 8 - 9 * h)
                    /\ s + 1 \in (9 + 9 * h)..(17 + 9 * h) => y.queue_sel = h
  BY DEF SetUpTo
<1>1. CASE h = i
  <2>1. s + 1 - 8 - 9 * h = j
    BY <1>0, <1>1
  <2> QED BY <1>1, <2>1
<1>2. CASE h # i
  <2> DEFINE p == s - 8 - 9 * h  r == s + 1 - 8 - 9 * h
  <2>1. p \in Int /\ r \in Int /\ ((p <= 1 /\ r <= 1) \/ (p >= 9 /\ r >= 9))
    BY <1>0, <1>2
  <2>2. QueueIs(x.queues[h], h, QueueSize[k], p)
    BY DEF SetUpTo
  <2>3. ~(s + 1 \in (9 + 9 * h)..(17 + 9 * h))
    BY <1>0, <1>2
  <2> HIDE DEF p, r
  <2>4. QueueIs(y.queues[h], h, QueueSize[k], r)
    BY <1>2, <2>1, <2>2, StableIs
  <2> QED BY <2>3, <2>4 DEF r
<1> QED BY <1>1, <1>2

LEMMA SetupQueueIs ==
  ASSUME NEW i \in Nat, NEW n \in Nat
  PROVE  /\ SetupQueue(i, n)[1] = <<"QUEUE_SEL", i>>
         /\ SetupQueue(i, n)[2] = <<"QUEUE_NUM", n>>
         /\ SetupQueue(i, n)[3] = <<"QUEUE_DESC_LOW", i + 1>>
         /\ SetupQueue(i, n)[4] = <<"QUEUE_DESC_HIGH", 1>>
         /\ SetupQueue(i, n)[5] = <<"QUEUE_AVAIL_LOW", i + 1>>
         /\ SetupQueue(i, n)[6] = <<"QUEUE_AVAIL_HIGH", 2>>
         /\ SetupQueue(i, n)[7] = <<"QUEUE_USED_LOW", i + 1>>
         /\ SetupQueue(i, n)[8] = <<"QUEUE_USED_HIGH", 3>>
         /\ SetupQueue(i, n)[9] = <<"QUEUE_READY", 1>>
<1>1. /\ DescAt(i)[1] = i + 1 /\ DescAt(i)[2] = 1
      /\ AvailAt(i)[1] = i + 1 /\ AvailAt(i)[2] = 2
      /\ UsedAt(i)[1] = i + 1 /\ UsedAt(i)[2] = 3
  BY DEF DescAt, AvailAt, UsedAt
<1> QED BY <1>1 DEF SetupQueue

\* A write that changes queue i only, and which is selected.
LEMMA ChangedQueue ==
  ASSUME NEW k, QueueCount(k) \in 1..3, NEW i \in 0..(QueueCount(k) - 1), NEW j \in 1..9,
         NEW s, s = 7 + 9 * i + j, NEW x, SetUpTo(x, s, k), x.queue_sel = i,
         NEW z \in QueueStates, QueueIs(z, i, QueueSize[k], j)
  PROVE  \A y : y = [x EXCEPT !.queues[i] = z] => SetUpTo(y, s + 1, k)
<1>1. x \in Transports(QueueCount(k)) /\ QueueCount(k) \in Nat
  BY DEF SetUpTo
<1>2. ASSUME NEW y, y = [x EXCEPT !.queues[i] = z] PROVE SetUpTo(y, s + 1, k)
  <2>1. /\ y \in Transports(QueueCount(k)) /\ y.queue_sel = x.queue_sel /\ y.queues[i] = z
        /\ \A h \in 0..(QueueCount(k) - 1) : h # i => y.queues[h] = x.queues[h]
    BY <1>1, <1>2, OneQueue
  <2>2. QueueIs(y.queues[i], i, QueueSize[k], j) /\ y.queue_sel = i
    BY <2>1
  <2> QED BY <2>1, <2>2, QueueWrite
<1> QED BY <1>2

\* What the write of number j does to queue i.
LEMMA WriteForQueue ==
  ASSUME NEW k \in {"block", "net", "vsock"}, NEW n \in 1..MAX_QUEUE_SIZE, n = QueueSize[k],
         NEW i \in 0..(QueueCount(k) - 1), NEW j \in 1..9, NEW s, s = 7 + 9 * i + j,
         NEW x, SetUpTo(x, s, k), NEW w, w = SetupQueue(i, n)[j]
  PROVE  SetUpTo(WriteReg(x, w[1], w[2]), s + 1, k)
<1>1. QueueCount(k) \in 1..3 /\ n \in Nat /\ i \in Nat
  BY QueueAssumptions DEF QueueAssumptions, QueueCount
<1>2. x \in Transports(QueueCount(k)) /\ x.queues[i] \in QueueStates
  BY DEF SetUpTo, Transports
<1>3. QueueIs(x.queues[i], i, n, j - 1)
  <2>1. s - 8 - 9 * i = j - 1
    BY <1>1
  <2>2. QueueIs(x.queues[i], i, n, s - 8 - 9 * i)
    BY DEF SetUpTo
  <2> QED BY <2>1, <2>2
<1>4. CASE j = 1
  <2>1. w = <<"QUEUE_SEL", i>>
    BY <1>1, <1>4, SetupQueueIs, Zenon
  <2>2. w[1] = "QUEUE_SEL" /\ w[2] = i
    BY <2>1
  <2>3. PICK y : y = WriteReg(x, "QUEUE_SEL", i)
    OBVIOUS
  <2>4. y \in Transports(QueueCount(k)) /\ y.queues = x.queues /\ y.queue_sel = i
    BY <1>1, <1>2, <2>3, SelReg
  <2>5. QueueIs(y.queues[i], i, n, 1)
    <3>1. QueueIs(x.queues[i], i, n, 0)
      BY <1>3, <1>4
    <3> QED BY <2>4, <3>1, StableIs
  <2>6. SetUpTo(y, s + 1, k)
    BY <1>1, <1>4, <2>4, <2>5, QueueWrite
  <2> QED BY <2>2, <2>3, <2>6
<1>5. CASE j # 1
  <2>1. x.queue_sel = i
    <3>1. s \in (9 + 9 * i)..(17 + 9 * i)
      BY <1>1, <1>5
    <3> QED BY <3>1 DEF SetUpTo
  <2>2. PICK y : y = WriteReg(x, w[1], w[2])
    OBVIOUS
  <2>3. SUFFICES \E z \in QueueStates : y = [x EXCEPT !.queues[i] = z] /\ QueueIs(z, i, n, j)
    <3>1. PICK z \in QueueStates : y = [x EXCEPT !.queues[i] = z] /\ QueueIs(z, i, n, j)
      BY <2>3
    <3>2. QueueIs(z, i, QueueSize[k], j)
      BY <3>1
    <3>3. SetUpTo(y, s + 1, k)
      BY <1>1, <2>1, <3>1, <3>2, ChangedQueue, Zenon
    <3> QED BY <2>2, <3>3, Zenon
  <2>4. CASE j = 2
    <3>1. w = <<"QUEUE_NUM", n>>
      BY <1>1, <2>4, SetupQueueIs, Zenon
    <3>2. w[1] = "QUEUE_NUM" /\ w[2] = n
      BY <3>1
    <3>3. y = [x EXCEPT !.queues[i] = Numbered(x.queues[i], n)]
      <4>1. WriteReg(x, "QUEUE_NUM", n) = [x EXCEPT !.queues[i] = Numbered(x.queues[i], n)]
        BY <2>1, NumReg
      <4> QED BY <2>2, <3>2, <4>1, Zenon
    <3>4. QueueIs(x.queues[i], i, n, 1)
      BY <1>3, <2>4
    <3>5. Numbered(x.queues[i], n) \in QueueStates /\ QueueIs(Numbered(x.queues[i], n), i, n, 2)
      BY <1>1, <1>2, <3>4, NumIs
    <3> QED BY <2>4, <3>3, <3>5
  <2>5. CASE j \in 3..8
    <3>1. PICK p \in 2..7 : p + 1 = j
      BY <2>5
    <3>2. /\ p = 2 => w = <<"QUEUE_DESC_LOW", i + 1>>
          /\ p = 3 => w = <<"QUEUE_DESC_HIGH", 1>>
          /\ p = 4 => w = <<"QUEUE_AVAIL_LOW", i + 1>>
          /\ p = 5 => w = <<"QUEUE_AVAIL_HIGH", 2>>
          /\ p = 6 => w = <<"QUEUE_USED_LOW", i + 1>>
          /\ p = 7 => w = <<"QUEUE_USED_HIGH", 3>>
      <4>1. ASSUME p = 2 PROVE w = <<"QUEUE_DESC_LOW", i + 1>>
        <5>1. j = 3
          BY <3>1, <4>1
        <5>2. SetupQueue(i, n)[3] = <<"QUEUE_DESC_LOW", i + 1>>
          BY <1>1, SetupQueueIs, Zenon
        <5> QED BY <5>1, <5>2, Zenon
      <4>2. ASSUME p = 3 PROVE w = <<"QUEUE_DESC_HIGH", 1>>
        <5>1. j = 4
          BY <3>1, <4>2
        <5>2. SetupQueue(i, n)[4] = <<"QUEUE_DESC_HIGH", 1>>
          BY <1>1, SetupQueueIs, Zenon
        <5> QED BY <5>1, <5>2, Zenon
      <4>3. ASSUME p = 4 PROVE w = <<"QUEUE_AVAIL_LOW", i + 1>>
        <5>1. j = 5
          BY <3>1, <4>3
        <5>2. SetupQueue(i, n)[5] = <<"QUEUE_AVAIL_LOW", i + 1>>
          BY <1>1, SetupQueueIs, Zenon
        <5> QED BY <5>1, <5>2, Zenon
      <4>4. ASSUME p = 5 PROVE w = <<"QUEUE_AVAIL_HIGH", 2>>
        <5>1. j = 6
          BY <3>1, <4>4
        <5>2. SetupQueue(i, n)[6] = <<"QUEUE_AVAIL_HIGH", 2>>
          BY <1>1, SetupQueueIs, Zenon
        <5> QED BY <5>1, <5>2, Zenon
      <4>5. ASSUME p = 6 PROVE w = <<"QUEUE_USED_LOW", i + 1>>
        <5>1. j = 7
          BY <3>1, <4>5
        <5>2. SetupQueue(i, n)[7] = <<"QUEUE_USED_LOW", i + 1>>
          BY <1>1, SetupQueueIs, Zenon
        <5> QED BY <5>1, <5>2, Zenon
      <4>6. ASSUME p = 7 PROVE w = <<"QUEUE_USED_HIGH", 3>>
        <5>1. j = 8
          BY <3>1, <4>6
        <5>2. SetupQueue(i, n)[8] = <<"QUEUE_USED_HIGH", 3>>
          BY <1>1, SetupQueueIs, Zenon
        <5> QED BY <5>1, <5>2, Zenon
      <4> QED BY <4>1, <4>2, <4>3, <4>4, <4>5, <4>6
    <3>3. \A r, u : w = <<r, u>> => w[1] = r /\ w[2] = u
      OBVIOUS
    <3>4. p = 2 \/ p = 3 \/ p = 4 \/ p = 5 \/ p = 6 \/ p = 7
      OBVIOUS
    <3>5. PICK reg, v : reg = w[1] /\ v = w[2]
      OBVIOUS
    <3>6. /\ reg \in AddrRegs /\ v \in Nat
          /\ \/ p = 2 /\ reg = "QUEUE_DESC_LOW" /\ v = i + 1
             \/ p = 3 /\ reg = "QUEUE_DESC_HIGH" /\ v = 1
             \/ p = 4 /\ reg = "QUEUE_AVAIL_LOW" /\ v = i + 1
             \/ p = 5 /\ reg = "QUEUE_AVAIL_HIGH" /\ v = 2
             \/ p = 6 /\ reg = "QUEUE_USED_LOW" /\ v = i + 1
             \/ p = 7 /\ reg = "QUEUE_USED_HIGH" /\ v = 3
      BY <1>1, <3>2, <3>3, <3>4, <3>5 DEF AddrRegs
    <3>7. PICK z : z = [x.queues[i] EXCEPT !.addr[reg] = v]
      OBVIOUS
    <3>8. y = [x EXCEPT !.queues[i] = z]
      <4>1. WriteReg(x, reg, v) = [x EXCEPT !.queues[i] = z]
        BY <2>1, <3>6, <3>7, AddrReg
      <4> QED BY <2>2, <3>5, <4>1, Zenon
    <3>9. QueueIs(x.queues[i], i, n, p)
      BY <1>3, <3>1
    <3>10. z \in QueueStates /\ QueueIs(z, i, n, p + 1)
      BY <1>1, <1>2, <3>1, <3>6, <3>7, <3>9, AddrIs
    <3> QED BY <3>1, <3>8, <3>10
  <2>6. CASE j = 9
    <3>1. w = <<"QUEUE_READY", 1>>
      BY <1>1, <2>6, SetupQueueIs, Zenon
    <3>2. w[1] = "QUEUE_READY" /\ w[2] = 1
      BY <3>1
    <3>3. y = [x EXCEPT !.queues[i] = MadeReady(x.queues[i], TRUE)]
      <4>1. 1 \in Nat /\ 1 # 0
        OBVIOUS
      <4>2. WriteReg(x, "QUEUE_READY", 1) = [x EXCEPT !.queues[i] = MadeReady(x.queues[i], TRUE)]
        BY <2>1, <4>1, ReadyReg, Zenon
      <4> QED BY <2>2, <3>2, <4>2, Zenon
    <3>4. QueueIs(x.queues[i], i, n, 8)
      BY <1>3, <2>6
    <3>5. /\ MadeReady(x.queues[i], TRUE) \in QueueStates
          /\ QueueIs(MadeReady(x.queues[i], TRUE), i, n, 9)
      BY <1>1, <1>2, <3>4, ReadyIs
    <3> QED BY <2>6, <3>3, <3>5
  <2> QED BY <1>5, <2>4, <2>5, <2>6
<1> QED BY <1>4, <1>5

LEMMA WriteStep ==
  ASSUME NEW k \in {"block", "net", "vsock"}, QueueSize[k] \in 1..MAX_QUEUE_SIZE,
         NEW s \in 1..Len(SetupScript(k)), NEW x, SetUpTo(x, s, k),
         NEW w, w = SetupScript(k)[s]
  PROVE  SetUpTo(WriteReg(x, w[1], w[2]), s + 1, k)
<1>1. QueueSize[k] \in Nat
  BY QueueAssumptions DEF QueueAssumptions
<1> DEFINE qc == QueueCount(k)  sc == SetupScript(k)
<1>2. /\ qc \in 1..3 /\ Len(sc) = 8 + 9 * qc /\ sc[1] = <<"STATUS", 0>>
      /\ \A r \in 2..7 : sc[r] \in OtherWrites
      /\ \A i \in 0..(qc - 1), j \in 1..9 : sc[7 + 9 * i + j] = SetupQueue(i, QueueSize[k])[j]
      /\ sc[8 + 9 * qc] = <<"STATUS", 15>>
  BY <1>1, ScriptIs
<1>3. x \in Transports(qc) /\ qc \in Nat
  BY <1>2 DEF SetUpTo
<1> HIDE DEF sc
<1>4. CASE s = 1
  <2>1. w[1] = "STATUS" /\ w[2] = 0
    BY <1>2, <1>4 DEF sc
  <2>2. /\ WriteReg(x, w[1], w[2]) \in Transports(qc)
        /\ \A i \in 0..(qc - 1) : WriteReg(x, w[1], w[2]).queues[i] = NewQueueState
    <3> HIDE DEF qc
    <3> QED BY <1>3, <2>1, ResetType
  <2>3. \A i \in 0..(qc - 1) : QueueIs(NewQueueState, i, QueueSize[k], 2 - 8 - 9 * i)
    <3> TAKE i \in 0..(qc - 1)
    <3>1. 2 - 8 - 9 * i \in Int /\ 2 - 8 - 9 * i <= 1
      OBVIOUS
    <3> QED BY <3>1, NewIs
  <2>4. \A i \in 0..(qc - 1) : ~(2 \in (9 + 9 * i)..(17 + 9 * i))
    OBVIOUS
  <2> QED BY <1>4, <2>2, <2>3, <2>4 DEF SetUpTo
<1>5. CASE s \in 2..7
  <2>1. /\ w[2] \in Nat
        /\ \/ w[1] \in {"DEVICE_FEATURES_SEL", "DRIVER_FEATURES_SEL", "DRIVER_FEATURES",
                        "INTERRUPT_ACK"}
           \/ w[1] = "STATUS" /\ w[2] # 0
    BY <1>2, <1>5, SMTT(30) DEF sc, OtherWrites
  <2>2. /\ WriteReg(x, w[1], w[2]) \in Transports(qc)
        /\ WriteReg(x, w[1], w[2]).queues = x.queues
    <3> HIDE DEF qc
    <3> QED BY <1>3, <2>1, OtherRegs
  <2>3. s \in Nat /\ s < 8
    BY <1>5
  <2> QED BY <1>2, <2>2, <2>3, PlainWrite
<1>6. CASE s = 8 + 9 * qc
  <2>1. w[2] \in Nat /\ w[1] = "STATUS" /\ w[2] # 0
    BY <1>2, <1>6 DEF sc
  <2>2. /\ WriteReg(x, w[1], w[2]) \in Transports(qc)
        /\ WriteReg(x, w[1], w[2]).queues = x.queues
    <3> HIDE DEF qc
    <3> QED BY <1>3, <2>1, OtherRegs
  <2>3. s \in Nat
    BY <1>2, <1>6
  <2> QED BY <1>2, <1>6, <2>2, <2>3, PlainWrite
<1>7. CASE s \in 8..(7 + 9 * qc)
  <2>1. \E i \in 0..(qc - 1), j \in 1..9 : s = 7 + 9 * i + j
    <3>1. s \in Nat /\ qc \in {1, 2, 3}
      BY <1>2, <1>7
    <3>2. CASE s \in 8..16
      <4>1. 0 \in 0..(qc - 1) /\ s - 7 \in 1..9 /\ s = 7 + 9 * 0 + (s - 7)
        BY <1>2, <3>2
      <4> QED BY <4>1
    <3>3. CASE s \in 17..25
      <4>1. 1 \in 0..(qc - 1) /\ s - 16 \in 1..9 /\ s = 7 + 9 * 1 + (s - 16)
        BY <1>2, <1>7, <3>3
      <4> QED BY <4>1
    <3>4. CASE s \in 26..34
      <4>1. 2 \in 0..(qc - 1) /\ s - 25 \in 1..9 /\ s = 7 + 9 * 2 + (s - 25)
        BY <1>2, <1>7, <3>4
      <4> QED BY <4>1
    <3>5. s \in 8..16 \/ s \in 17..25 \/ s \in 26..34
      BY <1>7, <3>1
    <3> QED BY <3>2, <3>3, <3>4, <3>5
  <2>2. PICK i \in 0..(qc - 1), j \in 1..9 : s = 7 + 9 * i + j
    BY <2>1
  <2>3. w = SetupQueue(i, QueueSize[k])[j]
    BY <1>2, <2>2 DEF sc
  <2> QED BY <2>2, <2>3, WriteForQueue
<1>8. s = 1 \/ s \in 2..7 \/ s = 8 + 9 * qc \/ s \in 8..(7 + 9 * qc)
  BY <1>2 DEF sc
<1> QED BY <1>4, <1>5, <1>6, <1>7, <1>8

-----------------------------------------------------------------------------
(* One queue in operation.  c, l and a count the chains that the driver has   *)
(* got back, that the device has returned and that the driver has made        *)
(* available since the set-up; st[u] counts the descriptors of the chains     *)
(* before chain u, and begins with the first that the driver takes.           *)

Counted(n, c, l, a, st) ==
  /\ c <= l /\ l <= a /\ st[a] - st[c] <= n
  /\ \A u, v \in c..a : u < v => st[u] + (v - u) <= st[v]
  /\ \A d \in st[c]..(st[a] - 1) : \E u \in c..(a - 1) : st[u] <= d /\ d < st[u + 1]

ChainAt(n, u, st) == [x \in 1..(st[u + 1] - st[u]) |-> (st[u] + x - 1) % n]

Flying(n, fly, c, a, st) ==
  /\ Len(fly) = a - c
  /\ \A u \in c..(a - 1) : fly[u - c + 1] = ChainAt(n, u, st)

Entries(n, av, us, c, l, a, st) ==
  /\ \A u \in l..(a - 1) : av.ring[u % n] = st[u] % n
  /\ \A u \in c..(l - 1) : us.ring[u % n].id = st[u] % n

Indices(n, q, av, us, seen, alloc, c, l, a, st) ==
  /\ av.idx = a % IdxMod /\ us.idx = l % IdxMod /\ q.last_avail_idx = l % IdxMod
  /\ seen = c % IdxMod /\ alloc = st[a] % n

RingIs(n, q, av, us, fly, seen, alloc, c, l, a, st) ==
  /\ Counted(n, c, l, a, st) /\ Flying(n, fly, c, a, st)
  /\ Entries(n, av, us, c, l, a, st) /\ Indices(n, q, av, us, seen, alloc, c, l, a, st)

\* The size of a queue divides the number of values of an index.
Fits(n) == n < IdxMod /\ \E k \in Nat \ {0} : IdxMod = n * k

LEMMA FitsMod ==
  ASSUME NEW n \in Nat \ {0}, Fits(n), NEW x \in Nat
  PROVE  (x % IdxMod) % n = x % n
<1>1. PICK k \in Nat \ {0} : IdxMod = n * k
  BY DEF Fits
<1>2. IdxMod \in Nat \ {0}
  BY QueueAssumptions DEF QueueAssumptions
<1> QED BY <1>1, <1>2, ModMod

\* The distances between the counters, in terms of the size of the queue.
LEMMA Near ==
  ASSUME NEW n \in Nat \ {0}, NEW c \in Nat, NEW l \in Nat, NEW a \in Nat,
         NEW st \in [Nat -> Nat], Counted(n, c, l, a, st)
  PROVE  /\ a - c <= st[a] - st[c] /\ a - c <= n
         /\ \A u \in c..a : st[u] \in Nat /\ st[c] <= st[u] /\ st[u] <= st[a]
         /\ \A u \in c..(a - 1) : st[u] < st[u + 1] /\ st[u + 1] <= st[a] /\ st[u] < st[a]
<1>1. st[a] \in Nat /\ st[c] \in Nat /\ a \in c..a /\ c \in c..a
  BY DEF Counted
<1>2. a - c <= st[a] - st[c]
  <2>1. CASE c = a
    BY <1>1, <2>1
  <2>2. CASE c # a
    <3>1. c < a
      BY <2>2 DEF Counted
    <3>2. st[c] + (a - c) <= st[a]
      BY <1>1, <3>1 DEF Counted
    <3> QED BY <1>1, <3>2
  <2> QED BY <2>1, <2>2
<1>3. ASSUME NEW u \in c..a PROVE st[u] \in Nat /\ st[c] <= st[u] /\ st[u] <= st[a]
  <2>1. u \in Nat /\ c <= u /\ u <= a /\ st[u] \in Nat
    OBVIOUS
  <2>2. st[c] <= st[u]
    <3>1. CASE c = u
      BY <1>1, <3>1
    <3>2. CASE c < u
      <4>1. st[c] + (u - c) <= st[u]
        BY <1>1, <3>2 DEF Counted
      <4> QED BY <1>1, <2>1, <3>2, <4>1
    <3> QED BY <2>1, <3>1, <3>2
  <2>3. st[u] <= st[a]
    <3>1. CASE a = u
      BY <1>1, <3>1
    <3>2. CASE u < a
      <4>1. st[u] + (a - u) <= st[a]
        BY <1>1, <3>2 DEF Counted
      <4> QED BY <1>1, <2>1, <3>2, <4>1
    <3> QED BY <2>1, <3>1, <3>2
  <2> QED BY <2>1, <2>2, <2>3
<1>4. ASSUME NEW u \in c..(a - 1)
      PROVE  st[u] < st[u + 1] /\ st[u + 1] <= st[a] /\ st[u] < st[a]
  <2>1. u \in c..a /\ u + 1 \in c..a /\ u < u + 1 /\ u + 1 \in Nat
    OBVIOUS
  <2>2. st[u] + (u + 1 - u) <= st[u + 1]
    BY <2>1 DEF Counted
  <2>3. st[u] \in Nat /\ st[u + 1] \in Nat /\ st[u + 1] <= st[a]
    BY <1>3, <2>1
  <2> QED BY <1>1, <2>2, <2>3
<1>5. a - c <= n
  BY <1>1, <1>2 DEF Counted
<1> QED BY <1>2, <1>3, <1>4, <1>5

\* The first descriptor of a chain.
LEMMA HeadOf ==
  ASSUME NEW n \in Nat \ {0}, NEW st \in [Nat -> Nat], NEW u \in Nat, st[u] < st[u + 1]
  PROVE  ChainAt(n, u, st)[1] = st[u] % n
<1>1. 1 \in 1..(st[u + 1] - st[u]) /\ st[u] + 1 - 1 = st[u]
  OBVIOUS
<1> QED BY <1>1 DEF ChainAt

\* A queue that has just been set up.
LEMMA RingNew ==
  ASSUME NEW n \in Nat \ {0}, NEW q, NEW av, NEW us, NEW fly, fly = <<>>,
         NEW alloc, alloc = 1 % n, NEW seen, seen = 0,
         q.last_avail_idx = 0, av.idx = 0, us.idx = 0
  PROVE  RingIs(n, q, av, us, fly, seen, alloc, 0, 0, 0, [u \in Nat |-> 1])
<1> DEFINE st == [u \in Nat |-> 1]
<1>1. st[0] = 1
  OBVIOUS
<1>2. 0 % IdxMod = 0
  <2>1. IdxMod \in Nat \ {0} /\ 0 \in 0..(IdxMod - 1)
    BY QueueAssumptions DEF QueueAssumptions
  <2> QED BY <2>1, ModSmall
<1> HIDE DEF st
<1>3. Counted(n, 0, 0, 0, st)
  BY <1>1 DEF Counted
<1>4. Flying(n, fly, 0, 0, st)
  BY DEF Flying
<1>5. Entries(n, av, us, 0, 0, 0, st)
  BY DEF Entries
<1>6. Indices(n, q, av, us, seen, alloc, 0, 0, 0, st)
  BY <1>1, <1>2 DEF Indices
<1> QED BY <1>3, <1>4, <1>5, <1>6 DEF RingIs, st

\* The device returns the next chain.
Taken(n, q, q2, av, us, us2) ==
  /\ q.last_avail_idx # av.idx
  /\ q2.last_avail_idx = (q.last_avail_idx + 1) % IdxMod
  /\ us2.idx = (us.idx + 1) % IdxMod
  /\ us2.ring[us.idx % n].id = av.ring[q.last_avail_idx % n]
  /\ \A j \in 0..(n - 1) : j # us.idx % n => us2.ring[j] = us.ring[j]

LEMMA RingReturn ==
  ASSUME NEW n \in Nat \ {0}, Fits(n),
         NEW q, NEW av, NEW us, NEW fly, NEW seen, NEW alloc,
         NEW c \in Nat, NEW l \in Nat, NEW a \in Nat, NEW st \in [Nat -> Nat],
         RingIs(n, q, av, us, fly, seen, alloc, c, l, a, st),
         NEW q2, NEW us2, Taken(n, q, q2, av, us, us2)
  PROVE  RingIs(n, q2, av, us2, fly, seen, alloc, c, l + 1, a, st)
<1>0. IdxMod \in Nat \ {0}
  BY QueueAssumptions DEF QueueAssumptions
<1>1. /\ Counted(n, c, l, a, st) /\ Flying(n, fly, c, a, st)
      /\ Entries(n, av, us, c, l, a, st) /\ Indices(n, q, av, us, seen, alloc, c, l, a, st)
  BY DEF RingIs
<1>2. /\ av.idx = a % IdxMod /\ us.idx = l % IdxMod /\ q.last_avail_idx = l % IdxMod
      /\ seen = c % IdxMod /\ alloc = st[a] % n
  BY <1>1 DEF Indices
<1>3. c <= l /\ l < a /\ l + 1 \in Nat
  <2>1. l # a
    BY <1>2 DEF Taken
  <2>2. c <= l /\ l <= a
    BY <1>1 DEF Counted
  <2> QED BY <2>1, <2>2
<1>4. (l % IdxMod) % n = l % n
  BY FitsMod
<1>5. ((l % IdxMod) + 1) % IdxMod = (l + 1) % IdxMod
  BY <1>0, ModAdd
<1>6. Counted(n, c, l + 1, a, st)
  BY <1>1, <1>3 DEF Counted
<1>7. Indices(n, q2, av, us2, seen, alloc, c, l + 1, a, st)
  BY <1>2, <1>5 DEF Indices, Taken
<1>8. av.ring[l % n] = st[l] % n
  <2>1. l \in l..(a - 1)
    BY <1>3
  <2> QED BY <1>1, <2>1 DEF Entries
<1>9. us2.ring[l % n].id = st[l] % n
  BY <1>2, <1>4, <1>8 DEF Taken
<1>10. ASSUME NEW u \in c..(l - 1) PROVE us2.ring[u % n].id = st[u] % n
  <2>0. a - c <= n
    BY <1>1, Near
  <2>1. u \in Nat /\ u < l /\ l - u < n
    BY <1>3, <2>0
  <2>2. u % n # l % n
    BY <2>1, ModDistinct
  <2>3. u % n \in 0..(n - 1)
    BY <2>1, DivMod
  <2>4. us2.ring[u % n] = us.ring[u % n]
    BY <1>2, <1>4, <2>2, <2>3 DEF Taken
  <2> QED BY <1>1, <2>4 DEF Entries
<1>11. Entries(n, av, us2, c, l + 1, a, st)
  <2>1. \A u \in (l + 1)..(a - 1) : av.ring[u % n] = st[u] % n
    BY <1>1 DEF Entries
  <2>2. \A u \in c..(l + 1 - 1) : u = l \/ u \in c..(l - 1)
    OBVIOUS
  <2>3. \A u \in c..(l + 1 - 1) : us2.ring[u % n].id = st[u] % n
    BY <1>9, <1>10, <2>2
  <2> QED BY <2>1, <2>3 DEF Entries
<1> QED BY <1>1, <1>6, <1>7, <1>11 DEF RingIs

\* The driver takes back the chain that was returned first.
SeqOf(fly, S) == fly \in Seq(S)

TakenBack(n, q, av, us, fly, seen, alloc, S, c, l, a, st) ==
  /\ (us.idx - seen + IdxMod) % IdxMod \in Nat \ {0}
  /\ us.ring[(seen + 1 - 1) % n].id = st[c] % n
  /\ Without(fly, st[c] % n) \in Seq(S)
  /\ RingIs(n, q, av, us, Without(fly, st[c] % n), (seen + 1) % IdxMod, alloc, c + 1, l, a, st)

LEMMA RingConsume ==
  ASSUME NEW n \in Nat \ {0}, Fits(n),
         NEW q, NEW av, NEW us, NEW S, NEW fly, SeqOf(fly, S), NEW seen, NEW alloc,
         NEW c \in Nat, NEW l \in Nat, NEW a \in Nat, NEW st \in [Nat -> Nat],
         RingIs(n, q, av, us, fly, seen, alloc, c, l, a, st),
         seen # us.idx
  PROVE  TakenBack(n, q, av, us, fly, seen, alloc, S, c, l, a, st)
<1>0. IdxMod \in Nat \ {0}
  BY QueueAssumptions DEF QueueAssumptions
<1>1. /\ Counted(n, c, l, a, st) /\ Flying(n, fly, c, a, st)
      /\ Entries(n, av, us, c, l, a, st) /\ Indices(n, q, av, us, seen, alloc, c, l, a, st)
  BY DEF RingIs
<1>2. /\ av.idx = a % IdxMod /\ us.idx = l % IdxMod /\ q.last_avail_idx = l % IdxMod
      /\ seen = c % IdxMod /\ alloc = st[a] % n
  BY <1>1 DEF Indices
<1>3. c < l /\ l <= a /\ c < a /\ c + 1 \in Nat
  <2>1. c # l
    BY <1>2
  <2>2. c <= l /\ l <= a
    BY <1>1 DEF Counted
  <2> QED BY <2>1, <2>2
<1>4. a - c <= n /\ st[a] - st[c] <= n /\ st[a] \in Nat /\ st[c] \in Nat
  BY <1>1, Near DEF Counted
<1>5. (c % IdxMod) % n = c % n /\ ((c % IdxMod) + 1) % IdxMod = (c + 1) % IdxMod
  <2>1. (c % IdxMod) % n = c % n
    BY FitsMod
  <2>2. ((c % IdxMod) + 1) % IdxMod = (c + 1) % IdxMod
    BY <1>0, ModAdd
  <2> QED BY <2>1, <2>2
<1>6. (us.idx - seen + IdxMod) % IdxMod = l - c
  <2>0. n < IdxMod
    BY DEF Fits
  <2>1. c <= l /\ l - c < IdxMod
    BY <1>0, <1>3, <1>4, <2>0
  <2>2. ((l % IdxMod) - (c % IdxMod) + IdxMod) % IdxMod = l - c
    BY <1>0, <2>1, ModDist
  <2> QED BY <1>2, <2>2
<1>7. us.ring[(seen + 1 - 1) % n].id = st[c] % n
  <2>1. c % IdxMod \in 0..(IdxMod - 1)
    BY <1>0, DivMod
  <2>2. seen + 1 - 1 = c % IdxMod
    BY <1>0, <1>2, <2>1
  <2>3. c \in c..(l - 1)
    BY <1>3
  <2> QED BY <1>1, <1>5, <2>2, <2>3 DEF Entries
<1>8. Len(fly) = a - c /\ \A u \in c..(a - 1) : fly[u - c + 1] = ChainAt(n, u, st)
  BY <1>1 DEF Flying
<1>9. \A j \in 1..(a - c) : fly[j][1] = st[c + j - 1] % n
  <2> TAKE j \in 1..(a - c)
  <2>1. PICK u \in Nat : u = c + j - 1
    OBVIOUS
  <2>2. u \in c..(a - 1) /\ u - c + 1 = j
    BY <1>3, <2>1
  <2>3. st[u] < st[u + 1]
    BY <1>1, <2>2, Near
  <2>4. fly[j] = ChainAt(n, u, st)
    BY <1>8, <2>2
  <2> QED BY <2>1, <2>3, <2>4, HeadOf
<1> DEFINE head == st[c] % n
           first == CHOOSE j \in DOMAIN fly : fly[j][1] = head
           rest == [j \in 1..(Len(fly) - 1) |-> IF j < first THEN fly[j] ELSE fly[j + 1]]
<1> HIDE DEF head
<1>10. DOMAIN fly = 1..(a - c)
  BY <1>8, LenProperties DEF SeqOf
<1>11. first = 1
  <2>1. 1 \in DOMAIN fly /\ fly[1][1] = head
    <3>1. 1 \in 1..(a - c) /\ c + 1 - 1 = c
      BY <1>3
    <3> QED BY <1>9, <1>10, <3>1 DEF head
  <2>2. ASSUME NEW u \in (c + 1)..(a - 1) PROVE st[c] % n # st[u] % n
    <3>1. u \in c..(a - 1) /\ u \in c..a /\ c \in c..a /\ c < u /\ u \in Nat
      BY <1>3
    <3>2. st[u] < st[a] /\ st[u] \in Nat
      BY <1>1, <3>1, Near
    <3>3. st[c] + (u - c) <= st[u]
      BY <1>1, <3>1 DEF Counted
    <3>4. st[c] < st[u]
      BY <1>4, <3>1, <3>2, <3>3
    <3>5. st[u] - st[c] < n
      BY <1>4, <3>2
    <3> QED BY <1>4, <3>2, <3>4, <3>5, ModDistinct
  <2>3. ASSUME NEW j \in 2..(a - c) PROVE fly[j][1] # head
    <3>1. c + j - 1 \in (c + 1)..(a - 1) /\ j \in 1..(a - c)
      BY <1>3
    <3> QED BY <1>9, <2>2, <3>1 DEF head
  <2>4. \A j \in 1..(a - c) : j = 1 \/ j \in 2..(a - c)
    OBVIOUS
  <2>5. \A j \in DOMAIN fly : fly[j][1] = head => j = 1
    BY <1>10, <2>3, <2>4
  <2> QED BY <2>1, <2>5
<1>12. Without(fly, head) = rest
  BY DEF Without
<1>13. Len(fly) - 1 \in Nat /\ a - c \in Nat
  BY <1>3, <1>8
<1> HIDE DEF first
<1>14. rest = [j \in 1..(Len(fly) - 1) |-> fly[j + 1]]
  BY <1>11, <1>13
<1>15. \A j \in 1..(Len(fly) - 1) : fly[j + 1] \in S
  <2> TAKE j \in 1..(Len(fly) - 1)
  <2>1. j + 1 \in 1..Len(fly)
    BY <1>13
  <2> QED BY <2>1 DEF SeqOf
<1> HIDE DEF rest
<1>16. rest \in Seq(S) /\ Len(rest) = a - c - 1 /\ \A j \in 1..(a - c - 1) : rest[j] = fly[j + 1]
  BY <1>8, <1>13, <1>14, <1>15
<1>17. Flying(n, rest, c + 1, a, st)
  <2>1. Len(rest) = a - (c + 1)
    BY <1>16
  <2>2. ASSUME NEW u \in (c + 1)..(a - 1) PROVE rest[u - (c + 1) + 1] = ChainAt(n, u, st)
    <3>1. u - (c + 1) + 1 \in 1..(a - c - 1) /\ u \in c..(a - 1) /\ u - (c + 1) + 1 + 1 = u - c + 1
      BY <1>3
    <3> QED BY <1>8, <1>16, <3>1
  <2> QED BY <2>1, <2>2 DEF Flying
<1>18. Counted(n, c + 1, l, a, st)
  <2>1. c \in c..(a - 1) /\ c + 1 <= l
    BY <1>3
  <2>2. st[c] < st[c + 1] /\ st[c + 1] \in Nat
    BY <1>1, <1>3, <2>1, Near
  <2>3. st[a] - st[c + 1] <= n
    BY <1>4, <2>2
  <2>4. \A u, v \in (c + 1)..a : u < v => st[u] + (v - u) <= st[v]
    BY <1>1, <1>3 DEF Counted
  <2>5. ASSUME NEW d \in st[c + 1]..(st[a] - 1)
        PROVE  \E u \in (c + 1)..(a - 1) : st[u] <= d /\ d < st[u + 1]
    <3>1. d \in st[c]..(st[a] - 1) /\ d >= st[c + 1]
      BY <1>4, <2>2
    <3>2. PICK u \in c..(a - 1) : st[u] <= d /\ d < st[u + 1]
      BY <1>1, <3>1 DEF Counted
    <3>3. u # c
      BY <2>2, <3>1, <3>2
    <3>4. u \in (c + 1)..(a - 1)
      BY <1>3, <3>3
    <3> QED BY <3>2, <3>4
  <2> QED BY <1>3, <2>1, <2>3, <2>4, <2>5 DEF Counted
<1>19. Entries(n, av, us, c + 1, l, a, st)
  BY <1>1 DEF Entries
<1>20. Indices(n, q, av, us, (seen + 1) % IdxMod, alloc, c + 1, l, a, st)
  BY <1>2, <1>5 DEF Indices
<1>21. RingIs(n, q, av, us, rest, (seen + 1) % IdxMod, alloc, c + 1, l, a, st)
  BY <1>17, <1>18, <1>19, <1>20 DEF RingIs
<1>22. (us.idx - seen + IdxMod) % IdxMod \in Nat \ {0}
  <2>1. l - c \in Nat \ {0}
    BY <1>3
  <2> QED BY <1>6, <2>1
<1> QED BY <1>7, <1>12, <1>16, <1>21, <1>22 DEF head, TakenBack

\* The descriptors of the chains in flight.
Held(fly) == UNION {{ch[j] : j \in DOMAIN ch} : ch \in {fly[x] : x \in DOMAIN fly}}

Dense(fly) == DOMAIN fly = 1..Len(fly)

LEMMA HeldSize ==
  ASSUME NEW n \in Nat \ {0}, NEW fly, NEW c \in Nat, NEW l \in Nat, NEW a \in Nat,
         NEW st \in [Nat -> Nat], Counted(n, c, l, a, st), Flying(n, fly, c, a, st),
         Dense(fly)
  PROVE  Cardinality(Held(fly)) \in Nat /\ st[a] - st[c] <= Cardinality(Held(fly))
<1>1. /\ st[a] - st[c] <= n /\ st[a] \in Nat /\ st[c] \in Nat /\ st[c] <= st[a] /\ c <= a
      /\ \A u \in c..(a - 1) : st[u] < st[u + 1] /\ st[u] \in Nat /\ st[u + 1] \in Nat
  <2>1. c <= a /\ c \in c..a /\ st[a] - st[c] <= n
    BY DEF Counted
  <2>2. \A u \in c..a : st[u] \in Nat /\ st[c] <= st[u] /\ st[u] <= st[a]
    BY Near
  <2>3. \A u \in c..(a - 1) : st[u] < st[u + 1]
    BY Near
  <2>4. \A u \in c..(a - 1) : st[u] \in Nat /\ st[u + 1] \in Nat
    OBVIOUS
  <2> QED BY <2>1, <2>2, <2>3, <2>4
<1>2. Len(fly) = a - c /\ \A u \in c..(a - 1) : fly[u - c + 1] = ChainAt(n, u, st)
  BY DEF Flying
<1>3. DOMAIN fly = 1..(a - c)
  BY <1>2 DEF Dense
<1>4. Held(fly) \subseteq 0..(n - 1)
  <2> SUFFICES ASSUME NEW x \in DOMAIN fly, NEW j \in DOMAIN (fly[x]) PROVE fly[x][j] \in 0..(n - 1)
    BY DEF Held
  <2>1. PICK u \in c..(a - 1) : u - c + 1 = x
    <3>1. x \in 1..(a - c)
      BY <1>3
    <3>2. \A y \in 1..(a - c) : \E u \in c..(a - 1) : u - c + 1 = y
      <4> TAKE y \in 1..(a - c)
      <4> WITNESS y + c - 1 \in c..(a - 1)
      <4> QED OBVIOUS
    <3> QED BY <3>1, <3>2
  <2>2. fly[x] = ChainAt(n, u, st)
    BY <1>2, <2>1
  <2>3. j \in 1..(st[u + 1] - st[u]) /\ fly[x][j] = (st[u] + j - 1) % n
    BY <2>2 DEF ChainAt
  <2>4. PICK x1, y1 \in Nat : x1 = st[u] /\ y1 = st[u + 1]
    BY <1>1
  <2>5. \A z \in 1..(y1 - x1) : x1 + z - 1 \in Nat
    OBVIOUS
  <2>6. st[u] + j - 1 \in Nat
    BY <2>3, <2>4, <2>5
  <2> QED BY <2>3, <2>6, DivMod
<1>5. ASSUME NEW d \in st[c]..(st[a] - 1) PROVE d % n \in Held(fly)
  <2>1. PICK u \in c..(a - 1) : st[u] <= d /\ d < st[u + 1]
    BY DEF Counted
  <2>2. u - c + 1 \in DOMAIN fly /\ fly[u - c + 1] = ChainAt(n, u, st)
    BY <1>1, <1>2, <1>3
  <2>3. d - st[u] + 1 \in 1..(st[u + 1] - st[u]) /\ st[u] + (d - st[u] + 1) - 1 = d
    BY <1>1, <2>1
  <2>4. d - st[u] + 1 \in DOMAIN ChainAt(n, u, st) /\ ChainAt(n, u, st)[d - st[u] + 1] = d % n
    BY <2>3 DEF ChainAt
  <2> QED BY <2>2, <2>4 DEF Held
<1> DEFINE I == st[c]..(st[a] - 1)
           f == [d \in I |-> d % n]
<1>6. f \in Injection(I, Held(fly))
  <2>1. f \in [I -> Held(fly)]
    BY <1>5
  <2>2. ASSUME NEW d \in I, NEW e \in I, d # e PROVE f[d] # f[e]
    <3>1. CASE d < e
      <4>1. d \in Nat /\ e \in Nat /\ e - d < n
        BY <1>1, <3>1
      <4>2. d % n # e % n
        BY <3>1, <4>1, ModDistinct
      <4> QED BY <4>2
    <3>2. CASE e < d
      <4>1. d \in Nat /\ e \in Nat /\ d - e < n
        BY <1>1, <3>2
      <4>2. e % n # d % n
        BY <3>2, <4>1, ModDistinct
      <4> QED BY <4>2
    <3>3. d < e \/ e < d
      BY <1>1, <2>2
    <3> QED BY <3>1, <3>2, <3>3
  <2>3. DOMAIN f = I
    OBVIOUS
  <2> HIDE DEF f, I
  <2>4. IsInjective(f)
    BY <2>2, <2>3 DEF IsInjective
  <2> QED BY <2>1, <2>4 DEF Injection
<1>7. IsFiniteSet(0..(n - 1))
  BY FS_Interval
<1>8. IsFiniteSet(Held(fly))
  BY <1>4, <1>7, FS_Subset
<1> HIDE DEF f
<1>9. Cardinality(I) <= Cardinality(Held(fly))
  BY <1>6, <1>8, FS_Injection
<1>10. Cardinality(I) = st[a] - st[c]
  <2>0. st[c] \in Int /\ st[a] - 1 \in Int
    BY <1>1
  <2>1. Cardinality(I) = IF st[c] > st[a] - 1 THEN 0 ELSE st[a] - 1 - st[c] + 1
    BY <2>0, FS_Interval
  <2> HIDE DEF I
  <2> QED BY <1>1, <2>1
<1>11. Cardinality(Held(fly)) \in Nat
  BY <1>8, FS_CardinalityType
<1> QED BY <1>9, <1>10, <1>11

\* The driver makes a chain of len descriptors available.
Room(n, fly, len) == len <= n - Cardinality(Held(fly))

ChainFrom(n, alloc, len) == [j \in 1..len |-> (alloc + j - 1) % n]

Longer(fly, fly2, ch) ==
  /\ Len(fly2) = Len(fly) + 1 /\ fly2[Len(fly) + 1] = ch
  /\ \A j \in 1..Len(fly) : fly2[j] = fly[j]

Offered(n, av, av2, head) ==
  /\ av2.idx = (av.idx + 1) % IdxMod /\ av2.ring[av.idx % n] = head
  /\ \A j \in 0..(n - 1) : j # av.idx % n => av2.ring[j] = av.ring[j]

LEMMA RingSubmit ==
  ASSUME NEW n \in Nat \ {0}, Fits(n),
         NEW q, NEW av, NEW us, NEW fly, NEW seen, NEW alloc,
         NEW c \in Nat, NEW l \in Nat, NEW a \in Nat, NEW st \in [Nat -> Nat],
         RingIs(n, q, av, us, fly, seen, alloc, c, l, a, st), Dense(fly),
         NEW len \in Nat \ {0}, Room(n, fly, len),
         NEW ch, ch = ChainFrom(n, alloc, len), NEW fly2, Longer(fly, fly2, ch),
         NEW av2, Offered(n, av, av2, ch[1])
  PROVE  \E s2 \in [Nat -> Nat] :
           RingIs(n, q, av2, us, fly2, seen, (alloc + len) % n, c, l, a + 1, s2)
<1>0. IdxMod \in Nat \ {0}
  BY QueueAssumptions DEF QueueAssumptions
<1>1. /\ Counted(n, c, l, a, st) /\ Flying(n, fly, c, a, st)
      /\ Entries(n, av, us, c, l, a, st) /\ Indices(n, q, av, us, seen, alloc, c, l, a, st)
  BY DEF RingIs
<1>2. /\ av.idx = a % IdxMod /\ us.idx = l % IdxMod /\ q.last_avail_idx = l % IdxMod
      /\ seen = c % IdxMod /\ alloc = st[a] % n
  BY <1>1 DEF Indices
<1>3. c <= l /\ l <= a /\ a + 1 \in Nat /\ st[a] \in Nat /\ st[c] \in Nat
  BY <1>1 DEF Counted
<1>4. a - c <= st[a] - st[c] /\ st[a] + len - st[c] <= n /\ st[c] <= st[a]
  <2>1. Cardinality(Held(fly)) \in Nat /\ st[a] - st[c] <= Cardinality(Held(fly))
    BY <1>1, HeldSize
  <2>2. a - c <= st[a] - st[c]
    BY <1>1, Near
  <2>3. PICK h, x, y \in Nat : h = Cardinality(Held(fly)) /\ x = st[a] /\ y = st[c]
    BY <1>3, <2>1
  <2>4. len <= n - h
    BY <2>3 DEF Room
  <2>5. x - y <= h /\ a - c <= x - y
    BY <2>1, <2>2, <2>3
  <2>6. a - c <= x - y /\ x + len - y <= n /\ y <= x
    BY <1>3, <2>3, <2>4, <2>5
  <2> QED BY <2>3, <2>6
<1> DEFINE s2 == [st EXCEPT ![a + 1] = st[a] + len]
<1>5. /\ s2 \in [Nat -> Nat] /\ s2[a + 1] = st[a] + len /\ \A u \in c..a : s2[u] = st[u]
      /\ s2[a] = st[a] /\ s2[c] = st[c]
  BY <1>3
<1> HIDE DEF s2
<1>6. Counted(n, c, l, a + 1, s2)
  <2>1. c <= l /\ l <= a + 1 /\ s2[a + 1] - s2[c] <= n
    BY <1>3, <1>4, <1>5
  <2>2. ASSUME NEW u \in c..(a + 1), NEW v \in c..(a + 1), u < v
        PROVE  s2[u] + (v - u) <= s2[v]
    <3>1. u \in c..a /\ u \in Nat /\ v \in Nat /\ st[u] \in Nat
      BY <2>2
    <3>2. CASE v \in c..a
      BY <1>1, <1>5, <2>2, <3>1, <3>2 DEF Counted
    <3>3. CASE v = a + 1
      <4>1. st[u] + (a - u) <= st[a]
        <5>1. CASE u = a
          BY <1>3, <5>1
        <5>2. CASE u < a
          BY <1>1, <1>3, <3>1, <5>2 DEF Counted
        <5> QED BY <3>1, <5>1, <5>2
      <4>2. s2[u] = st[u] /\ s2[v] = st[a] + len
        BY <1>5, <3>1, <3>3
      <4> QED BY <1>3, <3>1, <3>3, <4>1, <4>2
    <3> QED BY <3>1, <3>2, <3>3
  <2>3. ASSUME NEW d \in s2[c]..(s2[a + 1] - 1)
        PROVE  \E u \in c..a : s2[u] <= d /\ d < s2[u + 1]
    <3>1. d \in Int /\ st[c] <= d /\ d < st[a] + len
      BY <1>3, <1>5
    <3>2. CASE d < st[a]
      <4>1. d \in st[c]..(st[a] - 1)
        BY <1>3, <3>1, <3>2
      <4>2. PICK u \in c..(a - 1) : st[u] <= d /\ d < st[u + 1]
        BY <1>1, <4>1 DEF Counted
      <4>3. u \in c..a /\ u + 1 \in c..a
        OBVIOUS
      <4> QED BY <1>5, <4>2, <4>3
    <3>3. CASE ~(d < st[a])
      <4>1. a \in c..a /\ s2[a] <= d /\ d < s2[a + 1]
        BY <1>3, <1>5, <3>1, <3>3
      <4> QED BY <4>1
    <3> QED BY <3>2, <3>3
  <2>4. a + 1 - 1 = a
    OBVIOUS
  <2> QED BY <2>1, <2>2, <2>3, <2>4 DEF Counted
<1>7. ch = ChainAt(n, a, s2) /\ ch[1] = st[a] % n
  <2>1. s2[a + 1] - s2[a] = len
    BY <1>3, <1>5
  <2>2. ASSUME NEW j \in 1..len PROVE (alloc + j - 1) % n = (s2[a] + j - 1) % n
    <3>0. st[a] % n \in 0..(n - 1)
      BY <1>3, DivMod
    <3>1. j - 1 \in Nat /\ st[a] % n \in Int /\ j \in Int
      BY <3>0
    <3>2. ((st[a] % n) + (j - 1)) % n = (st[a] + (j - 1)) % n
      BY <1>3, <3>1, ModAdd
    <3>3. alloc + j - 1 = (st[a] % n) + (j - 1) /\ s2[a] + j - 1 = st[a] + (j - 1)
      BY <1>2, <1>3, <1>5, <3>1
    <3> QED BY <3>2, <3>3
  <2>3. ch = ChainAt(n, a, s2)
    BY <2>1, <2>2 DEF ChainAt, ChainFrom
  <2>4. s2[a] < s2[a + 1]
    BY <1>3, <1>5
  <2>5. ChainAt(n, a, s2)[1] = s2[a] % n
    BY <1>5, <2>4, HeadOf
  <2> QED BY <1>5, <2>3, <2>5
<1>8. Flying(n, fly2, c, a + 1, s2)
  <2>1. Len(fly) = a - c /\ \A u \in c..(a - 1) : fly[u - c + 1] = ChainAt(n, u, st)
    BY <1>1 DEF Flying
  <2>2. /\ Len(fly2) = Len(fly) + 1 /\ fly2[Len(fly) + 1] = ch
        /\ \A j \in 1..Len(fly) : fly2[j] = fly[j]
    BY DEF Longer
  <2>3. ASSUME NEW u \in c..a PROVE fly2[u - c + 1] = ChainAt(n, u, s2)
    <3>1. CASE u = a
      <4>1. u - c + 1 = Len(fly) + 1
        BY <2>1, <3>1
      <4> QED BY <1>7, <2>2, <3>1, <4>1
    <3>2. CASE u # a
      <4>1. u \in c..(a - 1) /\ u - c + 1 \in 1..Len(fly) /\ u + 1 \in c..a
        BY <1>3, <2>1, <3>2
      <4>2. ChainAt(n, u, s2) = ChainAt(n, u, st)
        BY <1>5, <4>1 DEF ChainAt
      <4> QED BY <2>1, <2>2, <4>1, <4>2
    <3> QED BY <3>1, <3>2
  <2>4. a + 1 - 1 = a /\ a + 1 - c = (a - c) + 1
    OBVIOUS
  <2> QED BY <2>1, <2>2, <2>3, <2>4 DEF Flying
<1>9. Entries(n, av2, us, c, l, a + 1, s2)
  <2>1. (a % IdxMod) % n = a % n
    BY FitsMod
  <2>2. av2.ring[a % n] = st[a] % n
    BY <1>2, <1>7, <2>1 DEF Offered
  <2>3. ASSUME NEW u \in l..(a - 1) PROVE av2.ring[u % n] = s2[u] % n
    <3>1. u \in c..a /\ u \in Nat /\ u < a /\ a - u < n
      BY <1>3, <1>4
    <3>2. u % n # a % n /\ u % n \in 0..(n - 1)
      BY <3>1, ModDistinct, DivMod
    <3>3. av2.ring[u % n] = av.ring[u % n]
      BY <1>2, <2>1, <3>2 DEF Offered
    <3>4. av.ring[u % n] = st[u] % n
      BY <1>1 DEF Entries
    <3> QED BY <1>5, <3>1, <3>3, <3>4
  <2>4. \A u \in l..(a + 1 - 1) : u = a \/ u \in l..(a - 1)
    OBVIOUS
  <2>5. \A u \in l..(a + 1 - 1) : av2.ring[u % n] = s2[u] % n
    BY <1>5, <2>2, <2>3, <2>4
  <2>6. ASSUME NEW u \in c..(l - 1) PROVE us.ring[u % n].id = s2[u] % n
    <3>1. u \in c..a
      BY <1>3
    <3>2. us.ring[u % n].id = st[u] % n
      BY <1>1 DEF Entries
    <3> QED BY <1>5, <3>1, <3>2
  <2> QED BY <2>5, <2>6 DEF Entries
<1>10. Indices(n, q, av2, us, seen, (alloc + len) % n, c, l, a + 1, s2)
  <2>1. ((a % IdxMod) + 1) % IdxMod = (a + 1) % IdxMod
    BY <1>0, ModAdd
  <2>2. ((st[a] % n) + len) % n = (st[a] + len) % n
    BY <1>3, ModAdd
  <2> QED BY <1>2, <1>5, <2>1, <2>2 DEF Indices, Offered
<1>11. RingIs(n, q, av2, us, fly2, seen, (alloc + len) % n, c, l, a + 1, s2)
  BY <1>6, <1>8, <1>9, <1>10 DEF RingIs
<1> QED BY <1>5, <1>11

\* What the rings say about the chains in flight.
Agree(n, q, av, us, fly, seen) ==
  /\ (us.idx - seen + IdxMod) % IdxMod \in Nat
  /\ ((us.idx - seen + IdxMod) % IdxMod)
       + ((av.idx - q.last_avail_idx + IdxMod) % IdxMod) = Len(fly)
  /\ \A j \in 1..((us.idx - seen + IdxMod) % IdxMod) :
       us.ring[(seen + j - 1) % n].id = fly[j][1]

LEMMA RingAgrees ==
  ASSUME NEW n \in Nat \ {0}, Fits(n),
         NEW q, NEW av, NEW us, NEW fly, NEW seen, NEW alloc,
         NEW c \in Nat, NEW l \in Nat, NEW a \in Nat, NEW st \in [Nat -> Nat],
         RingIs(n, q, av, us, fly, seen, alloc, c, l, a, st)
  PROVE  Agree(n, q, av, us, fly, seen)
<1>0. IdxMod \in Nat \ {0} /\ n < IdxMod
  BY QueueAssumptions DEF QueueAssumptions, Fits
<1>1. /\ Counted(n, c, l, a, st) /\ Flying(n, fly, c, a, st)
      /\ Entries(n, av, us, c, l, a, st) /\ Indices(n, q, av, us, seen, alloc, c, l, a, st)
  BY DEF RingIs
<1>2. /\ av.idx = a % IdxMod /\ us.idx = l % IdxMod /\ q.last_avail_idx = l % IdxMod
      /\ seen = c % IdxMod /\ alloc = st[a] % n
  BY <1>1 DEF Indices
<1>3. c <= l /\ l <= a /\ l - c < IdxMod /\ a - l < IdxMod
  <2>1. c <= l /\ l <= a
    BY <1>1 DEF Counted
  <2>2. a - c <= n
    BY <1>1, Near
  <2> QED BY <1>0, <2>1, <2>2
<1>4. (us.idx - seen + IdxMod) % IdxMod = l - c
  <2>1. ((l % IdxMod) - (c % IdxMod) + IdxMod) % IdxMod = l - c
    BY <1>0, <1>3, ModDist
  <2> QED BY <1>2, <2>1
<1>5. (av.idx - q.last_avail_idx + IdxMod) % IdxMod = a - l
  <2>1. ((a % IdxMod) - (l % IdxMod) + IdxMod) % IdxMod = a - l
    BY <1>0, <1>3, ModDist
  <2> QED BY <1>2, <2>1
<1>6. Len(fly) = a - c /\ \A u \in c..(a - 1) : fly[u - c + 1] = ChainAt(n, u, st)
  BY <1>1 DEF Flying
<1>7. ASSUME NEW j \in 1..(l - c) PROVE us.ring[(seen + j - 1) % n].id = fly[j][1]
  <2>1. PICK u \in Nat : u = c + j - 1
    OBVIOUS
  <2>2. u \in c..(l - 1) /\ u \in c..(a - 1) /\ u - c + 1 = j
    BY <1>3, <2>1
  <2>3. fly[j] = ChainAt(n, u, st) /\ st[u] < st[u + 1]
    BY <1>1, <1>6, <2>2, Near
  <2>4. fly[j][1] = st[u] % n
    BY <2>3, HeadOf
  <2>5. us.ring[u % n].id = st[u] % n
    BY <1>1, <2>2 DEF Entries
  <2>6. (seen + j - 1) % n = u % n
    <3>1. c % IdxMod \in 0..(IdxMod - 1) /\ j - 1 \in Nat
      BY <1>0, DivMod
    <3>2. PICK r \in Nat : r = c % IdxMod
      BY <3>1
    <3>3. r % n = c % n
      BY <3>2, FitsMod
    <3>4. (r + (j - 1)) % n = ((r % n) + (j - 1)) % n
      BY <3>1, ModAdd
    <3>5. (c + (j - 1)) % n = ((c % n) + (j - 1)) % n
      BY <3>1, ModAdd
    <3>6. seen + j - 1 = r + (j - 1) /\ u = c + (j - 1)
      BY <1>2, <2>1, <3>2
    <3> QED BY <3>3, <3>4, <3>5, <3>6
  <2> QED BY <2>4, <2>5, <2>6
<1>8. l - c \in Nat /\ (l - c) + (a - l) = Len(fly)
  BY <1>3, <1>6
<1>9. ((us.idx - seen + IdxMod) % IdxMod)
        + ((av.idx - q.last_avail_idx + IdxMod) % IdxMod) = Len(fly)
  BY <1>4, <1>5, <1>8, Zenon
<1>10. \A j \in 1..((us.idx - seen + IdxMod) % IdxMod) : us.ring[(seen + j - 1) % n].id = fly[j][1]
  BY <1>4, <1>7, Zenon
<1>11. (us.idx - seen + IdxMod) % IdxMod \in Nat
  BY <1>4, <1>8, Zenon
<1> QED BY <1>9, <1>10, <1>11, Zenon DEF Agree

-----------------------------------------------------------------------------
(* The state of the device, its queues in guest memory and its driver. *)

QueuesOf(k) == 0..(QueueCount(k) - 1)

IsRing(r, n) ==
  /\ r = [idx |-> r.idx, ring |-> r.ring]
  /\ r.ring = [j \in 0..(n - 1) |-> r.ring[j]]

Memory(k, m) ==
  /\ IsFcn(m)
  /\ \A i \in QueuesOf(k) :
       /\ DescAt(i) \in DOMAIN m /\ AvailAt(i) \in DOMAIN m /\ UsedAt(i) \in DOMAIN m
       /\ IsRing(m[AvailAt(i)], QueueSize[k]) /\ IsRing(m[UsedAt(i)], QueueSize[k])

Drivers(k) ==
  [step : Nat, resets : Nat, uses : SUBSET QueuesOf(k), alloc : [QueuesOf(k) -> Nat],
   inflight : [QueuesOf(k) -> Seq(Seq(Nat))], seen : [QueuesOf(k) -> Nat]]

\* While the driver sets the device up, its rings are as it allocated them.
Blank(k, m, d) ==
  \A i \in QueuesOf(k) :
    /\ m[AvailAt(i)].idx = 0 /\ m[UsedAt(i)].idx = 0
    /\ d.inflight[i] = <<>> /\ d.alloc[i] = 1 % QueueSize[k] /\ d.seen[i] = 0

Placed(i, n, q) ==
  /\ q.size = n /\ q.ready
  /\ q.desc = DescAt(i) /\ q.avail = AvailAt(i) /\ q.used = UsedAt(i)

InRing(n, q, av, us, fly, seen, alloc) ==
  \E c, l, a \in Nat : \E st \in [Nat -> Nat] :
    RingIs(n, q, av, us, fly, seen, alloc, c, l, a, st)

HoldsRing(i, n, q, m, d) ==
  /\ Placed(i, n, q)
  /\ InRing(n, q, m[AvailAt(i)], m[UsedAt(i)], d.inflight[i], d.seen[i], d.alloc[i])

State(k, x, m, d) ==
  /\ k \in Kinds /\ x \in Transports(QueueCount(k)) /\ Memory(k, m) /\ d \in Drivers(k)
  /\ d.step <= Len(SetupScript(k)) =>
       d.step \in 1..Len(SetupScript(k)) /\ SetUpTo(x, d.step, k) /\ Blank(k, m, d)
  /\ d.step > Len(SetupScript(k)) =>
       \A i \in QueuesOf(k) : HoldsRing(i, QueueSize[k], x.queues[i].queue, m, d)

LEMMA Sizes ==
  ASSUME NEW k \in Kinds
  PROVE  /\ k \in {"block", "net", "vsock"}
         /\ QueueSize[k] \in 1..MAX_QUEUE_SIZE /\ QueueSize[k] \in Nat \ {0}
         /\ Fits(QueueSize[k])
         /\ QueueCount(k) \in 1..3 /\ QueueCount(k) \in Nat
         /\ Len(SetupScript(k)) = 8 + 9 * QueueCount(k) /\ Len(SetupScript(k)) \in Nat
<1>1. k \in {"block", "net", "vsock"} /\ QueueSize[k] \in 1..MAX_QUEUE_SIZE
  BY DeviceAssumptions DEF DeviceAssumptions
<1>2. QueueSize[k] \in Nat \ {0}
  BY <1>1, QueueAssumptions DEF QueueAssumptions
<1>3. Fits(QueueSize[k])
  <2>1. QueueSize[k] < IdxMod
    BY <1>1, QueueAssumptions DEF QueueAssumptions
  <2>2. PICK n \in 1..IdxMod : IdxMod = QueueSize[k] * n
    BY DeviceAssumptions DEF DeviceAssumptions
  <2>3. n \in Nat \ {0}
    BY QueueAssumptions DEF QueueAssumptions
  <2> QED BY <2>1, <2>2, <2>3 DEF Fits
<1>4. QueueCount(k) \in 1..3
  BY <1>1 DEF QueueCount
<1>5. Len(SetupScript(k)) = 8 + 9 * QueueCount(k)
  BY <1>1, <1>2, ScriptIs
<1>6. QueueCount(k) \in Nat /\ 8 + 9 * QueueCount(k) \in Nat
  BY <1>4
<1> QED BY <1>1, <1>2, <1>3, <1>4, <1>5, <1>6

LEMMA Addresses ==
  ASSUME NEW i \in Nat
  PROVE  /\ DescAt(i) # AvailAt(i) /\ DescAt(i) # UsedAt(i) /\ AvailAt(i) # UsedAt(i)
         /\ \A j \in Nat : j # i =>
              /\ DescAt(j) # DescAt(i) /\ DescAt(j) # AvailAt(i) /\ DescAt(j) # UsedAt(i)
              /\ AvailAt(j) # DescAt(i) /\ AvailAt(j) # AvailAt(i) /\ AvailAt(j) # UsedAt(i)
              /\ UsedAt(j) # DescAt(i) /\ UsedAt(j) # AvailAt(i) /\ UsedAt(j) # UsedAt(i)
  BY DEF DescAt, AvailAt, UsedAt

\* The driver's rings, as it allocates them.
ContentAt(x, table, av, us) == CASE x[2] = 1 -> table [] x[2] = 2 -> av [] x[2] = 3 -> us

LEMMA FreshMemoryIs ==
  ASSUME NEW k \in Kinds
  PROVE  /\ Memory(k, FreshMemory(k))
         /\ \A i \in QueuesOf(k) : /\ FreshMemory(k)[AvailAt(i)].idx = 0
                                   /\ FreshMemory(k)[UsedAt(i)].idx = 0
<1> DEFINE n == QueueSize[k]
           D == {DescAt(i) : i \in QueuesOf(k)} \cup {AvailAt(i) : i \in QueuesOf(k)}
                  \cup {UsedAt(i) : i \in QueuesOf(k)}
           none == [id |-> 0, len |-> 0]
           e1 == [i \in 0..(n - 1) |-> NoBuffer]
           e2 == EmptyRing(n, 0)
           e3 == EmptyRing(n, none)
           m == [x \in D |-> ContentAt(x, e1, e2, e3)]
<1>1. FreshMemory(k) = m
  BY Zenon DEF FreshMemory, QueuesOf, ContentAt
<1>2. IsRing(e2, n) /\ e2.idx = 0
  BY DEF EmptyRing, IsRing
<1>3. IsRing(e3, n) /\ e3.idx = 0
  <2> HIDE DEF none
  <2> QED BY DEF EmptyRing, IsRing
<1> HIDE DEF e1, e2, e3
<1>4. ASSUME NEW i \in QueuesOf(k)
      PROVE  /\ DescAt(i) \in D /\ AvailAt(i) \in D /\ UsedAt(i) \in D
             /\ AvailAt(i)[2] = 2 /\ UsedAt(i)[2] = 3
  <2>1. DescAt(i) \in D /\ AvailAt(i) \in D /\ UsedAt(i) \in D
    OBVIOUS
  <2>2. AvailAt(i)[2] = 2 /\ UsedAt(i)[2] = 3
    BY DEF AvailAt, UsedAt
  <2> QED BY <2>1, <2>2
<1> HIDE DEF D
<1>5. ASSUME NEW i \in QueuesOf(k) PROVE m[AvailAt(i)] = e2 /\ m[UsedAt(i)] = e3
  BY <1>4 DEF ContentAt
<1>6. DOMAIN m = D /\ IsFcn(m)
  BY DEF IsFcn
<1> HIDE DEF m
<1> QED BY <1>1, <1>2, <1>3, <1>4, <1>5, <1>6 DEF Memory

\* A device that has been reset, and a driver that starts.
LEMMA FreshState ==
  ASSUME NEW k \in Kinds, NEW x \in Transports(QueueCount(k)),
         \A i \in QueuesOf(k) : x.queues[i] = NewQueueState,
         NEW uses \in SUBSET QueuesOf(k), NEW r \in Nat
  PROVE  State(k, x, FreshMemory(k), FreshDriver(k, uses, r))
<1>1. QueueCount(k) \in 1..3 /\ Len(SetupScript(k)) = 8 + 9 * QueueCount(k)
      /\ QueueSize[k] \in Nat \ {0}
  BY Sizes
<1>2. 1 % QueueSize[k] \in Nat
  <2>1. 1 % QueueSize[k] \in 0..(QueueSize[k] - 1)
    BY <1>1, DivMod
  <2> QED BY <1>1, <2>1
<1> DEFINE d == FreshDriver(k, uses, r)
<1>3. /\ d \in Drivers(k) /\ d.step = 1
      /\ \A i \in QueuesOf(k) : /\ d.inflight[i] = <<>> /\ d.seen[i] = 0
                                /\ d.alloc[i] = 1 % QueueSize[k]
  <2>1. PICK f1, f2, f3 : /\ f1 = [i \in QueuesOf(k) |-> 1 % QueueSize[k]]
                          /\ f2 = [i \in QueuesOf(k) |-> <<>>]
                          /\ f3 = [i \in QueuesOf(k) |-> 0]
    BY Zenon
  <2>2. f1 \in [QueuesOf(k) -> Nat] /\ \A i \in QueuesOf(k) : f1[i] = 1 % QueueSize[k]
    BY <1>2, <2>1
  <2>3. f2 \in [QueuesOf(k) -> Seq(Seq(Nat))] /\ \A i \in QueuesOf(k) : f2[i] = <<>>
    <3>1. <<>> \in Seq(Seq(Nat))
      OBVIOUS
    <3> QED BY <2>1, <3>1
  <2>4. f3 \in [QueuesOf(k) -> Nat] /\ \A i \in QueuesOf(k) : f3[i] = 0
    BY <2>1
  <2>5. d = [step |-> 1, resets |-> r, uses |-> uses, alloc |-> f1, inflight |-> f2, seen |-> f3]
    BY <2>1, Zenon DEF FreshDriver, QueuesOf
  <2> HIDE DEF d, QueuesOf
  <2> QED BY <2>2, <2>3, <2>4, <2>5 DEF Drivers
<1>4. SetUpTo(x, 1, k)
  <2>1. \A i \in 0..(QueueCount(k) - 1) : QueueIs(x.queues[i], i, QueueSize[k], 1 - 8 - 9 * i)
    <3> TAKE i \in 0..(QueueCount(k) - 1)
    <3>1. 1 - 8 - 9 * i \in Int /\ 1 - 8 - 9 * i <= 1 /\ x.queues[i] = NewQueueState
      BY <1>1 DEF QueuesOf
    <3> QED BY <3>1, NewIs
  <2>2. \A i \in 0..(QueueCount(k) - 1) : ~(1 \in (9 + 9 * i)..(17 + 9 * i))
    BY <1>1
  <2> QED BY <2>1, <2>2 DEF SetUpTo
<1>5. Blank(k, FreshMemory(k), d)
  BY <1>3, FreshMemoryIs DEF Blank
<1>6. d.step \in 1..Len(SetupScript(k)) /\ ~(d.step > Len(SetupScript(k)))
  BY <1>1, <1>3
<1> HIDE DEF d
<1>7. State(k, x, FreshMemory(k), d)
  BY <1>3, <1>4, <1>5, <1>6, FreshMemoryIs DEF State
<1> QED BY <1>7 DEF d

-----------------------------------------------------------------------------
(* The steps, on such a state. *)

\* A step that leaves the queues, memory and the driver alone.
LEMMA SameQueues ==
  ASSUME NEW k, NEW x, NEW m, NEW d, State(k, x, m, d),
         NEW x2 \in Transports(QueueCount(k)), x2.queues = x.queues, x2.queue_sel = x.queue_sel
  PROVE  State(k, x2, m, d)
<1>1. \A s : SetUpTo(x, s, k) => SetUpTo(x2, s, k)
  BY DEF SetUpTo
<1> QED BY <1>1 DEF State

LEMMA RaiseIs ==
  ASSUME NEW n, NEW x \in Transports(n)
  PROVE  /\ Raise(x) \in Transports(n)
         /\ Raise(x).queues = x.queues /\ Raise(x).queue_sel = x.queue_sel
<1> HIDE DEF QueueStates
<1> QED BY DEF Raise, Transports

LEMMA ChangedStep ==
  ASSUME NEW k, NEW d \in Drivers(k), NEW v \in Nat, NEW d2, d2 = [d EXCEPT !.step = v]
  PROVE  /\ d2 \in Drivers(k) /\ d2.step = v /\ d2.inflight = d.inflight
         /\ d2.alloc = d.alloc /\ d2.seen = d.seen
<1> HIDE DEF QueuesOf
<1> QED BY DEF Drivers

\* A register write of the set-up; after the last one the rings are in operation.
LEMMA SetupStep ==
  ASSUME NEW k, NEW x, NEW m, NEW d, State(k, x, m, d), d.step <= Len(SetupScript(k)),
         NEW w, w = SetupScript(k)[d.step], NEW y, y = WriteReg(x, w[1], w[2]),
         NEW d2, d2 = [d EXCEPT !.step = @ + 1]
  PROVE  State(k, y, m, d2)
<1>1. /\ k \in Kinds /\ Memory(k, m) /\ d \in Drivers(k) /\ d.step \in 1..Len(SetupScript(k))
      /\ SetUpTo(x, d.step, k) /\ Blank(k, m, d)
  BY DEF State
<1>2. /\ k \in {"block", "net", "vsock"} /\ QueueSize[k] \in 1..MAX_QUEUE_SIZE
      /\ QueueSize[k] \in Nat \ {0} /\ QueueCount(k) \in 1..3
      /\ Len(SetupScript(k)) = 8 + 9 * QueueCount(k) /\ Len(SetupScript(k)) \in Nat
  BY <1>1, Sizes
<1>3. PICK s \in Nat : s = d.step /\ s \in 1..Len(SetupScript(k))
  BY <1>1, <1>2
<1>4. SetUpTo(y, s + 1, k)
  BY <1>1, <1>2, <1>3, WriteStep
<1>5. y \in Transports(QueueCount(k))
  BY <1>4 DEF SetUpTo
<1>6. /\ d2 \in Drivers(k) /\ d2.step = s + 1 /\ d2.inflight = d.inflight
      /\ d2.alloc = d.alloc /\ d2.seen = d.seen
  <2>1. s + 1 \in Nat /\ d2 = [d EXCEPT !.step = s + 1]
    BY <1>3
  <2> QED BY <1>1, <2>1, ChangedStep
<1>7. Blank(k, m, d2)
  BY <1>1, <1>6 DEF Blank
<1>8. CASE s + 1 <= Len(SetupScript(k))
  <2>1. s + 1 \in 1..Len(SetupScript(k)) /\ ~(s + 1 > Len(SetupScript(k)))
    BY <1>2, <1>3, <1>8
  <2> QED BY <1>1, <1>4, <1>5, <1>6, <1>7, <2>1 DEF State
<1>9. CASE ~(s + 1 <= Len(SetupScript(k)))
  <2>1. s = 8 + 9 * QueueCount(k) /\ s + 1 > Len(SetupScript(k))
    BY <1>2, <1>3, <1>9
  <2>2. ASSUME NEW i \in QueuesOf(k)
        PROVE  HoldsRing(i, QueueSize[k], y.queues[i].queue, m, d2)
    <3>1. PICK p \in Int : p = s + 1 - 8 - 9 * i /\ p >= 9
      <4>1. i \in Nat /\ QueueCount(k) \in Nat /\ i + 1 <= QueueCount(k)
        BY <1>2, <2>2 DEF QueuesOf
      <4>2. s + 1 - 8 - 9 * i \in Int /\ s + 1 - 8 - 9 * i >= 9
        BY <2>1, <4>1, SMTT(30)
      <4> QED BY <4>2
    <3>2. QueueIs(y.queues[i], i, QueueSize[k], p)
      BY <1>4, <3>1 DEF SetUpTo, QueuesOf
    <3>3. p >= 2
      BY <3>1
    <3>4. Placed(i, QueueSize[k], y.queues[i].queue) /\ y.queues[i].queue.last_avail_idx = 0
      BY <3>1, <3>2, <3>3, Zenon DEF QueueIs, Placed
    <3>5. /\ m[AvailAt(i)].idx = 0 /\ m[UsedAt(i)].idx = 0
          /\ d2.inflight[i] = <<>> /\ d2.alloc[i] = 1 % QueueSize[k] /\ d2.seen[i] = 0
      BY <1>7 DEF Blank
    <3>6. RingIs(QueueSize[k], y.queues[i].queue, m[AvailAt(i)], m[UsedAt(i)], d2.inflight[i],
                 d2.seen[i], d2.alloc[i], 0, 0, 0, [u \in Nat |-> 1])
      BY <1>2, <3>4, <3>5, RingNew
    <3>7. 0 \in Nat /\ [u \in Nat |-> 1] \in [Nat -> Nat]
      OBVIOUS
    <3>8. InRing(QueueSize[k], y.queues[i].queue, m[AvailAt(i)], m[UsedAt(i)], d2.inflight[i],
                 d2.seen[i], d2.alloc[i])
      BY <3>6, <3>7, Zenon DEF InRing
    <3> QED BY <3>4, <3>8 DEF HoldsRing
  <2> QED BY <1>1, <1>5, <1>6, <1>9, <2>1, <2>2 DEF State
<1> QED BY <1>8, <1>9

\* An entry and the index of a ring are written.
Written(m, m2, x, n, j, e, v) ==
  /\ IsFcn(m2) /\ DOMAIN m2 = DOMAIN m /\ \A y \in DOMAIN m : y # x => m2[y] = m[y]
  /\ IsRing(m2[x], n) /\ m2[x].idx = v /\ m2[x].ring[j] = e
  /\ \A h \in 0..(n - 1) : h # j => m2[x].ring[h] = m[x].ring[h]

LEMMA RingWrite ==
  ASSUME NEW n, NEW m, IsFcn(m), NEW x \in DOMAIN m, IsRing(m[x], n),
         NEW j \in 0..(n - 1), NEW e, NEW v,
         NEW m2, m2 = [m EXCEPT ![x].ring[j] = e, ![x].idx = v]
  PROVE  Written(m, m2, x, n, j, e, v)
<1>1. PICK r, g : r = m[x] /\ g = m[x].ring
  OBVIOUS
<1>2. r = [idx |-> r.idx, ring |-> g] /\ g = [h \in 0..(n - 1) |-> g[h]]
  BY <1>1 DEF IsRing
<1>3. PICK g2 : g2 = [g EXCEPT ![j] = e]
  OBVIOUS
<1>4. PICK r2 : r2 = [idx |-> v, ring |-> g2]
  OBVIOUS
<1>5. r2 = [r EXCEPT !.ring[j] = e, !.idx = v]
  <2>1. PICK o : r = [idx |-> o, ring |-> g]
    BY <1>2
  <2>2. PICK r1 : r1 = [r EXCEPT !.ring = g2]
    OBVIOUS
  <2>3. r1 = [idx |-> o, ring |-> g2]
    BY <2>1, <2>2
  <2>4. r.ring = g
    BY <2>1
  <2>5. r1 = [r EXCEPT !.ring[j] = e]
    BY <1>3, <2>2, <2>4
  <2>6. r2 = [r1 EXCEPT !.idx = v]
    BY <1>4, <2>3
  <2> QED BY <2>5, <2>6
<1>6. m2 = [m EXCEPT ![x] = r2]
  BY <1>1, <1>5 DEF IsFcn
<1>7. /\ IsFcn(m2) /\ DOMAIN m2 = DOMAIN m /\ \A y \in DOMAIN m : y # x => m2[y] = m[y]
      /\ m2[x] = r2
  BY <1>6 DEF IsFcn
<1>8. /\ g2 = [h \in 0..(n - 1) |-> g2[h]] /\ g2[j] = e
      /\ \A h \in 0..(n - 1) : h # j => g2[h] = g[h]
  BY <1>2, <1>3
<1>9. r2.idx = v /\ r2.ring = g2 /\ r2 = [idx |-> r2.idx, ring |-> r2.ring]
  BY <1>4
<1>10. IsRing(r2, n)
  BY <1>8, <1>9 DEF IsRing
<1> QED BY <1>1, <1>7, <1>8, <1>9, <1>10 DEF Written

LEMMA PoppedIs ==
  ASSUME NEW q \in QueueRecords, NEW p, p = Popped(q)
  PROVE  /\ p \in QueueRecords /\ p.size = q.size /\ (p.ready <=> q.ready)
         /\ p.desc = q.desc /\ p.avail = q.avail /\ p.used = q.used
         /\ p.last_avail_idx = (q.last_avail_idx + 1) % IdxMod
<1>1. PICK v : v = (q.last_avail_idx + 1) % IdxMod
  OBVIOUS
<1>2. v \in Nat
  <2>1. IdxMod \in Nat \ {0} /\ q.last_avail_idx + 1 \in Nat
    BY QueueAssumptions DEF QueueAssumptions, QueueRecords
  <2>2. v \in 0..(IdxMod - 1)
    BY <1>1, <2>1, DivMod
  <2> QED BY <2>1, <2>2
<1>3. p = [q EXCEPT !.last_avail_idx = v]
  BY <1>1 DEF Popped
<1>4. p \in QueueRecords /\ p.last_avail_idx = v
  BY <1>2, <1>3 DEF QueueRecords
<1>5. p.size = q.size /\ p.desc = q.desc /\ p.avail = q.avail /\ p.used = q.used
  BY <1>3 DEF QueueRecords
<1>6. p.ready <=> q.ready
  BY <1>3 DEF QueueRecords
<1> QED BY <1>1, <1>4, <1>5, <1>6

Advanced(n, x, y, i) ==
  /\ y \in Transports(n) /\ y.queues[i].queue = Popped(x.queues[i].queue)
  /\ \A j \in 0..(n - 1) : j # i => y.queues[j] = x.queues[j]

LEMMA PoppedQueue ==
  ASSUME NEW n \in Nat, NEW x \in Transports(n), NEW i \in 0..(n - 1),
         NEW y, y = [x EXCEPT !.queues[i].queue = Popped(x.queues[i].queue)]
  PROVE  Advanced(n, x, y, i)
<1>1. x.queues[i] \in QueueStates
  BY DEF Transports
<1>2. PICK p : p = Popped(x.queues[i].queue)
  OBVIOUS
<1>3. p \in QueueRecords
  <2>1. x.queues[i].queue \in QueueRecords
    BY <1>1 DEF QueueStates
  <2> QED BY <1>2, <2>1, PoppedIs
<1>4. PICK z : z = [x.queues[i] EXCEPT !.queue = p]
  OBVIOUS
<1>5. z \in QueueStates /\ z.queue = p
  <2> HIDE DEF QueueRecords
  <2> QED BY <1>1, <1>3, <1>4 DEF QueueStates
<1>6. y = [x EXCEPT !.queues[i] = z]
  BY <1>2, <1>4
<1>7. /\ [x EXCEPT !.queues[i] = z] \in Transports(n)
      /\ [x EXCEPT !.queues[i] = z].queues[i] = z
      /\ \A j \in 0..(n - 1) : j # i => [x EXCEPT !.queues[i] = z].queues[j] = x.queues[j]
  BY <1>5, OneQueue
<1> QED BY <1>2, <1>5, <1>6, <1>7 DEF Advanced

\* While the driver sets the device up there is nothing to take.
LEMMA LiveWithChain ==
  ASSUME NEW k, NEW x, NEW m, NEW d, State(k, x, m, d), NEW i \in QueuesOf(k),
         HasChain(x.queues[i].queue, m)
  PROVE  d.step > Len(SetupScript(k))
<1> SUFFICES ASSUME ~(d.step > Len(SetupScript(k))) PROVE FALSE
  OBVIOUS
<1>1. d.step \in Nat /\ k \in Kinds
  BY DEF State, Drivers
<1>2. Len(SetupScript(k)) \in Nat
  BY <1>1, Sizes
<1>3. SetUpTo(x, d.step, k) /\ Blank(k, m, d)
  BY <1>1, <1>2 DEF State
<1>4. PICK p : QueueIs(x.queues[i], i, QueueSize[k], p)
  BY <1>3 DEF SetUpTo, QueuesOf
<1>5. x.queues[i].queue.ready /\ x.queues[i].queue.last_avail_idx # m[x.queues[i].queue.avail].idx
  BY DEF HasChain
<1>6. x.queues[i].queue.avail = AvailAt(i) /\ x.queues[i].queue.last_avail_idx = 0
  BY <1>4, <1>5, Zenon DEF QueueIs
<1>7. m[AvailAt(i)].idx = 0
  BY <1>3 DEF Blank
<1> QED BY <1>5, <1>6, <1>7

\* A queue of which neither the rings nor what the driver notes change.
LEMMA OtherRing ==
  ASSUME NEW j, NEW n, NEW q, NEW m, NEW d, HoldsRing(j, n, q, m, d),
         NEW m2, m2[AvailAt(j)] = m[AvailAt(j)], m2[UsedAt(j)] = m[UsedAt(j)],
         NEW d2, d2.inflight[j] = d.inflight[j], d2.seen[j] = d.seen[j], d2.alloc[j] = d.alloc[j]
  PROVE  HoldsRing(j, n, q, m2, d2)
  BY DEF HoldsRing

\* An entry is put into the used ring of queue i.
Pushed(i, n, q, m, m1, m2, w) ==
  /\ IsFcn(m2) /\ DOMAIN m2 = DOMAIN m
  /\ \A z \in DOMAIN m : z # UsedAt(i) => m2[z] = m1[z]
  /\ IsRing(m2[UsedAt(i)], n)
  /\ Taken(n, q, Popped(q), m[AvailAt(i)], m[UsedAt(i)], m2[UsedAt(i)])
  /\ m2[UsedAt(i)].ring[m[UsedAt(i)].idx % n] = [id |-> HeadIndex(q, m), len |-> w]

LEMMA PushStep ==
  ASSUME NEW k, NEW x, NEW m, NEW d, State(k, x, m, d), NEW i \in QueuesOf(k),
         NEW n, n = QueueSize[k], NEW q, q = x.queues[i].queue, HasChain(q, m),
         NEW m1, SameBut(q.desc, m, m1),
         NEW w, NEW m2, m2 = PushUsed(q, m1, HeadIndex(q, m), w)
  PROVE  Placed(i, n, q) /\ Placed(i, n, Popped(q)) /\ Pushed(i, n, q, m, m1, m2, w)
<1>1. /\ k \in Kinds /\ Memory(k, m) /\ d \in Drivers(k) /\ x \in Transports(QueueCount(k))
  BY DEF State
<1>2. QueueSize[k] \in Nat \ {0} /\ Fits(QueueSize[k]) /\ Len(SetupScript(k)) \in Nat
      /\ QueueCount(k) \in Nat
  BY <1>1, Sizes
<1>3. d.step > Len(SetupScript(k)) /\ ~(d.step <= Len(SetupScript(k)))
  <2>1. d.step > Len(SetupScript(k)) /\ d.step \in Nat
    BY <1>1, LiveWithChain DEF Drivers
  <2> QED BY <1>2, <2>1
<1>4. \A j \in QueuesOf(k) : HoldsRing(j, QueueSize[k], x.queues[j].queue, m, d)
  BY <1>3 DEF State
<1>5. /\ Placed(i, n, q)
      /\ InRing(n, q, m[AvailAt(i)], m[UsedAt(i)], d.inflight[i], d.seen[i], d.alloc[i])
  BY <1>4 DEF HoldsRing
<1>6. PICK c, l, a \in Nat : \E st \in [Nat -> Nat] :
        RingIs(n, q, m[AvailAt(i)], m[UsedAt(i)], d.inflight[i], d.seen[i], d.alloc[i], c, l, a, st)
  BY <1>5, Zenon DEF InRing
<1>7. PICK st \in [Nat -> Nat] :
        RingIs(n, q, m[AvailAt(i)], m[UsedAt(i)], d.inflight[i], d.seen[i], d.alloc[i], c, l, a, st)
  BY <1>6, Zenon
<1>8. /\ q.size = n /\ q.desc = DescAt(i) /\ q.avail = AvailAt(i) /\ q.used = UsedAt(i)
  BY <1>5 DEF Placed
<1>9. \A j \in QueuesOf(k) : j \in Nat
  BY <1>2 DEF QueuesOf
<1>10. /\ IsFcn(m1) /\ DOMAIN m1 = DOMAIN m
       /\ \A z \in DOMAIN m : z # DescAt(i) => m1[z] = m[z]
  BY <1>8 DEF SameBut
<1>11. PICK av, us : av = m[AvailAt(i)] /\ us = m[UsedAt(i)]
  OBVIOUS
<1>12. \A j \in QueuesOf(k) :
         /\ DescAt(j) \in DOMAIN m /\ AvailAt(j) \in DOMAIN m /\ UsedAt(j) \in DOMAIN m
         /\ m1[AvailAt(j)] = m[AvailAt(j)] /\ m1[UsedAt(j)] = m[UsedAt(j)]
         /\ IsRing(m[AvailAt(j)], n) /\ IsRing(m[UsedAt(j)], n)
         /\ AvailAt(j) # UsedAt(i) /\ (j # i => UsedAt(j) # UsedAt(i))
  <2> TAKE j \in QueuesOf(k)
  <2>1. AvailAt(j) # DescAt(i) /\ UsedAt(j) # DescAt(i) /\ AvailAt(j) # UsedAt(i)
        /\ (j # i => UsedAt(j) # UsedAt(i))
    BY <1>9, Addresses
  <2> QED BY <1>1, <1>10, <2>1 DEF Memory
<1>13. q.last_avail_idx = l % IdxMod /\ us.idx = l % IdxMod
  BY <1>7, <1>11 DEF RingIs, Indices
<1>14. PICK f \in 0..(n - 1) : f = us.idx % n
  <2>1. IdxMod \in Nat \ {0}
    BY QueueAssumptions DEF QueueAssumptions
  <2>2. l % IdxMod \in Nat
    <3>1. l % IdxMod \in 0..(IdxMod - 1)
      BY <2>1, DivMod
    <3> QED BY <2>1, <3>1
  <2>3. (l % IdxMod) % n \in 0..(n - 1)
    BY <1>2, <2>2, DivMod
  <2> QED BY <1>13, <2>3
<1>15. PICK e : e = [id |-> av.ring[q.last_avail_idx % n], len |-> w]
  OBVIOUS
<1>16. PICK v : v = (us.idx + 1) % IdxMod
  OBVIOUS
<1>17. m2 = [m1 EXCEPT ![UsedAt(i)].ring[f] = e, ![UsedAt(i)].idx = v]
  <2>1. q.used \in DOMAIN m1 /\ m1[q.used] = us
    BY <1>8, <1>10, <1>11, <1>12
  <2>2. HeadIndex(q, m) = av.ring[q.last_avail_idx % n]
    BY <1>8, <1>11 DEF HeadIndex
  <2>3. m2 = [m1 EXCEPT ![q.used].ring[us.idx % q.size] = [id |-> HeadIndex(q, m), len |-> w],
                        ![q.used].idx = (us.idx + 1) % IdxMod]
    BY <2>1, Zenon DEF PushUsed
  <2> QED BY <1>8, <1>14, <1>15, <1>16, <2>2, <2>3, Zenon
<1>18. /\ IsFcn(m2) /\ DOMAIN m2 = DOMAIN m
       /\ \A z \in DOMAIN m : z # UsedAt(i) => m2[z] = m1[z]
       /\ IsRing(m2[UsedAt(i)], n) /\ m2[UsedAt(i)].idx = v /\ m2[UsedAt(i)].ring[f] = e
       /\ \A h \in 0..(n - 1) : h # f => m2[UsedAt(i)].ring[h] = us.ring[h]
  <2>1. UsedAt(i) \in DOMAIN m1 /\ IsRing(m1[UsedAt(i)], n) /\ m1[UsedAt(i)] = us
    BY <1>10, <1>11, <1>12
  <2>2. Written(m1, m2, UsedAt(i), n, f, e, v)
    BY <1>10, <1>17, <2>1, RingWrite
  <2> QED BY <1>10, <2>1, <2>2, Zenon DEF Written
<1>19. PICK q2 : q2 = Popped(q)
  OBVIOUS
<1>20. /\ q2.size = q.size /\ (q2.ready <=> q.ready) /\ q2.desc = q.desc
       /\ q2.avail = q.avail /\ q2.used = q.used
       /\ q2.last_avail_idx = (q.last_avail_idx + 1) % IdxMod
  <2>1. q \in QueueRecords
    BY <1>1 DEF Transports, QueueStates, QueuesOf
  <2> QED BY <1>19, <2>1, PoppedIs
<1>21. Placed(i, n, q2)
  BY <1>5, <1>20 DEF Placed
<1>22. PICK us2 : us2 = m2[UsedAt(i)]
  OBVIOUS
<1>23. Taken(n, q, q2, av, us, us2)
  <2>1. q.last_avail_idx # av.idx
    BY <1>8, <1>11 DEF HasChain
  <2>2. e.id = av.ring[q.last_avail_idx % n]
    BY <1>15
  <2> QED BY <1>14, <1>16, <1>18, <1>20, <1>22, <2>1, <2>2 DEF Taken
<1>24. m2[UsedAt(i)].ring[m[UsedAt(i)].idx % n] = [id |-> HeadIndex(q, m), len |-> w]
  <2>1. HeadIndex(q, m) = av.ring[q.last_avail_idx % n]
    BY <1>8, <1>11 DEF HeadIndex
  <2> QED BY <1>11, <1>14, <1>15, <1>18, <2>1, Zenon
<1> QED BY <1>5, <1>11, <1>18, <1>19, <1>21, <1>22, <1>23, <1>24, Zenon DEF Pushed

\* The device returns a chain, having written into its buffers.
LEMMA ReturnStep ==
  ASSUME NEW k, NEW x, NEW m, NEW d, State(k, x, m, d), NEW i \in QueuesOf(k),
         NEW q, q = x.queues[i].queue, HasChain(q, m), NEW m1, SameBut(q.desc, m, m1),
         NEW y, Advanced(QueueCount(k), x, y, i),
         NEW w, NEW m2, m2 = PushUsed(q, m1, HeadIndex(q, m), w)
  PROVE  State(k, y, m2, d)
<1>0. /\ y \in Transports(QueueCount(k)) /\ y.queues[i].queue = Popped(q)
      /\ \A j \in QueuesOf(k) : j # i => y.queues[j] = x.queues[j]
  BY DEF Advanced, QueuesOf
<1>1. /\ k \in Kinds /\ Memory(k, m) /\ d \in Drivers(k) /\ x \in Transports(QueueCount(k))
  BY DEF State
<1>2. QueueSize[k] \in Nat \ {0} /\ Fits(QueueSize[k]) /\ Len(SetupScript(k)) \in Nat
      /\ QueueCount(k) \in Nat
  BY <1>1, Sizes
<1>3. d.step > Len(SetupScript(k)) /\ ~(d.step <= Len(SetupScript(k)))
  <2>1. d.step > Len(SetupScript(k)) /\ d.step \in Nat
    BY <1>1, LiveWithChain DEF Drivers
  <2> QED BY <1>2, <2>1
<1>4. \A j \in QueuesOf(k) : HoldsRing(j, QueueSize[k], x.queues[j].queue, m, d)
  BY <1>3 DEF State
<1>5. PICK n : n = QueueSize[k]
  OBVIOUS
<1>6. /\ Placed(i, n, q)
      /\ InRing(n, q, m[AvailAt(i)], m[UsedAt(i)], d.inflight[i], d.seen[i], d.alloc[i])
  BY <1>4, <1>5 DEF HoldsRing
<1>7. PICK c, l, a \in Nat : \E st \in [Nat -> Nat] :
        RingIs(n, q, m[AvailAt(i)], m[UsedAt(i)], d.inflight[i], d.seen[i], d.alloc[i], c, l, a, st)
  BY <1>6, Zenon DEF InRing
<1>8. PICK st \in [Nat -> Nat] :
        RingIs(n, q, m[AvailAt(i)], m[UsedAt(i)], d.inflight[i], d.seen[i], d.alloc[i], c, l, a, st)
  BY <1>7, Zenon
<1>9. /\ q.size = n /\ q.desc = DescAt(i) /\ q.avail = AvailAt(i) /\ q.used = UsedAt(i)
  BY <1>6 DEF Placed
<1>10. \A j \in QueuesOf(k) : j \in Nat
  BY <1>2 DEF QueuesOf
<1>11. /\ IsFcn(m1) /\ DOMAIN m1 = DOMAIN m
       /\ \A z \in DOMAIN m : z # DescAt(i) => m1[z] = m[z]
  BY <1>9 DEF SameBut
<1>12. PICK av, us : av = m[AvailAt(i)] /\ us = m[UsedAt(i)]
  OBVIOUS
<1>13. \A j \in QueuesOf(k) :
         /\ DescAt(j) \in DOMAIN m /\ AvailAt(j) \in DOMAIN m /\ UsedAt(j) \in DOMAIN m
         /\ m1[AvailAt(j)] = m[AvailAt(j)] /\ m1[UsedAt(j)] = m[UsedAt(j)]
         /\ IsRing(m[AvailAt(j)], n) /\ IsRing(m[UsedAt(j)], n)
         /\ AvailAt(j) # UsedAt(i) /\ (j # i => UsedAt(j) # UsedAt(i))
  <2> TAKE j \in QueuesOf(k)
  <2>1. AvailAt(j) # DescAt(i) /\ UsedAt(j) # DescAt(i) /\ AvailAt(j) # UsedAt(i)
        /\ (j # i => UsedAt(j) # UsedAt(i))
    BY <1>10, Addresses
  <2> QED BY <1>1, <1>5, <1>11, <2>1 DEF Memory
<1>14. Placed(i, n, Popped(q)) /\ Pushed(i, n, q, m, m1, m2, w)
  BY <1>5, PushStep
<1>15. /\ IsFcn(m2) /\ DOMAIN m2 = DOMAIN m
       /\ \A z \in DOMAIN m : z # UsedAt(i) => m2[z] = m1[z]
       /\ IsRing(m2[UsedAt(i)], n)
  BY <1>14 DEF Pushed
<1>16. Memory(k, m2)
  BY <1>5, <1>13, <1>15 DEF Memory
<1>17. PICK q2, us2 : q2 = Popped(q) /\ us2 = m2[UsedAt(i)]
  BY Zenon
<1>18. Placed(i, n, q2) /\ Taken(n, q, q2, av, us, us2)
  BY <1>12, <1>14, <1>17, Zenon DEF Pushed
<1>19. RingIs(n, q2, av, us2, d.inflight[i], d.seen[i], d.alloc[i], c, l + 1, a, st)
  <2>1. RingIs(n, q, av, us, d.inflight[i], d.seen[i], d.alloc[i], c, l, a, st)
    BY <1>8, <1>12
  <2>2. n \in Nat \ {0} /\ Fits(n)
    BY <1>2, <1>5, Zenon
  <2> QED BY <1>18, <2>1, <2>2, RingReturn
<1>20. HoldsRing(i, n, q2, m2, d)
  <2>1. m2[AvailAt(i)] = av
    BY <1>12, <1>13, <1>15
  <2>2. l + 1 \in Nat
    OBVIOUS
  <2>3. InRing(n, q2, m2[AvailAt(i)], m2[UsedAt(i)], d.inflight[i], d.seen[i], d.alloc[i])
    BY <1>17, <1>19, <2>1, <2>2, Zenon DEF InRing
  <2> QED BY <1>18, <2>3 DEF HoldsRing
<1>21. ASSUME NEW j \in QueuesOf(k) PROVE HoldsRing(j, n, y.queues[j].queue, m2, d)
  <2>1. CASE j = i
    BY <1>0, <1>17, <1>20, <2>1
  <2>2. CASE j # i
    <3>1. m2[AvailAt(j)] = m[AvailAt(j)] /\ m2[UsedAt(j)] = m[UsedAt(j)]
      BY <1>13, <1>15, <2>2
    <3>2. HoldsRing(j, n, y.queues[j].queue, m, d)
      BY <1>0, <1>4, <1>5, <2>2
    <3> QED BY <3>1, <3>2, OtherRing
  <2> QED BY <2>1, <2>2
<1> QED BY <1>0, <1>1, <1>3, <1>5, <1>16, <1>21 DEF State

\* What the driver notes for one queue.
DriverAt(k, d, d2, i, fly, seen, alloc) ==
  /\ d2 \in Drivers(k) /\ d2.step = d.step
  /\ d2.inflight[i] = fly /\ d2.seen[i] = seen /\ d2.alloc[i] = alloc
  /\ \A j \in QueuesOf(k) : j # i => /\ d2.inflight[j] = d.inflight[j]
                                     /\ d2.alloc[j] = d.alloc[j] /\ d2.seen[j] = d.seen[j]

LEMMA NotedSubmit ==
  ASSUME NEW k, NEW d \in Drivers(k), NEW i \in QueuesOf(k), NEW fly \in Seq(Seq(Nat)),
         NEW p \in Nat, NEW d2, d2 = [d EXCEPT !.inflight[i] = fly, !.alloc[i] = p]
  PROVE  DriverAt(k, d, d2, i, fly, d.seen[i], p)
<1>1. PICK Q0, S : Q0 = QueuesOf(k) /\ S = Seq(Seq(Nat))
  OBVIOUS
<1>2. d \in [step : Nat, resets : Nat, uses : SUBSET Q0, alloc : [Q0 -> Nat],
             inflight : [Q0 -> S], seen : [Q0 -> Nat]] /\ fly \in S /\ i \in Q0
  BY <1>1 DEF Drivers
<1>3. /\ d2 \in [step : Nat, resets : Nat, uses : SUBSET Q0, alloc : [Q0 -> Nat],
                 inflight : [Q0 -> S], seen : [Q0 -> Nat]]
      /\ d2.step = d.step
  BY <1>2
<1>4. /\ d2.inflight[i] = fly /\ d2.alloc[i] = p /\ d2.seen[i] = d.seen[i]
      /\ \A j \in Q0 : j # i => /\ d2.inflight[j] = d.inflight[j]
                                /\ d2.alloc[j] = d.alloc[j] /\ d2.seen[j] = d.seen[j]
  BY <1>2
<1> QED BY <1>1, <1>3, <1>4 DEF Drivers, DriverAt

LEMMA NotedConsume ==
  ASSUME NEW k, NEW d \in Drivers(k), NEW i \in QueuesOf(k), NEW fly \in Seq(Seq(Nat)),
         NEW p \in Nat, NEW d2, d2 = [d EXCEPT !.seen[i] = p, !.inflight[i] = fly]
  PROVE  DriverAt(k, d, d2, i, fly, p, d.alloc[i])
<1>1. PICK Q0, S : Q0 = QueuesOf(k) /\ S = Seq(Seq(Nat))
  OBVIOUS
<1>2. d \in [step : Nat, resets : Nat, uses : SUBSET Q0, alloc : [Q0 -> Nat],
             inflight : [Q0 -> S], seen : [Q0 -> Nat]] /\ fly \in S /\ i \in Q0
  BY <1>1 DEF Drivers
<1>3. /\ d2 \in [step : Nat, resets : Nat, uses : SUBSET Q0, alloc : [Q0 -> Nat],
                 inflight : [Q0 -> S], seen : [Q0 -> Nat]]
      /\ d2.step = d.step
  BY <1>2
<1>4. /\ d2.inflight[i] = fly /\ d2.seen[i] = p /\ d2.alloc[i] = d.alloc[i]
      /\ \A j \in Q0 : j # i => /\ d2.inflight[j] = d.inflight[j]
                                /\ d2.alloc[j] = d.alloc[j] /\ d2.seen[j] = d.seen[j]
  BY <1>2
<1> QED BY <1>1, <1>3, <1>4 DEF Drivers, DriverAt

LEMMA ChainFromType ==
  ASSUME NEW n \in Nat \ {0}, NEW p \in Nat, NEW len \in Nat \ {0}
  PROVE  ChainFrom(n, p, len) \in Seq(Nat)
<1>1. ASSUME NEW j \in 1..len PROVE (p + j - 1) % n \in Nat
  <2>1. p + j - 1 \in Nat
    OBVIOUS
  <2>2. (p + j - 1) % n \in 0..(n - 1)
    BY <2>1, DivMod
  <2> QED BY <2>2
<1> QED BY <1>1 DEF ChainFrom

LEMMA AppendLonger ==
  ASSUME NEW S, NEW fly \in Seq(S), NEW ch \in S
  PROVE  Append(fly, ch) \in Seq(S) /\ Longer(fly, Append(fly, ch), ch) /\ Dense(fly)
<1>1. Append(fly, ch) \in Seq(S) /\ Longer(fly, Append(fly, ch), ch)
  BY AppendProperties DEF Longer
<1>2. Dense(fly)
  BY LenProperties DEF Dense
<1> QED BY <1>1, <1>2

\* The driver puts a chain into its table and into the available ring.
PutAvail(m, m2, i, n, table, head) ==
  m2 = [m EXCEPT ![DescAt(i)] = table, ![AvailAt(i)].ring[m[AvailAt(i)].idx % n] = head,
                 ![AvailAt(i)].idx = (m[AvailAt(i)].idx + 1) % IdxMod]

Noted(d, d2, i, n, ch, len) ==
  d2 = [d EXCEPT !.inflight[i] = Append(@, ch), !.alloc[i] = (@ + len) % n]

LEMMA SubmitStep ==
  ASSUME NEW k, NEW x, NEW m, NEW d, State(k, x, m, d), d.step > Len(SetupScript(k)),
         NEW i \in QueuesOf(k), NEW n, n = QueueSize[k], NEW len \in Nat \ {0},
         Room(n, d.inflight[i], len), NEW ch, ch = ChainFrom(n, d.alloc[i], len),
         NEW table, NEW m2, PutAvail(m, m2, i, n, table, ch[1]),
         NEW d2, Noted(d, d2, i, n, ch, len)
  PROVE  State(k, x, m2, d2)
<1>1. k \in Kinds /\ Memory(k, m) /\ d \in Drivers(k) /\ x \in Transports(QueueCount(k))
  BY DEF State
<1>2. QueueSize[k] \in Nat \ {0} /\ Fits(QueueSize[k]) /\ Len(SetupScript(k)) \in Nat
      /\ QueueCount(k) \in Nat
  BY <1>1, Sizes
<1>3. d.step > Len(SetupScript(k)) /\ ~(d.step <= Len(SetupScript(k)))
  <2>1. d.step \in Nat
    BY <1>1 DEF Drivers
  <2> QED BY <1>2, <2>1
<1>4. \A j \in QueuesOf(k) : HoldsRing(j, n, x.queues[j].queue, m, d)
  BY <1>3 DEF State
<1>5. n \in Nat \ {0} /\ Fits(n)
  BY <1>2
<1>6. PICK q, av, us, fly, seen, alloc :
        /\ q = x.queues[i].queue /\ av = m[AvailAt(i)] /\ us = m[UsedAt(i)] /\ fly = d.inflight[i]
        /\ seen = d.seen[i] /\ alloc = d.alloc[i]
  BY Zenon
<1>7. Placed(i, n, q) /\ InRing(n, q, av, us, fly, seen, alloc)
  BY <1>4, <1>6 DEF HoldsRing
<1>8. PICK c, l, a \in Nat : \E st \in [Nat -> Nat] :
        RingIs(n, q, av, us, fly, seen, alloc, c, l, a, st)
  BY <1>7, Zenon DEF InRing
<1>9. PICK st \in [Nat -> Nat] : RingIs(n, q, av, us, fly, seen, alloc, c, l, a, st)
  BY <1>8, Zenon
<1>10. \A j \in QueuesOf(k) : j \in Nat
  BY <1>2 DEF QueuesOf
<1>11. fly \in Seq(Seq(Nat)) /\ alloc \in Nat
  BY <1>1, <1>6 DEF Drivers
<1>12. ch \in Seq(Nat)
  BY <1>5, <1>6, <1>11, ChainFromType
<1>13. PICK fly2 : fly2 = Append(fly, ch)
  OBVIOUS
<1>14. fly2 \in Seq(Seq(Nat)) /\ Longer(fly, fly2, ch) /\ Dense(fly)
  BY <1>11, <1>12, <1>13, AppendLonger
<1>15. PICK p : p = (alloc + len) % n
  OBVIOUS
<1>16. p \in Nat
  <2>0. alloc \in Nat
    BY <1>11
  <2>1. alloc + len \in Nat
    BY <2>0
  <2>2. p \in 0..(n - 1)
    BY <1>5, <1>15, <2>1, DivMod
  <2> QED BY <1>5, <2>2
<1>17. /\ d2 \in Drivers(k) /\ d2.step = d.step
       /\ d2.inflight[i] = fly2 /\ d2.alloc[i] = p /\ d2.seen[i] = seen
       /\ \A j \in QueuesOf(k) : j # i => /\ d2.inflight[j] = d.inflight[j]
                                          /\ d2.alloc[j] = d.alloc[j] /\ d2.seen[j] = d.seen[j]
  <2>1. d2 = [d EXCEPT !.inflight[i] = fly2, !.alloc[i] = p]
    BY <1>6, <1>13, <1>15, Zenon DEF Noted
  <2>2. fly2 \in Seq(Seq(Nat))
    BY <1>14
  <2>3. DriverAt(k, d, d2, i, fly2, d.seen[i], p)
    BY <1>1, <1>16, <2>1, <2>2, NotedSubmit
  <2> QED BY <1>6, <2>3, Zenon DEF DriverAt
<1>18. PICK m1 : m1 = [m EXCEPT ![DescAt(i)] = table]
  OBVIOUS
<1>19. PICK f \in 0..(n - 1) : f = av.idx % n
  <2>1. IdxMod \in Nat \ {0}
    BY QueueAssumptions DEF QueueAssumptions
  <2>2. av.idx = a % IdxMod
    BY <1>9 DEF RingIs, Indices
  <2>3. a % IdxMod \in Nat
    <3>1. a % IdxMod \in 0..(IdxMod - 1)
      BY <2>1, DivMod
    <3> QED BY <2>1, <3>1
  <2>4. (a % IdxMod) % n \in 0..(n - 1)
    BY <1>5, <2>3, DivMod
  <2> QED BY <2>2, <2>4
<1>20. PICK v, e : v = (av.idx + 1) % IdxMod /\ e = ch[1]
  OBVIOUS
<1>21. m2 = [m1 EXCEPT ![AvailAt(i)].ring[f] = e, ![AvailAt(i)].idx = v]
  BY <1>6, <1>18, <1>19, <1>20, Zenon DEF PutAvail
<1>22. IsFcn(m1) /\ DOMAIN m1 = DOMAIN m /\ \A z \in DOMAIN m : z # DescAt(i) => m1[z] = m[z]
  BY <1>1, <1>18 DEF Memory, IsFcn
<1>23. \A j \in QueuesOf(k) :
         /\ DescAt(j) \in DOMAIN m /\ AvailAt(j) \in DOMAIN m /\ UsedAt(j) \in DOMAIN m
         /\ m1[AvailAt(j)] = m[AvailAt(j)] /\ m1[UsedAt(j)] = m[UsedAt(j)]
         /\ IsRing(m[AvailAt(j)], n) /\ IsRing(m[UsedAt(j)], n)
         /\ UsedAt(j) # AvailAt(i) /\ (j # i => AvailAt(j) # AvailAt(i))
  <2> TAKE j \in QueuesOf(k)
  <2>1. AvailAt(j) # DescAt(i) /\ UsedAt(j) # DescAt(i) /\ UsedAt(j) # AvailAt(i)
        /\ (j # i => AvailAt(j) # AvailAt(i))
    BY <1>10, Addresses
  <2> QED BY <1>1, <1>22, <2>1 DEF Memory
<1>24. Written(m1, m2, AvailAt(i), n, f, e, v)
  <2>1. AvailAt(i) \in DOMAIN m1 /\ IsRing(m1[AvailAt(i)], n)
    BY <1>22, <1>23
  <2> QED BY <1>21, <1>22, <2>1, RingWrite
<1>25. /\ IsFcn(m2) /\ DOMAIN m2 = DOMAIN m
       /\ \A z \in DOMAIN m : z # AvailAt(i) => m2[z] = m1[z]
       /\ IsRing(m2[AvailAt(i)], n) /\ m2[AvailAt(i)].idx = v /\ m2[AvailAt(i)].ring[f] = e
       /\ \A h \in 0..(n - 1) : h # f => m2[AvailAt(i)].ring[h] = av.ring[h]
  BY <1>6, <1>22, <1>23, <1>24, Zenon DEF Written
<1>26. Memory(k, m2)
  BY <1>23, <1>25 DEF Memory
<1>27. PICK av2 : av2 = m2[AvailAt(i)]
  OBVIOUS
<1>28. Offered(n, av, av2, ch[1])
  BY <1>19, <1>20, <1>25, <1>27, Zenon DEF Offered
<1>29. \E s2 \in [Nat -> Nat] :
         RingIs(n, q, av2, us, fly2, seen, (alloc + len) % n, c, l, a + 1, s2)
  <2>1. Room(n, fly, len) /\ ch = ChainFrom(n, alloc, len)
    BY <1>6
  <2> QED BY <1>5, <1>9, <1>14, <1>28, <2>1, RingSubmit
<1>30. HoldsRing(i, n, q, m2, d2)
  <2>1. m2[UsedAt(i)] = us
    BY <1>6, <1>23, <1>25
  <2>2. a + 1 \in Nat
    OBVIOUS
  <2>3. InRing(n, q, av2, us, fly2, seen, p)
    BY <1>15, <1>29, <2>2, Zenon DEF InRing
  <2> QED BY <1>7, <1>17, <1>27, <2>1, <2>3 DEF HoldsRing
<1>31. ASSUME NEW j \in QueuesOf(k) PROVE HoldsRing(j, n, x.queues[j].queue, m2, d2)
  <2>1. CASE j = i
    BY <1>6, <1>30, <2>1
  <2>2. CASE j # i
    <3>1. m2[AvailAt(j)] = m[AvailAt(j)] /\ m2[UsedAt(j)] = m[UsedAt(j)]
      BY <1>23, <1>25, <2>2
    <3>2. HoldsRing(j, n, x.queues[j].queue, m, d)
      BY <1>4
    <3>3. d2.inflight[j] = d.inflight[j] /\ d2.alloc[j] = d.alloc[j] /\ d2.seen[j] = d.seen[j]
      BY <1>17, <2>2
    <3> QED BY <3>1, <3>2, <3>3, OtherRing
  <2> QED BY <2>1, <2>2
<1> QED BY <1>1, <1>3, <1>17, <1>26, <1>31 DEF State

\* The driver takes the next entry of the used ring.
FirstUnseen(us, seen, n) ==
  [j \in 1..((us.idx - seen + IdxMod) % IdxMod) |-> us.ring[(seen + j - 1) % n]][1]

NotedBack(d, d2, i, id) ==
  d2 = [d EXCEPT !.seen[i] = (@ + 1) % IdxMod, !.inflight[i] = Without(@, id)]

LEMMA ConsumeStep ==
  ASSUME NEW k, NEW x, NEW m, NEW d, State(k, x, m, d), d.step > Len(SetupScript(k)),
         NEW i \in QueuesOf(k), d.seen[i] # m[UsedAt(i)].idx, NEW n, n = QueueSize[k],
         NEW e, e = FirstUnseen(m[UsedAt(i)], d.seen[i], n),
         NEW table, NEW m2, m2 = [m EXCEPT ![DescAt(i)] = table],
         NEW d2, NotedBack(d, d2, i, e.id)
  PROVE  State(k, x, m2, d2)
<1>1. k \in Kinds /\ Memory(k, m) /\ d \in Drivers(k) /\ x \in Transports(QueueCount(k))
  BY DEF State
<1>2. QueueSize[k] \in Nat \ {0} /\ Fits(QueueSize[k]) /\ Len(SetupScript(k)) \in Nat
      /\ QueueCount(k) \in Nat
  BY <1>1, Sizes
<1>3. d.step > Len(SetupScript(k)) /\ ~(d.step <= Len(SetupScript(k)))
  <2>1. d.step \in Nat
    BY <1>1 DEF Drivers
  <2> QED BY <1>2, <2>1
<1>4. \A j \in QueuesOf(k) : HoldsRing(j, n, x.queues[j].queue, m, d)
  BY <1>3 DEF State
<1>5. n \in Nat \ {0} /\ Fits(n)
  BY <1>2
<1>6. PICK q, av, us, fly, seen, alloc :
        /\ q = x.queues[i].queue /\ av = m[AvailAt(i)] /\ us = m[UsedAt(i)]
        /\ fly = d.inflight[i] /\ seen = d.seen[i] /\ alloc = d.alloc[i]
  BY Zenon
<1>7. Placed(i, n, q) /\ InRing(n, q, av, us, fly, seen, alloc)
  BY <1>4, <1>6 DEF HoldsRing
<1>8. PICK c, l, a \in Nat : \E st \in [Nat -> Nat] :
        RingIs(n, q, av, us, fly, seen, alloc, c, l, a, st)
  BY <1>7, Zenon DEF InRing
<1>9. PICK st \in [Nat -> Nat] : RingIs(n, q, av, us, fly, seen, alloc, c, l, a, st)
  BY <1>8, Zenon
<1>10. \A j \in QueuesOf(k) : j \in Nat
  BY <1>2 DEF QueuesOf
<1>11. fly \in Seq(Seq(Nat)) /\ seen # us.idx
  BY <1>1, <1>6 DEF Drivers
<1>12. PICK id, cnt, v : /\ id = st[c] % n /\ cnt = (us.idx - seen + IdxMod) % IdxMod
                         /\ v = (seen + 1) % IdxMod
  BY Zenon
<1>13. /\ cnt \in Nat \ {0} /\ us.ring[(seen + 1 - 1) % n].id = id
       /\ Without(fly, id) \in Seq(Seq(Nat))
       /\ RingIs(n, q, av, us, Without(fly, id), v, alloc, c + 1, l, a, st)
  <2>1. SeqOf(fly, Seq(Nat))
    BY <1>11 DEF SeqOf
  <2>2. TakenBack(n, q, av, us, fly, seen, alloc, Seq(Nat), c, l, a, st)
    BY <1>5, <1>9, <1>11, <2>1, RingConsume
  <2> QED BY <1>12, <2>2, Zenon DEF TakenBack
<1>14. e = us.ring[(seen + 1 - 1) % n]
  <2>1. e = [j \in 1..cnt |-> us.ring[(seen + j - 1) % n]][1]
    BY <1>6, <1>12, Zenon DEF FirstUnseen
  <2>2. 1 \in 1..cnt
    BY <1>13
  <2> QED BY <2>1, <2>2, Zenon
<1>15. v \in Nat
  <2>1. IdxMod \in Nat \ {0} /\ seen \in Nat
    BY <1>1, <1>6, QueueAssumptions DEF QueueAssumptions, Drivers
  <2>2. seen + 1 \in Nat
    BY <2>1, NatSucc, ZenonT(30)
  <2>3. v \in 0..(IdxMod - 1)
    BY <1>12, <2>1, <2>2, DivMod
  <2> QED BY <2>1, <2>3
<1>16. PICK fly2 : fly2 = Without(fly, id)
  OBVIOUS
<1>17. DriverAt(k, d, d2, i, fly2, v, d.alloc[i])
  <2>1. d2 = [d EXCEPT !.seen[i] = v, !.inflight[i] = fly2]
    BY <1>6, <1>12, <1>13, <1>14, <1>16, Zenon DEF NotedBack
  <2>2. fly2 \in Seq(Seq(Nat))
    BY <1>13, <1>16
  <2> QED BY <1>1, <1>15, <2>1, <2>2, NotedConsume
<1>18. IsFcn(m2) /\ DOMAIN m2 = DOMAIN m /\ \A z \in DOMAIN m : z # DescAt(i) => m2[z] = m[z]
  BY <1>1 DEF Memory, IsFcn
<1>19. \A j \in QueuesOf(k) :
         /\ DescAt(j) \in DOMAIN m /\ AvailAt(j) \in DOMAIN m /\ UsedAt(j) \in DOMAIN m
         /\ m2[AvailAt(j)] = m[AvailAt(j)] /\ m2[UsedAt(j)] = m[UsedAt(j)]
         /\ IsRing(m[AvailAt(j)], n) /\ IsRing(m[UsedAt(j)], n)
  <2> TAKE j \in QueuesOf(k)
  <2>1. AvailAt(j) # DescAt(i) /\ UsedAt(j) # DescAt(i)
    BY <1>10, Addresses
  <2> QED BY <1>1, <1>18, <2>1 DEF Memory
<1>20. Memory(k, m2)
  BY <1>18, <1>19 DEF Memory
<1>21. HoldsRing(i, n, q, m2, d2)
  <2>1. c + 1 \in Nat
    OBVIOUS
  <2>2. InRing(n, q, av, us, fly2, v, alloc)
    BY <1>13, <1>16, <2>1, Zenon DEF InRing
  <2> QED BY <1>6, <1>7, <1>17, <1>19, <2>2 DEF HoldsRing, DriverAt
<1>22. ASSUME NEW j \in QueuesOf(k) PROVE HoldsRing(j, n, x.queues[j].queue, m2, d2)
  <2>1. CASE j = i
    BY <1>6, <1>21, <2>1
  <2>2. CASE j # i
    <3>1. m2[AvailAt(j)] = m[AvailAt(j)] /\ m2[UsedAt(j)] = m[UsedAt(j)]
      BY <1>19
    <3>2. HoldsRing(j, n, x.queues[j].queue, m, d)
      BY <1>4
    <3>3. d2.inflight[j] = d.inflight[j] /\ d2.alloc[j] = d.alloc[j] /\ d2.seen[j] = d.seen[j]
      BY <1>17, <2>2 DEF DriverAt
    <3> QED BY <3>1, <3>2, <3>3, OtherRing
  <2> QED BY <2>1, <2>2
<1> QED BY <1>1, <1>3, <1>17, <1>20, <1>22 DEF State, DriverAt

-----------------------------------------------------------------------------
(* The specification. *)

Busies(k) == [op : {"idle", "notify", "poll"}, queue : QueuesOf(k), injected : BOOLEAN]

Inv == State(kind, t, mem, drv) /\ busy \in Busies(kind)

LEMMA InitInv ==
  ASSUME Init
  PROVE  Inv
<1>1. kind \in Kinds
  BY DEF Init
<1>2. QueueCount(kind) \in 1..3 /\ QueueCount(kind) \in Nat
  BY <1>1, Sizes
<1>3. /\ t \in Transports(QueueCount(kind))
      /\ \A i \in QueuesOf(kind) : t.queues[i] = NewQueueState
  BY <1>2, NewTransportType DEF Init, QueuesOf
<1>4. PICK uses \in Traffic[kind] : drv = FreshDriver(kind, uses, 0)
  BY DEF Init
<1>5. uses \in SUBSET QueuesOf(kind) /\ 0 \in Nat
  BY <1>1, DeviceAssumptions DEF DeviceAssumptions, QueuesOf
<1>6. mem = FreshMemory(kind)
  BY DEF Init
<1>7. State(kind, t, mem, drv)
  BY <1>1, <1>3, <1>4, <1>5, <1>6, FreshState
<1>8. busy \in Busies(kind)
  <2>1. 0 \in QueuesOf(kind)
    BY <1>2 DEF QueuesOf
  <2> QED BY <2>1 DEF Init, Idle, Busies
<1> QED BY <1>7, <1>8 DEF Inv

LEMMA ShapeSizes ==
  ASSUME NEW i, NEW s \in Shapes(i)
  PROVE  Len(s) \in Nat \ {0}
<1>1. \E u, v, w : s \in {<<u>>, <<u, v>>, <<u, v, w>>}
  <2>1. \/ s \in BlockShapes \/ s \in RxShapes \/ s \in TxShapes(Fresh(tx_expect))
        \/ s = <<Out(1)>>
    BY Zenon DEF Shapes
  <2> QED BY <2>1, Zenon DEF BlockShapes, RxShapes, TxShapes
<1>2. PICK u, v, w : s \in {<<u>>, <<u, v>>, <<u, v, w>>}
  BY <1>1, Zenon
<1>3. Len(<<u>>) = 1 /\ Len(<<u, v>>) = 2 /\ Len(<<u, v, w>>) = 3
  OBVIOUS
<1>4. Len(s) \in {1, 2, 3}
  BY <1>2, <1>3, Zenon
<1> QED BY <1>4

\* A chain is returned by a device that holds its lock for queue i.
LEMMA Returns ==
  ASSUME State(kind, t, mem, drv), NEW i \in QueuesOf(kind), HasChain(Q(i), mem),
         NEW m1, SameBut(Q(i).desc, mem, m1), NEW w,
         NEW x \in Transports(QueueCount(kind)), x.queues = t.queues,
         t' = [x EXCEPT !.queues[i].queue = Popped(t.queues[i].queue)],
         mem' = PushUsed(Q(i), m1, HeadIndex(Q(i), mem), w),
         kind' = kind, drv' = drv
  PROVE  State(kind, t, mem, drv)'
<1>1. kind \in Kinds
  BY DEF State
<1>2. QueueCount(kind) \in Nat
  BY <1>1, Sizes
<1>3. PICK q, y, m2, k : /\ q = t.queues[i].queue /\ y = t' /\ m2 = mem'
                         /\ k = kind
  BY Zenon
<1>4. y = [x EXCEPT !.queues[i].queue = Popped(x.queues[i].queue)]
  BY <1>3, Zenon
<1>5. Advanced(QueueCount(k), t, y, i)
  <2>1. PICK n \in Nat : n = QueueCount(kind)
    BY <1>2
  <2>2. x \in Transports(n) /\ i \in 0..(n - 1)
    BY <2>1 DEF QueuesOf
  <2>3. Advanced(n, x, y, i)
    BY <1>4, <2>2, PoppedQueue
  <2>4. Advanced(n, t, y, i)
    BY <2>3, Zenon DEF Advanced
  <2> QED BY <1>3, <2>1, <2>4
<1>6. /\ HasChain(q, mem) /\ SameBut(q.desc, mem, m1)
      /\ m2 = PushUsed(q, m1, HeadIndex(q, mem), w)
  BY <1>3, Zenon DEF Q
<1>7. State(k, t, mem, drv) /\ i \in QueuesOf(k)
  BY <1>3
<1>8. State(k, y, m2, drv)
  BY <1>3, <1>5, <1>6, <1>7, ReturnStep
<1> QED BY <1>3, <1>8

LEMMA StepInv ==
  ASSUME Inv, [Next]_vars
  PROVE  Inv'
<1>1. State(kind, t, mem, drv) /\ busy \in Busies(kind)
  BY DEF Inv
<1>2. /\ kind \in Kinds /\ t \in Transports(QueueCount(kind)) /\ Memory(kind, mem)
      /\ drv \in Drivers(kind)
  BY <1>1 DEF State
<1>3. /\ QueueCount(kind) \in Nat /\ Len(SetupScript(kind)) \in Nat /\ 0 \in QueuesOf(kind)
      /\ drv.step \in Nat /\ drv.resets \in Nat /\ drv.uses \subseteq QueuesOf(kind)
  <2>1. QueueCount(kind) \in Nat /\ Len(SetupScript(kind)) \in Nat /\ QueueCount(kind) \in 1..3
    BY <1>2, Sizes
  <2>2. 0 \in QueuesOf(kind)
    BY <2>1 DEF QueuesOf
  <2>3. drv.step \in Nat /\ drv.resets \in Nat /\ drv.uses \subseteq QueuesOf(kind)
    BY <1>2 DEF Drivers
  <2> QED BY <2>1, <2>2, <2>3
<1>4. Idle \in Busies(kind) /\ IsFcn(mem) /\ busy.queue \in QueuesOf(kind)
  BY <1>1, <1>2, <1>3 DEF Idle, Busies, Memory
<1>5. /\ Raise(t) \in Transports(QueueCount(kind)) /\ Raise(t).queues = t.queues
      /\ Raise(t).queue_sel = t.queue_sel
  BY <1>2, RaiseIs
<1>6. ASSUME t' \in Transports(QueueCount(kind)), t'.queues = t.queues, t'.queue_sel = t.queue_sel,
             kind' = kind, mem' = mem, drv' = drv
      PROVE  State(kind, t, mem, drv)'
  <2>1. State(kind, t', mem, drv)
    BY <1>1, <1>6, SameQueues
  <2> QED BY <1>6, <2>1
<1>7. CASE SetupWrite
  <2>1. PICK w : w = SetupScript(kind)[drv.step] /\ t' = WriteReg(t, w[1], w[2])
    BY <1>7 DEF SetupWrite
  <2>2. drv.step <= Len(SetupScript(kind)) /\ drv' = [drv EXCEPT !.step = @ + 1]
    BY <1>3, <1>7 DEF SetupWrite, Live
  <2>3. State(kind, t', mem, drv')
    BY <1>1, <2>1, <2>2, SetupStep
  <2> QED BY <1>1, <1>7, <2>3 DEF Inv, SetupWrite
<1>8. CASE StartOver
  <2>1. /\ t' \in Transports(QueueCount(kind))
        /\ \A i \in QueuesOf(kind) : t'.queues[i] = NewQueueState
    BY <1>2, <1>3, <1>8, ResetType DEF StartOver, QueuesOf
  <2>2. drv.resets + 1 \in Nat /\ drv.uses \in SUBSET QueuesOf(kind)
    BY <1>3
  <2>3. State(kind, t', FreshMemory(kind), FreshDriver(kind, drv.uses, drv.resets + 1))
    BY <1>2, <2>1, <2>2, FreshState
  <2> QED BY <1>1, <1>8, <2>3 DEF Inv, StartOver
<1>9. CASE Ack
  <2>1. /\ t' \in Transports(QueueCount(kind)) /\ t'.queues = t.queues
        /\ t'.queue_sel = t.queue_sel
    BY <1>2, <1>3, <1>9, OtherRegs DEF Ack
  <2> QED BY <1>1, <1>6, <1>9, <2>1 DEF Inv, Ack
<1>10. ASSUME NEW i \in drv.uses, Submit(i) PROVE Inv'
  <2>1. PICK s \in Shapes(i) :
          /\ Len(s) <= QueueSize[kind] - Cardinality(Occupied(i))
          /\ \E table : PutAvail(mem, mem', i, QueueSize[kind], table, NextFree(i, Len(s))[1])
          /\ Noted(drv, drv', i, QueueSize[kind], NextFree(i, Len(s)), Len(s))
    BY <1>10, ZenonT(60) DEF Submit, PutAvail, Noted
  <2>2. PICK n, len, ch : n = QueueSize[kind] /\ len = Len(s) /\ ch = NextFree(i, Len(s))
    BY Zenon
  <2>3. len \in Nat \ {0}
    BY <2>2, ShapeSizes
  <2>4. i \in QueuesOf(kind)
    BY <1>3
  <2>5. Room(n, drv.inflight[i], len)
    BY <2>1, <2>2, Zenon DEF Room, Occupied, Held
  <2>6. ch = ChainFrom(n, drv.alloc[i], len)
    BY <2>2, Zenon DEF NextFree, ChainFrom
  <2>7. \E table : PutAvail(mem, mem', i, n, table, ch[1])
    BY <2>1, <2>2, Zenon
  <2>8. PICK table : PutAvail(mem, mem', i, n, table, ch[1])
    BY <2>7
  <2>9. Noted(drv, drv', i, n, ch, len)
    BY <2>1, <2>2, Zenon
  <2>10. drv.step > Len(SetupScript(kind)) /\ kind' = kind /\ t' = t /\ busy' = busy
    BY <1>10 DEF Submit, Live
  <2>11. State(kind, t, mem', drv')
    BY <1>1, <2>2, <2>3, <2>4, <2>5, <2>6, <2>8, <2>9, <2>10, SubmitStep
  <2> QED BY <1>1, <2>10, <2>11 DEF Inv
<1>11. ASSUME NEW i \in drv.uses, Consume(i) PROVE Inv'
  <2>1. i \in QueuesOf(kind)
    BY <1>3
  <2>2. PICK n, e : n = QueueSize[kind] /\ e = Unseen(i)[1]
    OBVIOUS
  <2>3. e = FirstUnseen(mem[UsedAt(i)], drv.seen[i], n)
    BY <2>2, Zenon DEF Unseen, FirstUnseen
  <2>4. NotedBack(drv, drv', i, e.id)
    BY <1>11, <2>2, Zenon DEF Consume, NotedBack
  <2>5. \E table : mem' = [mem EXCEPT ![DescAt(i)] = table]
    BY <1>11, Zenon DEF Consume
  <2>6. PICK table : mem' = [mem EXCEPT ![DescAt(i)] = table]
    BY <2>5
  <2>7. /\ drv.step > Len(SetupScript(kind)) /\ drv.seen[i] # mem[UsedAt(i)].idx
        /\ kind' = kind /\ t' = t /\ busy' = busy
    BY <1>11 DEF Consume, Live
  <2>8. State(kind, t, mem', drv')
    BY <1>1, <2>1, <2>2, <2>3, <2>4, <2>6, <2>7, ConsumeStep
  <2> QED BY <1>1, <2>7, <2>8 DEF Inv
<1>12. ASSUME NEW i \in drv.uses, Notify(i) PROVE Inv'
  <2>1. busy' \in Busies(kind)
    BY <1>3, <1>12 DEF Notify, Idle, Busies
  <2>2. State(kind, t, mem, drv)'
    BY <1>2, <1>6, <1>12 DEF Notify
  <2> QED BY <1>12, <2>1, <2>2 DEF Inv, Notify
<1>13. CASE ProcessBlock
  <2>1. PICK i : i = busy.queue
    OBVIOUS
  <2>2. PICK io \in BOOLEAN :
          Return(i, HeadIndex(Q(i), mem),
                 ProcessRequest(b, Q(i), mem, HeadIndex(Q(i), mem), io).mem,
                 ProcessRequest(b, Q(i), mem, HeadIndex(Q(i), mem), io).written)
    BY <1>13, <2>1, Zenon DEF ProcessBlock
  <2>3. PICK m1, w :
          /\ m1 = ProcessRequest(b, Q(i), mem, HeadIndex(Q(i), mem), io).mem
          /\ w = ProcessRequest(b, Q(i), mem, HeadIndex(Q(i), mem), io).written
    BY Zenon
  <2>4. SameBut(Q(i).desc, mem, m1)
    BY <1>4, <2>3, RequestFrame
  <2>5. /\ i \in QueuesOf(kind) /\ HasChain(Q(i), mem) /\ kind' = kind /\ drv' = drv /\ busy' = busy
    BY <1>4, <1>13, <2>1 DEF ProcessBlock
  <2>6. /\ t' = [t EXCEPT !.queues[i].queue = Popped(t.queues[i].queue)]
        /\ mem' = PushUsed(Q(i), m1, HeadIndex(Q(i), mem), w)
    BY <2>2, <2>3, Zenon DEF Return
  <2>7. State(kind, t, mem, drv)'
    BY <1>1, <1>2, <2>4, <2>5, <2>6, Returns
  <2> QED BY <1>1, <2>5, <2>7 DEF Inv
<1>14. CASE ProcessTx
  <2>1. PICK i : i = busy.queue
    OBVIOUS
  <2>2. /\ i \in QueuesOf(kind) /\ HasChain(Q(i), mem) /\ kind' = kind /\ drv' = drv /\ busy' = busy
    BY <1>4, <1>14, <2>1 DEF ProcessTx
  <2>3. /\ t' = [t EXCEPT !.queues[i].queue = Popped(t.queues[i].queue)]
        /\ mem' = PushUsed(Q(i), mem, HeadIndex(Q(i), mem), 0)
    BY <1>14, <2>1, Zenon DEF ProcessTx, Return
  <2>4. SameBut(Q(i).desc, mem, mem)
    BY <1>4 DEF SameBut
  <2>5. State(kind, t, mem, drv)'
    BY <1>1, <1>2, <2>2, <2>3, <2>4, Returns
  <2> QED BY <1>1, <2>2, <2>5 DEF Inv
<1>15. CASE NotifyEnds
  <2>1. State(kind, t, mem, drv)'
    BY <1>5, <1>6, <1>15 DEF NotifyEnds
  <2> QED BY <1>4, <1>15, <2>1 DEF Inv, NotifyEnds
<1>16. CASE PollStart
  <2>1. State(kind, t, mem, drv)'
    BY <1>2, <1>6, <1>16 DEF PollStart
  <2>2. busy' \in Busies(kind)
    BY <1>3, <1>16 DEF PollStart, Idle, Busies
  <2> QED BY <1>16, <2>1, <2>2 DEF Inv, PollStart
<1>17. CASE DeliverNet
  <2>1. PICK m1, w, x :
          /\ m1 = NetRx(Q(0), mem, HeadIndex(Q(0), mem), Head(rx_pending)).mem
          /\ w = NetRx(Q(0), mem, HeadIndex(Q(0), mem), Head(rx_pending)).written
          /\ x = (IF busy.op = "notify" \/ w > 0 THEN Raise(t) ELSE t)
    BY Zenon
  <2>2. /\ mem' = PushUsed(Q(0), m1, HeadIndex(Q(0), mem), w)
        /\ t' = [x EXCEPT !.queues[0].queue = Popped(t.queues[0].queue)]
        /\ kind' = kind /\ drv' = drv /\ busy' = Idle /\ HasChain(Q(0), mem)
    BY <1>17, <2>1, Zenon DEF DeliverNet, RX_QUEUE, Q
  <2>3. x \in Transports(QueueCount(kind)) /\ x.queues = t.queues
    BY <1>2, <1>5, <2>1
  <2>4. Q(0).size \in Nat
    BY <1>2, <1>3 DEF Q, Transports, QueueStates, QueueRecords, QueuesOf
  <2>5. SameBut(Q(0).desc, mem, m1)
    BY <1>4, <2>1, <2>4, NetRxFrame
  <2>6. State(kind, t, mem, drv)'
    BY <1>1, <1>3, <2>2, <2>3, <2>5, Returns
  <2> QED BY <1>4, <2>2, <2>6 DEF Inv
<1>18. CASE DeliverVsock
  <2>1. PICK m1, w, x :
          /\ m1 = VsockRx(Q(0), mem, HeadIndex(Q(0), mem), Head(rx_pending)).mem
          /\ w = VsockRx(Q(0), mem, HeadIndex(Q(0), mem), Head(rx_pending)).written
          /\ x = (IF KeepsFrame(w) /\ (busy.injected \/ w > 0) THEN Raise(t) ELSE t)
    BY Zenon
  <2>2. /\ mem' = PushUsed(Q(0), m1, HeadIndex(Q(0), mem), w)
        /\ t' = [x EXCEPT !.queues[0].queue = Popped(@)]
        /\ kind' = kind /\ drv' = drv /\ HasChain(Q(0), mem)
        /\ busy' = IF KeepsFrame(w) THEN Idle ELSE [busy EXCEPT !.injected = TRUE]
    BY <1>18, <2>1, Zenon DEF DeliverVsock, RX_QUEUE
  <2>3. x \in Transports(QueueCount(kind)) /\ x.queues = t.queues
    BY <1>2, <1>5, <2>1
  <2>4. t' = [x EXCEPT !.queues[0].queue = Popped(t.queues[0].queue)]
    BY <2>2, <2>3
  <2>5. SameBut(Q(0).desc, mem, m1)
    BY <1>4, <2>1, VsockRxFrame
  <2>6. State(kind, t, mem, drv)'
    BY <1>1, <1>3, <2>2, <2>3, <2>4, <2>5, Returns
  <2>7. busy' \in Busies(kind)
    <3>1. [busy EXCEPT !.injected = TRUE] \in Busies(kind)
      BY <1>1 DEF Busies
    <3> QED BY <1>4, <2>2, <3>1
  <2> QED BY <2>2, <2>6, <2>7 DEF Inv
<1>19. CASE PollEnds
  <2>1. State(kind, t, mem, drv)'
    BY <1>2, <1>5, <1>6, <1>19 DEF PollEnds
  <2> QED BY <1>4, <1>19, <2>1 DEF Inv, PollEnds
<1>20. CASE HostSends \/ HostReceives \/ UNCHANGED vars
  <2>1. kind' = kind /\ t' = t /\ mem' = mem /\ drv' = drv /\ busy' = busy
    BY <1>20 DEF HostSends, HostReceives, vars, hostVars
  <2> QED BY <1>1, <2>1 DEF Inv
<1> QED BY <1>7, <1>8, <1>9, <1>10, <1>11, <1>12, <1>13, <1>14, <1>15, <1>16, <1>17, <1>18,
           <1>19, <1>20 DEF Next, Driver, Device

LEMMA InvAgrees == Inv => RingsAgree
<1> SUFFICES ASSUME Inv, Live, NEW i \in Queues
             PROVE  LET fly == drv.inflight[i]
                        back == Unseen(i)
                        waiting == (mem[AvailAt(i)].idx - Q(i).last_avail_idx + IdxMod) % IdxMod
                    IN /\ Len(back) + waiting = Len(fly)
                       /\ \A j \in DOMAIN back : back[j].id = fly[j][1]
  BY DEF RingsAgree
<1>1. State(kind, t, mem, drv) /\ i \in QueuesOf(kind)
  BY DEF Inv, Queues, QueuesOf
<1>2. PICK n : n = QueueSize[kind]
  OBVIOUS
<1>3. n \in Nat \ {0} /\ Fits(n)
  BY <1>1, <1>2, Sizes DEF State
<1>4. HoldsRing(i, n, t.queues[i].queue, mem, drv)
  BY <1>1, <1>2 DEF State, Live
<1>5. PICK q, av, us, fly, seen, alloc :
        /\ q = Q(i) /\ av = mem[AvailAt(i)] /\ us = mem[UsedAt(i)]
        /\ fly = drv.inflight[i] /\ seen = drv.seen[i] /\ alloc = drv.alloc[i]
  BY Zenon
<1>6. InRing(n, q, av, us, fly, seen, alloc)
  BY <1>4, <1>5 DEF HoldsRing, Q
<1>7. PICK c, l, a \in Nat : \E st \in [Nat -> Nat] :
        RingIs(n, q, av, us, fly, seen, alloc, c, l, a, st)
  BY <1>6, Zenon DEF InRing
<1>8. PICK st \in [Nat -> Nat] : RingIs(n, q, av, us, fly, seen, alloc, c, l, a, st)
  BY <1>7, Zenon
<1>9. PICK cnt, wait : /\ cnt = (us.idx - seen + IdxMod) % IdxMod
                       /\ wait = (av.idx - q.last_avail_idx + IdxMod) % IdxMod
  BY Zenon
<1>10. /\ cnt \in Nat /\ cnt + wait = Len(fly)
       /\ \A j \in 1..cnt : us.ring[(seen + j - 1) % n].id = fly[j][1]
  <2>1. Agree(n, q, av, us, fly, seen)
    BY <1>3, <1>8, RingAgrees
  <2> QED BY <1>9, <2>1, Zenon DEF Agree
<1>11. PICK back : back = Unseen(i)
  OBVIOUS
<1>12. back = [j \in 1..cnt |-> us.ring[(seen + j - 1) % n]]
  BY <1>2, <1>5, <1>9, <1>11, Zenon DEF Unseen
<1>13. DOMAIN back = 1..cnt /\ \A j \in 1..cnt : back[j] = us.ring[(seen + j - 1) % n]
  BY <1>12, Zenon
<1>14. Len(back) = cnt
  BY <1>10, <1>12
<1>15. Len(back) + wait = Len(fly)
  BY <1>10, <1>14, Zenon
<1>16. \A j \in DOMAIN back : back[j].id = fly[j][1]
  BY <1>10, <1>13, Zenon
<1> QED BY <1>5, <1>9, <1>11, <1>15, <1>16, Zenon

\* Whatever the device, the depth of its queues and the traffic, malformed chains
\* and resets included: the chains in flight are those that the device has
\* returned and the driver has not seen, in the order of their submission, and
\* those that wait to be taken (queue.rs, pop_chain and push_used; block.rs,
\* net.rs and vsock.rs, process_queue and poll_rx).
THEOREM RingsAgreeHolds == Spec => []RingsAgree
<1>1. Init => Inv
  BY InitInv
<1>2. Inv /\ [Next]_vars => Inv'
  BY StepInv
<1>3. Inv => RingsAgree
  BY InvAgrees
<1> QED BY <1>1, <1>2, <1>3, PTL DEF Spec

-----------------------------------------------------------------------------
(* Numbering: f gives the elements of I, in their order, the numbers from     *)
(* p + 1 to z.                                                                *)

Numbers(I, p, z, f) ==
  /\ I \subseteq Nat /\ p \in Nat /\ z \in Nat /\ p <= z
  /\ f \in [I -> (p + 1)..z]
  /\ \A v \in (p + 1)..z : \E x \in I : f[x] = v
  /\ \A x, y \in I : x < y => f[x] < f[y]

LEMMA NumbersNone ==
  ASSUME NEW p \in Nat
  PROVE  \E f : Numbers({}, p, p, f)
<1> DEFINE f == [x \in {} |-> 0]
<1>1. (p + 1)..p = {}
  OBVIOUS
<1>2. f \in [{} -> {}]
  OBVIOUS
<1> HIDE DEF f
<1>3. Numbers({}, p, p, f)
  BY <1>1, <1>2 DEF Numbers
<1> QED BY <1>3

LEMMA NoneNumbers ==
  ASSUME NEW p, NEW z, NEW f, Numbers({}, p, z, f)
  PROVE  p = z
<1>1. p \in Nat /\ z \in Nat /\ p <= z /\ (\A v \in (p + 1)..z : FALSE)
  BY DEF Numbers
<1> QED BY <1>1

LEMMA NumbersMore ==
  ASSUME NEW I, NEW p, NEW z, NEW f, Numbers(I, p, z, f), NEW x \in Nat, \A y \in I : y < x,
         NEW g, g = [y \in I \cup {x} |-> IF y = x THEN z + 1 ELSE f[y]]
  PROVE  Numbers(I \cup {x}, p, z + 1, g)
<1>1. /\ I \subseteq Nat /\ p \in Nat /\ z \in Nat /\ p <= z
      /\ f \in [I -> (p + 1)..z]
      /\ \A v \in (p + 1)..z : \E y \in I : f[y] = v
      /\ \A y, w \in I : y < w => f[y] < f[w]
  BY DEF Numbers
<1>2. \A y \in I : y # x /\ y \in Nat
  BY <1>1
<1>3. /\ \A y \in I : g[y] = f[y] /\ f[y] \in (p + 1)..z
      /\ g[x] = z + 1 /\ DOMAIN g = I \cup {x}
  BY <1>1, <1>2
<1>4. g \in [I \cup {x} -> (p + 1)..(z + 1)]
  <2>1. \A y \in I \cup {x} : g[y] \in (p + 1)..(z + 1)
    BY <1>1, <1>3
  <2> QED BY <2>1
<1>5. ASSUME NEW v \in (p + 1)..(z + 1) PROVE \E y \in I \cup {x} : g[y] = v
  <2>1. CASE v = z + 1
    BY <1>3, <2>1
  <2>2. CASE v # z + 1
    <3>1. v \in (p + 1)..z
      BY <1>1, <2>2
    <3>2. PICK y \in I : f[y] = v
      BY <1>1, <3>1
    <3> QED BY <1>3, <3>2
  <2> QED BY <2>1, <2>2
<1>6. ASSUME NEW y \in I \cup {x}, NEW w \in I \cup {x}, y < w PROVE g[y] < g[w]
  <2>1. y \in I /\ y # x
    BY <1>2, <1>6
  <2>2. CASE w = x
    BY <1>1, <1>3, <2>1, <2>2
  <2>3. CASE w # x
    BY <1>1, <1>3, <1>6, <2>1, <2>3
  <2> QED BY <2>2, <2>3
<1>7. Numbers(I \cup {x}, p, z + 1, g)
  <2>1. I \cup {x} \subseteq Nat /\ p \in Nat /\ z + 1 \in Nat /\ p <= z + 1
    BY <1>1
  <2> QED BY <1>4, <1>5, <1>6, <2>1 DEF Numbers
<1> QED BY <1>7

\* The first element has the first number.
IsFirst(I, x) == x \in I /\ \A y \in I : y # x => x < y

Others(I, f, x, J, g) == J = I \ {x} /\ g = [y \in J |-> f[y]]

Less(p, z, f, x, J, g) == f[x] = p + 1 /\ p + 1 <= z /\ Numbers(J, p + 1, z, g)

LEMMA NumbersLess ==
  ASSUME NEW I, NEW p, NEW z, NEW f, Numbers(I, p, z, f), NEW x, IsFirst(I, x),
         NEW J, NEW g, Others(I, f, x, J, g)
  PROVE  Less(p, z, f, x, J, g)
<1>0. x \in I /\ \A y \in I : y # x => x < y
  BY DEF IsFirst
<1>a. J = I \ {x} /\ g = [y \in J |-> f[y]]
  BY Zenon DEF Others
<1>1. /\ I \subseteq Nat /\ p \in Nat /\ z \in Nat /\ p <= z
      /\ f \in [I -> (p + 1)..z]
      /\ \A v \in (p + 1)..z : \E y \in I : f[y] = v
      /\ \A y, w \in I : y < w => f[y] < f[w]
  BY DEF Numbers
<1>2. f[x] \in (p + 1)..z /\ p + 1 <= z /\ p + 1 \in (p + 1)..z
  BY <1>0, <1>1
<1>3. PICK y \in I : f[y] = p + 1
  BY <1>1, <1>2
<1>4. f[x] = p + 1
  <2>1. CASE y = x
    BY <1>3, <2>1
  <2>2. CASE y # x
    <3>1. f[x] < f[y]
      BY <1>0, <1>1, <2>2
    <3> QED BY <1>1, <1>2, <1>3, <3>1
  <2> QED BY <2>1, <2>2
<1>5. \A w \in I \ {x} : f[x] < f[w] /\ f[w] \in (p + 1)..z /\ g[w] = f[w]
  BY <1>0, <1>1, <1>a
<1>6. g \in [I \ {x} -> (p + 1 + 1)..z]
  <2>1. \A w \in I \ {x} : f[w] \in (p + 1 + 1)..z
    BY <1>1, <1>4, <1>5
  <2> QED BY <1>a, <2>1
<1>7. ASSUME NEW v \in (p + 1 + 1)..z PROVE \E w \in I \ {x} : g[w] = v
  <2>1. v \in (p + 1)..z /\ v # p + 1
    BY <1>1
  <2>2. PICK w \in I : f[w] = v
    BY <1>1, <2>1
  <2>3. w # x
    BY <1>4, <2>1, <2>2
  <2> QED BY <1>5, <2>2, <2>3
<1>8. \A w, u \in I \ {x} : w < u => g[w] < g[u]
  BY <1>1, <1>5
<1>9. Numbers(J, p + 1, z, g)
  <2>1. p + 1 \in Nat
    BY <1>1
  <2>2. J \subseteq Nat
    BY <1>1, <1>a, Zenon
  <2>3. /\ g \in [J -> (p + 1 + 1)..z]
        /\ \A v \in (p + 1 + 1)..z : \E w \in J : g[w] = v
        /\ \A w, u \in J : w < u => g[w] < g[u]
    BY <1>6, <1>7, <1>8, <1>a, Zenon
  <2> QED BY <1>1, <1>2, <2>1, <2>2, <2>3 DEF Numbers
<1> QED BY <1>2, <1>4, <1>9, Zenon DEF Less

\* The elements are moved down by one.
LEMMA NumbersMoved ==
  ASSUME NEW I, NEW p, NEW z, NEW f, Numbers(I, p, z, f), 0 \notin I,
         NEW J, J = {y \in Nat : y + 1 \in I}, NEW g, g = [y \in J |-> f[y + 1]]
  PROVE  Numbers(J, p, z, g)
<1>1. /\ I \subseteq Nat /\ p \in Nat /\ z \in Nat /\ p <= z
      /\ f \in [I -> (p + 1)..z]
      /\ \A v \in (p + 1)..z : \E y \in I : f[y] = v
      /\ \A y, w \in I : y < w => f[y] < f[w]
  BY DEF Numbers
<1>2. \A y \in J : y \in Nat /\ y + 1 \in I /\ g[y] = f[y + 1] /\ f[y + 1] \in (p + 1)..z
  BY <1>1
<1>3. g \in [J -> (p + 1)..z]
  BY <1>2
<1>4. \A x \in I : x - 1 \in J /\ (x - 1) + 1 = x
  BY <1>1
<1>5. ASSUME NEW v \in (p + 1)..z PROVE \E y \in J : g[y] = v
  <2>1. PICK x \in I : f[x] = v
    BY <1>1
  <2> QED BY <1>2, <1>4, <2>1
<1>6. ASSUME NEW y \in J, NEW w \in J, y < w PROVE g[y] < g[w]
  <2>1. y + 1 < w + 1
    BY <1>2, <1>6
  <2> QED BY <1>1, <1>2, <2>1
<1>7. Numbers(J, p, z, g)
  BY <1>1, <1>3, <1>5, <1>6 DEF Numbers
<1> QED BY <1>7

\* The numbers are moved down by one.
LEMMA NumbersLower ==
  ASSUME NEW I, NEW p, NEW z, NEW f, Numbers(I, p, z, f), p # 0, NEW g, g = [y \in I |-> f[y] - 1]
  PROVE  Numbers(I, p - 1, z - 1, g)
<1>1. /\ I \subseteq Nat /\ p \in Nat /\ z \in Nat /\ p <= z
      /\ f \in [I -> (p + 1)..z]
      /\ \A v \in (p + 1)..z : \E y \in I : f[y] = v
      /\ \A y, w \in I : y < w => f[y] < f[w]
  BY DEF Numbers
<1>2. p - 1 \in Nat /\ z - 1 \in Nat /\ p - 1 <= z - 1
  BY <1>1
<1>3. \A y \in I : g[y] = f[y] - 1 /\ f[y] \in (p + 1)..z
  BY <1>1
<1>4. g \in [I -> (p - 1 + 1)..(z - 1)]
  <2>1. \A y \in I : g[y] \in (p - 1 + 1)..(z - 1)
    BY <1>1, <1>3
  <2> QED BY <2>1
<1>5. ASSUME NEW v \in (p - 1 + 1)..(z - 1) PROVE \E y \in I : g[y] = v
  <2>1. v + 1 \in (p + 1)..z /\ v + 1 - 1 = v
    BY <1>1
  <2>2. PICK x \in I : f[x] = v + 1
    BY <1>1, <2>1
  <2> QED BY <1>3, <2>1, <2>2
<1>6. ASSUME NEW y \in I, NEW w \in I, y < w PROVE g[y] < g[w]
  <2>1. f[y] < f[w]
    BY <1>1, <1>6
  <2> QED BY <1>1, <1>3, <2>1
<1>7. Numbers(I, p - 1, z - 1, g)
  BY <1>1, <1>2, <1>4, <1>5, <1>6 DEF Numbers
<1> QED BY <1>7

-----------------------------------------------------------------------------
(* The chains of a queue in operation: how many were returned and not seen,   *)
(* what the used ring says of them, and that no descriptor is in two of them. *)

Back(us, seen) == (us.idx - seen + IdxMod) % IdxMod

Entry(us, seen, n, j) == us.ring[(seen + j - 1) % n]

Apart(n, fly) ==
  /\ \A x \in 1..Len(fly) :
       /\ Len(fly[x]) \in Nat \ {0} /\ DOMAIN fly[x] = 1..Len(fly[x])
       /\ \A j \in 1..Len(fly[x]) : fly[x][j] \in 0..(n - 1)
  /\ \A x, y \in 1..Len(fly) : \A j \in 1..Len(fly[x]), h \in 1..Len(fly[y]) :
       fly[x][j] = fly[y][h] => x = y /\ j = h

LEMMA ModSame ==
  ASSUME NEW n \in Nat \ {0}, NEW x \in Nat, NEW y \in Nat, x % n = y % n,
         x - y < n, y - x < n
  PROVE  x = y
<1>1. CASE x < y
  BY <1>1, ModDistinct
<1>2. CASE y < x
  BY <1>2, ModDistinct
<1> QED BY <1>1, <1>2

LEMMA Gap ==
  ASSUME NEW g \in Nat, NEW h \in Nat, g < h
  PROVE  \E w \in Nat \ {0} : w = h - g /\ g + w = h
<1>1. h - g \in Nat \ {0} /\ g + (h - g) = h
  OBVIOUS
<1> QED BY <1>1

LEMMA Inside ==
  ASSUME NEW lo \in Nat, NEW hi \in Nat, NEW g \in Nat, NEW w \in Nat, NEW j \in 1..w,
         lo <= g, g + w <= hi
  PROVE  lo <= g + j - 1 /\ g + j - 1 < hi
  OBVIOUS

LEMMA Within ==
  ASSUME NEW n \in Nat, NEW lo \in Nat, NEW hi \in Nat, NEW p \in Nat, NEW p2 \in Nat,
         hi - lo <= n, lo <= p, p < hi, lo <= p2, p2 < hi
  PROVE  p - p2 < n /\ p2 - p < n
  OBVIOUS

\* The chain ch is the x-th in flight: w descriptors from the g-th on.
OnRing(n, ch, x, c, a, st, u, g, w) ==
  /\ x = u - c + 1 /\ g = st[u] /\ st[c] <= g /\ g + w = st[u + 1] /\ g + w <= st[a]
  /\ ch = [j \in 1..w |-> (g + j - 1) % n]

LEMMA RingApart ==
  ASSUME NEW n \in Nat \ {0}, NEW fly, NEW c \in Nat, NEW l \in Nat, NEW a \in Nat,
         NEW st \in [Nat -> Nat], Counted(n, c, l, a, st), Flying(n, fly, c, a, st)
  PROVE  Apart(n, fly)
<1>0. /\ \A u \in c..a : st[u] \in Nat /\ st[c] <= st[u] /\ st[u] <= st[a]
      /\ \A u \in c..(a - 1) : st[u] < st[u + 1] /\ st[u + 1] <= st[a] /\ st[u] < st[a]
  BY Near
<1>1. /\ st[a] - st[c] <= n /\ st[a] \in Nat /\ st[c] \in Nat /\ c <= a
      /\ \A u, v \in c..a : u < v => st[u] + (v - u) <= st[v]
  BY DEF Counted
<1>2. Len(fly) = a - c /\ \A u \in c..(a - 1) : fly[u - c + 1] = ChainAt(n, u, st)
  BY DEF Flying
<1>3. ASSUME NEW x \in 1..Len(fly)
      PROVE  \E u \in c..(a - 1), g \in Nat, w \in Nat \ {0} : OnRing(n, fly[x], x, c, a, st, u, g, w)
  <2>1. PICK u \in Nat : u = c + x - 1
    BY <1>2
  <2>2. u \in c..(a - 1) /\ u - c + 1 = x
    BY <1>2, <2>1
  <2>a. u \in c..a /\ u + 1 \in Nat
    BY <2>2
  <2>3. st[u] \in Nat /\ st[u + 1] \in Nat /\ st[c] <= st[u]
    BY <1>0, <2>1, <2>a
  <2>4. st[u] < st[u + 1] /\ st[u + 1] <= st[a]
    BY <1>0, <2>2
  <2>b. PICK g \in Nat : g = st[u]
    BY <2>3, Zenon
  <2>c. PICK h \in Nat : h = st[u + 1]
    BY <2>3, Zenon
  <2>d. g < h
    BY <2>4, <2>b, <2>c, Zenon
  <2>e. PICK w \in Nat \ {0} : w = h - g /\ g + w = h
    BY <2>d, Gap
  <2>5. g = st[u] /\ w = st[u + 1] - st[u]
    BY <2>b, <2>c, <2>e, Zenon
  <2>6. fly[x] = [j \in 1..w |-> (g + j - 1) % n]
    BY <1>2, <2>2, <2>5 DEF ChainAt
  <2>7. g + w = st[u + 1]
    BY <2>c, <2>e, Zenon
  <2>8. st[c] <= g /\ g + w <= st[a] /\ x = u - c + 1
    BY <2>2, <2>3, <2>4, <2>5, <2>7
  <2>9. OnRing(n, fly[x], x, c, a, st, u, g, w)
    BY <2>5, <2>6, <2>7, <2>8, Zenon DEF OnRing
  <2> QED BY <2>2, <2>9
<1>4. ASSUME NEW x \in 1..Len(fly)
      PROVE  /\ Len(fly[x]) \in Nat \ {0} /\ DOMAIN fly[x] = 1..Len(fly[x])
             /\ \A j \in 1..Len(fly[x]) : fly[x][j] \in 0..(n - 1)
  <2>0. PICK u \in c..(a - 1), g \in Nat, w \in Nat \ {0} : OnRing(n, fly[x], x, c, a, st, u, g, w)
    BY <1>3
  <2>1. fly[x] = [j \in 1..w |-> (g + j - 1) % n]
    BY <2>0, Zenon DEF OnRing
  <2>2. DOMAIN fly[x] = 1..w /\ Len(fly[x]) = w
    BY <2>1
  <2>3. ASSUME NEW j \in 1..w PROVE fly[x][j] \in 0..(n - 1)
    <3>1. g + j - 1 \in Nat
      OBVIOUS
    <3>2. (g + j - 1) % n \in 0..(n - 1)
      BY <3>1, DivMod
    <3> QED BY <2>1, <3>2
  <2> QED BY <2>2, <2>3
<1>5. ASSUME NEW x \in 1..Len(fly), NEW y \in 1..Len(fly),
             NEW j \in 1..Len(fly[x]), NEW h \in 1..Len(fly[y]), fly[x][j] = fly[y][h]
      PROVE  x = y /\ j = h
  <2>a. PICK u \in c..(a - 1), g \in Nat, w \in Nat \ {0} : OnRing(n, fly[x], x, c, a, st, u, g, w)
    BY <1>3
  <2>b. PICK u2 \in c..(a - 1), g2 \in Nat, w2 \in Nat \ {0} :
          OnRing(n, fly[y], y, c, a, st, u2, g2, w2)
    BY <1>3
  <2>1. /\ x = u - c + 1 /\ g = st[u] /\ st[c] <= g /\ g + w = st[u + 1] /\ g + w <= st[a]
        /\ fly[x] = [i \in 1..w |-> (g + i - 1) % n]
    BY <2>a, Zenon DEF OnRing
  <2>2. /\ y = u2 - c + 1 /\ g2 = st[u2] /\ st[c] <= g2 /\ g2 + w2 = st[u2 + 1]
        /\ g2 + w2 <= st[a]
        /\ fly[y] = [i \in 1..w2 |-> (g2 + i - 1) % n]
    BY <2>b, Zenon DEF OnRing
  <2>3. Len(fly[x]) = w /\ Len(fly[y]) = w2
    BY <2>1, <2>2
  <2>4. j \in 1..w /\ h \in 1..w2
    BY <2>3
  <2>5. fly[x][j] = (g + j - 1) % n /\ fly[y][h] = (g2 + h - 1) % n
    BY <2>1, <2>2, <2>4
  <2>6. PICK p \in Nat, p2 \in Nat : p = g + j - 1 /\ p2 = g2 + h - 1
    BY <2>4
  <2>7. PICK lo \in Nat, hi \in Nat : lo = st[c] /\ hi = st[a] /\ hi - lo <= n
    BY <1>1
  <2>8. lo <= p /\ p < hi /\ lo <= p2 /\ p2 < hi
    <3>1. lo <= g /\ g + w <= hi /\ lo <= g2 /\ g2 + w2 <= hi
      BY <2>1, <2>2, <2>7, Zenon
    <3>2. lo <= p /\ p < hi
      BY <2>4, <2>6, <3>1, Inside
    <3>3. lo <= p2 /\ p2 < hi
      BY <2>4, <2>6, <3>1, Inside
    <3> QED BY <3>2, <3>3
  <2>9. p = p2
    <3>1. p % n = p2 % n
      BY <1>5, <2>5, <2>6
    <3>2. p - p2 < n /\ p2 - p < n
      BY <2>7, <2>8, Within
    <3> QED BY <3>1, <3>2, ModSame
  <2>10. u = u2
    <3>1. ASSUME u < u2 PROVE FALSE
      <4>1. u + 1 <= u2 /\ u + 1 \in c..a /\ u2 \in c..a
        BY <3>1
      <4>2. g + w <= g2
        <5>1. CASE u + 1 = u2
          BY <2>1, <2>2, <5>1
        <5>2. CASE u + 1 < u2
          <6>1. st[u + 1] + (u2 - (u + 1)) <= st[u2]
            BY <1>1, <4>1, <5>2
          <6>2. (g + w) + (u2 - (u + 1)) <= g2
            BY <2>1, <2>2, <6>1
          <6> QED BY <5>2, <6>2
        <5> QED BY <4>1, <5>1, <5>2
      <4> QED BY <2>4, <2>6, <2>9, <4>2
    <3>2. ASSUME u2 < u PROVE FALSE
      <4>1. u2 + 1 <= u /\ u2 + 1 \in c..a /\ u \in c..a
        BY <3>2
      <4>2. g2 + w2 <= g
        <5>1. CASE u2 + 1 = u
          BY <2>1, <2>2, <5>1
        <5>2. CASE u2 + 1 < u
          <6>1. st[u2 + 1] + (u - (u2 + 1)) <= st[u]
            BY <1>1, <4>1, <5>2
          <6>2. (g2 + w2) + (u - (u2 + 1)) <= g
            BY <2>1, <2>2, <6>1
          <6> QED BY <5>2, <6>2
        <5> QED BY <4>1, <5>1, <5>2
      <4> QED BY <2>4, <2>6, <2>9, <4>2
    <3> QED BY <3>1, <3>2
  <2>11. g = g2 /\ x = y
    BY <2>1, <2>2, <2>10
  <2>12. g + j - 1 = g + h - 1
    BY <2>6, <2>9, <2>11, Zenon
  <2>13. j \in Nat /\ h \in Nat
    BY <2>4
  <2>14. j = h
    BY <2>12, <2>13
  <2> QED BY <2>11, <2>14
<1> QED BY <1>4, <1>5 DEF Apart

\* Where the entries of the chains in flight are in the rings.
LEMMA SlotOf ==
  ASSUME NEW n \in Nat \ {0}, Fits(n), NEW c \in Nat, NEW j \in Nat \ {0}
  PROVE  ((c % IdxMod) + j - 1) % n = (c + j - 1) % n
<1>0. IdxMod \in Nat \ {0}
  BY QueueAssumptions DEF QueueAssumptions
<1>1. c % IdxMod \in 0..(IdxMod - 1) /\ j - 1 \in Nat
  BY <1>0, DivMod
<1>2. PICK r \in Nat : r = c % IdxMod
  BY <1>0, <1>1
<1>3. r % n = c % n
  BY <1>2, FitsMod
<1>4. (r + (j - 1)) % n = ((r % n) + (j - 1)) % n
  BY <1>1, ModAdd
<1>5. (c + (j - 1)) % n = ((c % n) + (j - 1)) % n
  BY <1>1, ModAdd
<1>6. r + j - 1 = r + (j - 1) /\ c + j - 1 = c + (j - 1)
  OBVIOUS
<1> QED BY <1>2, <1>3, <1>4, <1>5, <1>6

\* The counters behind what is read from the rings.
Counts(n, us, fly, seen, c, l, a) ==
  Back(us, seen) = l - c /\ Len(fly) = a - c /\ c <= l /\ l <= a /\ a - c <= n

Slots(n, us, seen, c) ==
  \A j \in Nat \ {0} : Entry(us, seen, n, j) = us.ring[(c + j - 1) % n]

LEMMA RingCounts ==
  ASSUME NEW n \in Nat \ {0}, Fits(n),
         NEW q, NEW av, NEW us, NEW fly, NEW seen, NEW alloc,
         NEW c \in Nat, NEW l \in Nat, NEW a \in Nat, NEW st \in [Nat -> Nat],
         RingIs(n, q, av, us, fly, seen, alloc, c, l, a, st)
  PROVE  Counts(n, us, fly, seen, c, l, a) /\ Slots(n, us, seen, c)
<1>0. IdxMod \in Nat \ {0} /\ n < IdxMod
  BY QueueAssumptions DEF QueueAssumptions, Fits
<1>1. /\ Counted(n, c, l, a, st) /\ Flying(n, fly, c, a, st)
      /\ Indices(n, q, av, us, seen, alloc, c, l, a, st)
  BY DEF RingIs
<1>2. us.idx = l % IdxMod /\ seen = c % IdxMod
  BY <1>1 DEF Indices
<1>3. c <= l /\ l <= a /\ a - c <= n
  BY <1>1, Near DEF Counted
<1>4. l - c < IdxMod
  BY <1>0, <1>3
<1>5. ((l % IdxMod) - (c % IdxMod) + IdxMod) % IdxMod = l - c
  BY <1>0, <1>3, <1>4, ModDist
<1>6. Back(us, seen) = l - c
  BY <1>2, <1>5, Zenon DEF Back
<1>7. \A j \in Nat \ {0} : Entry(us, seen, n, j) = us.ring[(c + j - 1) % n]
  <2> TAKE j \in Nat \ {0}
  <2>1. ((c % IdxMod) + j - 1) % n = (c + j - 1) % n
    BY SlotOf
  <2> QED BY <1>2, <2>1, Zenon DEF Entry
<1>8. Len(fly) = a - c
  BY <1>1 DEF Flying
<1> QED BY <1>3, <1>6, <1>7, <1>8 DEF Counts, Slots

\* A queue in operation as its users see it.
View(n, q, av, us, fly, seen) ==
  /\ Len(fly) \in Nat /\ Back(us, seen) \in 0..Len(fly) /\ Apart(n, fly) /\ Len(fly) <= n
  /\ q.last_avail_idx # av.idx <=> Back(us, seen) < Len(fly)
  /\ Back(us, seen) < Len(fly) =>
       av.ring[q.last_avail_idx % n] = fly[Back(us, seen) + 1][1]
  /\ \A j \in 1..Back(us, seen) : Entry(us, seen, n, j).id = fly[j][1]

LEMMA RingView ==
  ASSUME NEW n \in Nat \ {0}, Fits(n),
         NEW q, NEW av, NEW us, NEW fly, NEW seen, NEW alloc,
         InRing(n, q, av, us, fly, seen, alloc)
  PROVE  View(n, q, av, us, fly, seen)
<1>0. IdxMod \in Nat \ {0} /\ n < IdxMod
  BY QueueAssumptions DEF QueueAssumptions, Fits
<1>1. PICK c, l, a \in Nat : \E st \in [Nat -> Nat] :
        RingIs(n, q, av, us, fly, seen, alloc, c, l, a, st)
  BY Zenon DEF InRing
<1>2. PICK st \in [Nat -> Nat] : RingIs(n, q, av, us, fly, seen, alloc, c, l, a, st)
  BY <1>1, Zenon
<1>3. /\ Counted(n, c, l, a, st) /\ Flying(n, fly, c, a, st)
      /\ Entries(n, av, us, c, l, a, st) /\ Indices(n, q, av, us, seen, alloc, c, l, a, st)
  BY <1>2 DEF RingIs
<1>a. Counts(n, us, fly, seen, c, l, a) /\ Slots(n, us, seen, c)
  BY <1>2, RingCounts
<1>4. Back(us, seen) = l - c /\ Len(fly) = a - c /\ c <= l /\ l <= a /\ a - c <= n
  BY <1>a DEF Counts
<1>5. PICK r : r = Back(us, seen)
  OBVIOUS
<1>6. r = l - c /\ r \in 0..Len(fly) /\ Len(fly) \in Nat
  BY <1>4, <1>5
<1>7. av.idx = a % IdxMod /\ q.last_avail_idx = l % IdxMod
  BY <1>3 DEF Indices
<1>8. q.last_avail_idx # av.idx <=> r < Len(fly)
  <2>1. CASE l = a
    BY <1>4, <1>6, <1>7, <2>1
  <2>2. CASE l # a
    <3>1. l < a /\ a - l < IdxMod
      <4>1. c <= l /\ l <= a /\ a - c <= n
        BY <1>4
      <4> QED BY <1>0, <2>2, <4>1
    <3>2. l % IdxMod # a % IdxMod
      BY <1>0, <3>1, ModDistinct
    <3> QED BY <1>4, <1>6, <1>7, <3>1, <3>2
  <2> QED BY <2>1, <2>2
<1>9. ASSUME NEW u \in c..(a - 1) PROVE fly[u - c + 1][1] = st[u] % n
  <2>1. fly[u - c + 1] = ChainAt(n, u, st)
    BY <1>3 DEF Flying
  <2>2. u \in Nat /\ st[u] < st[u + 1]
    <3>1. \A v \in c..(a - 1) : st[v] < st[v + 1] /\ st[v + 1] <= st[a] /\ st[v] < st[a]
      BY <1>3, Near
    <3> QED BY <3>1
  <2> QED BY <2>1, <2>2, HeadOf
<1>10. ASSUME r < Len(fly) PROVE av.ring[q.last_avail_idx % n] = fly[r + 1][1]
  <2>1. l \in l..(a - 1) /\ l \in c..(a - 1) /\ l - c + 1 = r + 1
    BY <1>4, <1>6, <1>10
  <2>2. av.ring[l % n] = st[l] % n
    BY <1>3, <2>1 DEF Entries
  <2>3. (l % IdxMod) % n = l % n
    BY FitsMod
  <2> QED BY <1>7, <1>9, <2>1, <2>2, <2>3
<1>11. ASSUME NEW j \in 1..r PROVE Entry(us, seen, n, j).id = fly[j][1]
  <2>1. PICK u \in Nat : u = c + j - 1
    BY <1>6
  <2>2. u \in c..(l - 1) /\ u \in c..(a - 1) /\ u - c + 1 = j /\ j \in Nat \ {0}
    BY <1>4, <1>6, <2>1
  <2>3. us.ring[u % n].id = st[u] % n
    BY <1>3, <2>2 DEF Entries
  <2>4. Entry(us, seen, n, j) = us.ring[u % n]
    BY <1>a, <2>1, <2>2 DEF Slots
  <2> QED BY <1>9, <2>2, <2>3, <2>4
<1>12. Apart(n, fly)
  BY <1>3, RingApart
<1> QED BY <1>4, <1>5, <1>6, <1>8, <1>10, <1>11, <1>12 DEF View

\* The device returns a chain: one more entry, after the others.
LEMMA ViewReturn ==
  ASSUME NEW n \in Nat \ {0}, Fits(n),
         NEW q, NEW av, NEW us, NEW fly, NEW seen, NEW alloc,
         InRing(n, q, av, us, fly, seen, alloc),
         NEW q2, NEW us2, Taken(n, q, q2, av, us, us2)
  PROVE  /\ Back(us2, seen) = Back(us, seen) + 1
         /\ Entry(us2, seen, n, Back(us, seen) + 1) = us2.ring[us.idx % n]
         /\ \A j \in 1..Back(us, seen) : Entry(us2, seen, n, j) = Entry(us, seen, n, j)
<1>1. PICK c, l, a \in Nat : \E st \in [Nat -> Nat] :
        RingIs(n, q, av, us, fly, seen, alloc, c, l, a, st)
  BY Zenon DEF InRing
<1>2. PICK st \in [Nat -> Nat] : RingIs(n, q, av, us, fly, seen, alloc, c, l, a, st)
  BY <1>1, Zenon
<1>3. RingIs(n, q2, av, us2, fly, seen, alloc, c, l + 1, a, st) /\ l + 1 \in Nat
  BY <1>2, RingReturn
<1>a. Counts(n, us, fly, seen, c, l, a) /\ Slots(n, us, seen, c)
  BY <1>2, RingCounts
<1>b. Counts(n, us2, fly, seen, c, l + 1, a) /\ Slots(n, us2, seen, c)
  BY <1>3, RingCounts
<1>4. Back(us, seen) = l - c /\ c <= l /\ a - c <= n
  BY <1>a DEF Counts
<1>5. Back(us2, seen) = l + 1 - c /\ l + 1 <= a
  BY <1>b DEF Counts
<1>6. us.idx % n = l % n
  <2>1. us.idx = l % IdxMod
    BY <1>2 DEF RingIs, Indices
  <2>2. (l % IdxMod) % n = l % n
    BY FitsMod
  <2> QED BY <2>1, <2>2
<1>7. PICK r \in Nat : r = Back(us, seen) /\ r = l - c
  BY <1>4
<1>8. Entry(us2, seen, n, r + 1) = us2.ring[us.idx % n]
  <2>1. r + 1 \in Nat \ {0} /\ c + (r + 1) - 1 = l
    BY <1>4, <1>7
  <2>2. Entry(us2, seen, n, r + 1) = us2.ring[(c + (r + 1) - 1) % n]
    BY <1>b, <2>1 DEF Slots
  <2> QED BY <1>6, <2>1, <2>2
<1>9. ASSUME NEW j \in 1..r PROVE Entry(us2, seen, n, j) = Entry(us, seen, n, j)
  <2>1. PICK u \in Nat : u = c + j - 1
    OBVIOUS
  <2>2. u < l /\ l - u < n
    BY <1>4, <1>5, <1>7, <2>1
  <2>3. u % n # l % n
    BY <2>2, ModDistinct
  <2>4. u % n \in 0..(n - 1)
    BY DivMod
  <2>5. us2.ring[u % n] = us.ring[u % n]
    BY <1>6, <2>3, <2>4 DEF Taken
  <2>6. j \in Nat \ {0}
    OBVIOUS
  <2>7. Entry(us2, seen, n, j) = us2.ring[(c + j - 1) % n]
    BY <1>b, <2>6 DEF Slots
  <2>8. Entry(us, seen, n, j) = us.ring[(c + j - 1) % n]
    BY <1>a, <2>6 DEF Slots
  <2> QED BY <2>1, <2>5, <2>7, <2>8
<1>10. Back(us2, seen) = r + 1
  BY <1>4, <1>5, <1>7
<1> QED BY <1>7, <1>8, <1>9, <1>10

\* The driver takes the chain that was returned first.
Takes(n, us, fly, seen, fly2, seen2) ==
  seen2 = (seen + 1) % IdxMod /\ fly2 = Without(fly, Entry(us, seen, n, 1).id)

Moved(n, us, fly, seen, fly2, seen2) ==
  /\ Back(us, seen) \in Nat \ {0} /\ Back(us, seen2) = Back(us, seen) - 1
  /\ Len(fly2) = Len(fly) - 1
  /\ \A j \in 1..(Len(fly) - 1) : fly2[j] = fly[j + 1]
  /\ \A j \in Nat \ {0} : Entry(us, seen2, n, j) = Entry(us, seen, n, j + 1)

LEMMA ViewConsume ==
  ASSUME NEW n \in Nat \ {0}, Fits(n),
         NEW q, NEW av, NEW us, NEW fly, SeqOf(fly, Seq(Nat)), NEW seen, NEW alloc,
         InRing(n, q, av, us, fly, seen, alloc), seen # us.idx,
         NEW fly2, NEW seen2, Takes(n, us, fly, seen, fly2, seen2)
  PROVE  Moved(n, us, fly, seen, fly2, seen2)
<1>0. seen2 = (seen + 1) % IdxMod /\ fly2 = Without(fly, Entry(us, seen, n, 1).id)
  BY Zenon DEF Takes
<1>1. PICK c, l, a \in Nat : \E st \in [Nat -> Nat] :
        RingIs(n, q, av, us, fly, seen, alloc, c, l, a, st)
  BY Zenon DEF InRing
<1>2. PICK st \in [Nat -> Nat] : RingIs(n, q, av, us, fly, seen, alloc, c, l, a, st)
  BY <1>1, Zenon
<1>3. TakenBack(n, q, av, us, fly, seen, alloc, Seq(Nat), c, l, a, st)
  BY <1>2, RingConsume
<1>4. PICK id : id = st[c] % n
  OBVIOUS
<1>5. /\ us.ring[(seen + 1 - 1) % n].id = id
      /\ RingIs(n, q, av, us, Without(fly, id), seen2, alloc, c + 1, l, a, st)
  BY <1>0, <1>3, <1>4, Zenon DEF TakenBack
<1>6. Entry(us, seen, n, 1).id = id
  BY <1>5, Zenon DEF Entry
<1>7. RingIs(n, q, av, us, fly2, seen2, alloc, c + 1, l, a, st) /\ c + 1 \in Nat
  BY <1>0, <1>5, <1>6, Zenon, NatSucc
<1>a. Counts(n, us, fly, seen, c, l, a) /\ Slots(n, us, seen, c)
  BY <1>2, RingCounts
<1>b. Counts(n, us, fly2, seen2, c + 1, l, a) /\ Slots(n, us, seen2, c + 1)
  BY <1>7, RingCounts
<1>8. Back(us, seen) = l - c /\ Len(fly) = a - c /\ l <= a
  BY <1>a DEF Counts
<1>9. Back(us, seen2) = l - (c + 1) /\ Len(fly2) = a - (c + 1) /\ c + 1 <= l
  BY <1>b DEF Counts
<1>10. ASSUME NEW j \in Nat \ {0} PROVE Entry(us, seen2, n, j) = Entry(us, seen, n, j + 1)
  <2>1. j + 1 \in Nat \ {0} /\ c + (j + 1) - 1 = c + 1 + j - 1
    OBVIOUS
  <2>2. Entry(us, seen, n, j + 1) = us.ring[(c + (j + 1) - 1) % n]
    BY <1>a, <2>1 DEF Slots
  <2>3. Entry(us, seen2, n, j) = us.ring[(c + 1 + j - 1) % n]
    BY <1>b DEF Slots
  <2> QED BY <2>1, <2>2, <2>3
<1>11. /\ \A u \in c..(a - 1) : fly[u - c + 1] = ChainAt(n, u, st)
       /\ \A u \in (c + 1)..(a - 1) : fly2[u - (c + 1) + 1] = ChainAt(n, u, st)
  BY <1>2, <1>7 DEF RingIs, Flying
<1>12. ASSUME NEW j \in 1..(Len(fly) - 1) PROVE fly2[j] = fly[j + 1]
  <2>1. PICK u \in Nat : u = c + j
    OBVIOUS
  <2>2. /\ u \in c..(a - 1) /\ u \in (c + 1)..(a - 1) /\ u - c + 1 = j + 1
        /\ u - (c + 1) + 1 = j
    BY <1>8, <1>9, <2>1
  <2> QED BY <1>11, <2>2
<1>13. Back(us, seen) \in Nat \ {0} /\ Back(us, seen2) = Back(us, seen) - 1
       /\ Len(fly2) = Len(fly) - 1
  BY <1>8, <1>9
<1> QED BY <1>10, <1>12, <1>13, Zenon DEF Moved

-----------------------------------------------------------------------------
(* What a chain that the driver has built is to the device. *)

\* The device finds no further descriptor: this one is the last, or leads out of
\* the table.
Ends(n, d) == d.has_next = FALSE \/ d.next = n

\* The chain ch of the table holds the buffers s.
Built(n, table, ch, s) ==
  /\ Len(s) \in Nat \ {0} /\ Len(s) <= n /\ ch = [j \in 1..Len(s) |-> ch[j]]
  /\ \A j \in 1..Len(s) :
       /\ ch[j] \in 0..(n - 1)
       /\ table[ch[j]].writable = s[j].writable /\ table[ch[j]].mapped = s[j].mapped
       /\ table[ch[j]].data = s[j].data
  /\ \A j \in 1..(Len(s) - 1) : table[ch[j]].has_next = TRUE /\ table[ch[j]].next = ch[j + 1]
  /\ Len(s) < n => Ends(n, table[ch[Len(s)]])

\* Changes elsewhere in the table.
LEMMA BuiltKept ==
  ASSUME NEW n, NEW table, NEW table2, NEW ch, NEW s, Built(n, table, ch, s),
         \A j \in 1..Len(s) : table2[ch[j]] = table[ch[j]]
  PROVE  Built(n, table2, ch, s)
<1>1. /\ Len(s) \in Nat \ {0} /\ Len(s) <= n /\ ch = [j \in 1..Len(s) |-> ch[j]]
      /\ \A j \in 1..Len(s) :
           /\ ch[j] \in 0..(n - 1)
           /\ table[ch[j]].writable = s[j].writable /\ table[ch[j]].mapped = s[j].mapped
           /\ table[ch[j]].data = s[j].data
      /\ \A j \in 1..(Len(s) - 1) : table[ch[j]].has_next = TRUE /\ table[ch[j]].next = ch[j + 1]
      /\ Len(s) < n => Ends(n, table[ch[Len(s)]])
  BY Zenon DEF Built
<1>2. \A j \in 1..(Len(s) - 1) : j \in 1..Len(s)
  BY <1>1
<1>3. Len(s) \in 1..Len(s)
  BY <1>1
<1>4. \A j \in 1..Len(s) :
        /\ table2[ch[j]].writable = s[j].writable /\ table2[ch[j]].mapped = s[j].mapped
        /\ table2[ch[j]].data = s[j].data
  BY <1>1, Zenon
<1>5. \A j \in 1..(Len(s) - 1) : table2[ch[j]].has_next = TRUE /\ table2[ch[j]].next = ch[j + 1]
  BY <1>1, <1>2, Zenon
<1>6. Len(s) < n => Ends(n, table2[ch[Len(s)]])
  BY <1>1, <1>3, Zenon
<1> QED BY <1>1, <1>4, <1>5, <1>6, Zenon DEF Built

LEMMA PrefixAppend ==
  ASSUME NEW g, NEW k \in Nat
  PROVE  Append([j \in 1..k |-> g[j]], g[k + 1]) = [j \in 1..(k + 1) |-> g[j]]
<1> DEFINE S == {g[j] : j \in 1..(k + 1)}
           p == [j \in 1..k |-> g[j]]
           r == [j \in 1..(k + 1) |-> g[j]]
<1>1. p \in Seq(S) /\ g[k + 1] \in S /\ Len(p) = k /\ r \in Seq(S) /\ Len(r) = k + 1
  OBVIOUS
<1>2. \A j \in 1..k : p[j] = g[j]
  OBVIOUS
<1>3. \A j \in 1..(k + 1) : r[j] = g[j]
  OBVIOUS
<1> HIDE DEF S, p, r
<1>4. PICK a : a = Append(p, g[k + 1])
  OBVIOUS
<1>5. a \in Seq(S) /\ Len(a) = k + 1 /\ a[k + 1] = g[k + 1] /\ \A j \in 1..k : a[j] = p[j]
  BY <1>1, <1>4, AppendProperties
<1>6. \A j \in 1..(k + 1) : a[j] = r[j]
  <2> TAKE j \in 1..(k + 1)
  <2>1. CASE j = k + 1
    BY <1>3, <1>5, <2>1
  <2>2. CASE j # k + 1
    <3>1. j \in 1..k
      BY <2>2
    <3> QED BY <1>2, <1>3, <1>5, <3>1
  <2> QED BY <2>1, <2>2
<1>7. a = r
  BY <1>1, <1>5, <1>6, SeqEqual
<1> QED BY <1>4, <1>7 DEF p, r

\* next_descriptor yields the buffers of a chain, also if it is a cycle or leads out
\* of the table.
LEMMA ChainWalk ==
  ASSUME NEW q, NEW m, NEW n \in Nat \ {0}, q.size = n, q.desc \in DOMAIN m,
         NEW ch, NEW s, Built(n, m[q.desc], ch, s)
  PROVE  Chain(q, m, ch[1]) = ch
<1> DEFINE p == <<q, m, ch[1]>>
<1>0. PICK L, table : L = Len(s) /\ table = m[q.desc]
  BY Zenon
<1>1. L \in Nat \ {0} /\ L <= n /\ ch = [j \in 1..L |-> ch[j]]
  BY <1>0, Zenon DEF Built
<1>2. \A j \in 1..L : ch[j] \in 0..(n - 1)
  BY <1>0, Zenon DEF Built
<1>3. /\ \A j \in 1..(L - 1) : table[ch[j]].has_next = TRUE /\ table[ch[j]].next = ch[j + 1]
      /\ L < n => Ends(n, table[ch[L]])
  BY <1>0, Zenon DEF Built
<1>4. PICK f : IsRec(f, "walk", p, n) /\ Chain(q, m, ch[1]) = f[n].taken
  BY ChainIs
<1>5. /\ f[0] = First("walk", p)
      /\ \A k \in 0..(n - 1) : f[k + 1] = Step("walk", p, f[k], k + 1)
  BY <1>4, RecValues
<1> DEFINE Upto(k) == IF k < L THEN k ELSE L
           Ok(k, w) == \E x, y :
             /\ w = [taken |-> [j \in 1..Upto(k) |-> ch[j]], next |-> x, more |-> y]
             /\ k < L => x = ch[k + 1] /\ y = TRUE
             /\ L <= k /\ k < n => y = FALSE \/ x = n
           S == {k \in 0..n : Ok(k, f[k])}
<1>6. Ok(0, f[0])
  <2>1. f[0] = [taken |-> <<>>, next |-> ch[1], more |-> q.desc \in DOMAIN m]
    BY <1>5 DEF First
  <2>2. (q.desc \in DOMAIN m) = TRUE
    OBVIOUS
  <2>3. Upto(0) = 0 /\ 0 < L /\ ~(L <= 0) /\ 0 + 1 = 1
    BY <1>1
  <2>4. [j \in 1..0 |-> ch[j]] = <<>>
    OBVIOUS
  <2>5. f[0] = [taken |-> [j \in 1..Upto(0) |-> ch[j]], next |-> ch[0 + 1], more |-> TRUE]
    BY <2>1, <2>2, <2>3, <2>4
  <2> HIDE DEF Upto
  <2> QED BY <2>3, <2>5
<1>7. ASSUME NEW k \in 0..(n - 1), Ok(k, f[k]) PROVE Ok(k + 1, f[k + 1])
  <2>1. PICK x, y :
             /\ f[k] = [taken |-> [j \in 1..Upto(k) |-> ch[j]], next |-> x, more |-> y]
             /\ k < L => x = ch[k + 1] /\ y = TRUE
             /\ L <= k /\ k < n => y = FALSE \/ x = n
    BY <1>7
  <2>2. f[k + 1] = WalkStep(q, m, f[k])
    BY <1>5 DEF Step
  <2>3. f[k].taken = [j \in 1..Upto(k) |-> ch[j]] /\ f[k].next = x /\ f[k].more = y
    BY <2>1
  <2>4. CASE k < L
    <3>1. k + 1 \in 1..L /\ Upto(k) = k /\ Upto(k + 1) = k + 1 /\ k \in Nat
      BY <1>1, <2>4
    <3>2. x = ch[k + 1] /\ y = TRUE
      BY <2>1, <2>4
    <3>3. x < q.size
      BY <1>2, <3>1, <3>2
    <3>4. f[k + 1] = [taken |-> Append(f[k].taken, f[k].next),
                      next |-> m[q.desc][f[k].next].next,
                      more |-> m[q.desc][f[k].next].has_next]
      BY <2>2, <2>3, <3>2, <3>3 DEF WalkStep
    <3>5. PICK x2, y2 : x2 = table[ch[k + 1]].next /\ y2 = table[ch[k + 1]].has_next
      BY Zenon
    <3>6. f[k].taken = [j \in 1..k |-> ch[j]]
      BY <2>3, <3>1, Zenon
    <3>7. Append(f[k].taken, f[k].next) = [j \in 1..(k + 1) |-> ch[j]]
      BY <2>3, <3>1, <3>2, <3>6, PrefixAppend
    <3>8. f[k + 1] = [taken |-> [j \in 1..Upto(k + 1) |-> ch[j]], next |-> x2, more |-> y2]
      BY <1>0, <2>3, <3>1, <3>2, <3>4, <3>5, <3>7, Zenon
    <3>9. k + 1 < L => x2 = ch[k + 1 + 1] /\ y2 = TRUE
      <4>1. k + 1 < L => k + 1 \in 1..(L - 1)
        BY <1>1, <3>1
      <4> QED BY <1>3, <3>5, <4>1, Zenon
    <3>10. L <= k + 1 /\ k + 1 < n => y2 = FALSE \/ x2 = n
      <4>1. L <= k + 1 => k + 1 = L
        BY <1>1, <2>4
      <4> QED BY <1>3, <3>5, <4>1, Zenon DEF Ends
    <3> HIDE DEF Upto
    <3> QED BY <3>8, <3>9, <3>10, Zenon
  <2>5. CASE ~(k < L)
    <3>1. Upto(k + 1) = Upto(k) /\ ~(k + 1 < L)
      BY <1>1, <2>5
    <3>2. y = FALSE \/ ~(x < q.size)
      <4>1. L <= k /\ k < n /\ ~(n < n)
        BY <1>1, <2>5
      <4> QED BY <2>1, <4>1, Zenon
    <3>3. f[k + 1] = [f[k] EXCEPT !.more = FALSE]
      BY <2>2, <2>3, <3>2, Zenon DEF WalkStep
    <3> DEFINE pre == [j \in 1..Upto(k) |-> ch[j]]
    <3>4. f[k + 1] = [taken |-> pre, next |-> x, more |-> FALSE]
      <4> HIDE DEF pre
      <4>1. f[k] = [taken |-> pre, next |-> x, more |-> y]
        BY <2>1, Zenon DEF pre
      <4>2. f[k + 1] = [[taken |-> pre, next |-> x, more |-> y] EXCEPT !.more = FALSE]
        BY <3>3, <4>1, Zenon
      <4> QED BY <4>2
    <3>5. f[k + 1] = [taken |-> [j \in 1..Upto(k + 1) |-> ch[j]], next |-> x, more |-> FALSE]
      BY <3>1, <3>4, Zenon
    <3> HIDE DEF Upto
    <3> QED BY <3>1, <3>5, Zenon
  <2> QED BY <2>4, <2>5
<1> HIDE DEF Ok
<1>8. 0 \in S /\ \A k \in 0..(n - 1) : k \in S => k + 1 \in S
  BY <1>6, <1>7
<1>9. \A k \in 0..n : k \in S
  <2> HIDE DEF S
  <2> QED BY <1>8, UpTo
<1>10. Ok(n, f[n])
  BY <1>9
<1>11. f[n].taken = [j \in 1..Upto(n) |-> ch[j]]
  BY <1>10 DEF Ok
<1>12. Upto(n) = L
  BY <1>1
<1> QED BY <1>1, <1>4, <1>11, <1>12, Zenon

-----------------------------------------------------------------------------
(* What the device sends for a chain. *)

LEMMA GatherIs ==
  ASSUME NEW q, NEW m, NEW head, NEW passes, q.size \in Nat
  PROVE  LET c == Chain(q, m, head)
             p == <<q, m, c, passes>>
         IN  \E f : IsRec(f, "gather", p, Len(c)) /\ Gather(q, m, head, passes) = f[Len(c)].bytes
<1> DEFINE c == Chain(q, m, head)
           p == <<q, m, c, passes>>
           F == CHOOSE f : IsRec(f, "gather", p, Len(c))
<1>1. Len(c) \in Nat
  BY ChainSeq
<1>2. IsRec(F, "gather", p, Len(c))
  BY <1>1, RecExists
<1>3. Gather(q, m, head, passes) = F[Len(c)].bytes
  <2>1. First("gather", p) = [bytes |-> <<>>, stopped |-> FALSE]
    BY DEF First
  <2>2. \A w, n : Step("gather", p, w, n) = GatherStep(q, m, c, passes, w, n)
    BY DEF Step
  <2>3. \A f : IsRec(f, "gather", p, Len(c)) <=>
           f = [k \in 0..Len(c) |-> IF k = 0 THEN [bytes |-> <<>>, stopped |-> FALSE]
                                    ELSE GatherStep(q, m, c, passes, f[k - 1], k)]
    BY <2>1, <2>2, ZenonT(60) DEF IsRec
  <2>4. F = CHOOSE f : f = [k \in 0..Len(c) |-> IF k = 0 THEN [bytes |-> <<>>, stopped |-> FALSE]
                                    ELSE GatherStep(q, m, c, passes, f[k - 1], k)]
    BY <2>3, Zenon
  <2> QED BY <2>4, Zenon DEF Gather, GatherStep
<1> QED BY <1>1, <1>2, <1>3

\* The bytes gathered so far, with room for more, and a buffer that can be read.
Gathered(g, x) == g = [bytes |-> x, stopped |-> FALSE]

RoomFor(x, data) == ~(Len(x) + Len(data) > MAX_FRAME)

Readable(d, data) == d.writable = FALSE /\ d.mapped = TRUE /\ d.data = data

LEMMA GatherMore ==
  ASSUME NEW q, NEW m, NEW c, NEW passes, NEW g, NEW n, NEW x, NEW data,
         Gathered(g, x), Readable(Buffer(q, m, c[n]), data), RoomFor(x, data)
  PROVE  Gathered(GatherStep(q, m, c, passes, g, n), x \o data)
<1>1. g.bytes = x /\ g.stopped = FALSE
  BY DEF Gathered
<1>2. GatherStep(q, m, c, passes, g, n) = [g EXCEPT !.bytes = @ \o data]
  BY <1>1, Zenon DEF GatherStep, Readable, RoomFor
<1>3. PICK z : z = x \o data
  OBVIOUS
<1>4. [g EXCEPT !.bytes = @ \o data] = [g EXCEPT !.bytes = z]
  BY <1>1, <1>3
<1>5. [g EXCEPT !.bytes = z] = [bytes |-> z, stopped |-> FALSE]
  <2>1. PICK y : y = FALSE
    OBVIOUS
  <2>2. g = [bytes |-> x, stopped |-> y]
    BY <2>1, Zenon DEF Gathered
  <2>3. [g EXCEPT !.bytes = z] = [bytes |-> z, stopped |-> y]
    BY <2>2
  <2> QED BY <2>1, <2>3, Zenon
<1> QED BY <1>2, <1>3, <1>4, <1>5, Zenon DEF Gathered

\* A buffer that adds nothing to the bytes x.
Passed(d, x) == d.writable = TRUE \/ ~RoomFor(x, d.data) \/ d.mapped = FALSE

LEMMA GatherLess ==
  ASSUME NEW q, NEW m, NEW c, NEW passes, NEW g, NEW n, NEW x,
         Gathered(g, x), Passed(Buffer(q, m, c[n]), x)
  PROVE  GatherStep(q, m, c, passes, g, n).bytes = x
<1>1. g.bytes = x /\ g.stopped = FALSE
  BY DEF Gathered
<1>2. \A v : [g EXCEPT !.stopped = v].bytes = x
  <2> TAKE v
  <2>1. PICK y : y = FALSE
    OBVIOUS
  <2>2. g = [bytes |-> x, stopped |-> y]
    BY <2>1, Zenon DEF Gathered
  <2>3. [g EXCEPT !.stopped = v] = [bytes |-> x, stopped |-> v]
    BY <2>2
  <2> QED BY <2>3
<1>3. PICK d, h : d = Buffer(q, m, c[n]) /\ h = GatherStep(q, m, c, passes, g, n)
  BY Zenon
<1>4. h = g \/ \E v : h = [g EXCEPT !.stopped = v]
  <2>1. CASE d.writable = TRUE
    BY <1>1, <1>3, <2>1, Zenon DEF GatherStep
  <2>2. CASE ~d.writable /\ ~RoomFor(x, d.data)
    BY <1>1, <1>3, <2>2, Zenon DEF GatherStep, RoomFor
  <2>3. CASE ~d.writable /\ RoomFor(x, d.data) /\ d.mapped = FALSE
    BY <1>1, <1>3, <2>3, Zenon DEF GatherStep, RoomFor
  <2>4. CASE d.writable
    <3>1. h = [g EXCEPT !.stopped = ~passes]
      BY <1>1, <1>3, <2>4, Zenon DEF GatherStep
    <3> QED BY <3>1, Zenon
  <2> QED BY <1>3, <2>1, <2>2, <2>3, <2>4, Zenon DEF Passed
<1> QED BY <1>1, <1>2, <1>3, <1>4, Zenon

\* The buffer x of the table is as the driver has built it.
Like(x, d) == x.writable = d.writable /\ x.mapped = d.mapped /\ x.data = d.data

LEMMA BuiltAt ==
  ASSUME NEW q, NEW m, NEW n, NEW ch, NEW s, Built(n, m[q.desc], ch, s), NEW j \in 1..Len(s)
  PROVE  Like(Buffer(q, m, ch[j]), s[j])
  BY Zenon DEF Built, Buffer, Like

\* A chain of one buffer, and one of two.
LEMMA GatherOne ==
  ASSUME NEW q, NEW m, NEW n \in Nat \ {0}, q.size = n, q.desc \in DOMAIN m,
         NEW ch, NEW s, NEW d, s = <<d>>, Built(n, m[q.desc], ch, s), NEW passes
  PROVE  \E g : /\ Gathered(g, <<>>) /\ Like(Buffer(q, m, ch[1]), d)
                /\ Gather(q, m, ch[1], passes) = GatherStep(q, m, ch, passes, g, 1).bytes
<1>1. Chain(q, m, ch[1]) = ch
  BY ChainWalk
<1>3. Len(s) = 1 /\ s[1] = d
  OBVIOUS
<1>5. Len(ch) = 1
  <2>1. ch = [j \in 1..1 |-> ch[j]]
    BY <1>3, Zenon DEF Built
  <2> QED BY <2>1
<1>7. Like(Buffer(q, m, ch[1]), d)
  <2>1. 1 \in 1..Len(s)
    BY <1>3
  <2>2. Like(Buffer(q, m, ch[1]), s[1])
    BY <2>1, BuiltAt
  <2> QED BY <1>3, <2>2
<1> DEFINE p == <<q, m, ch, passes>>
<1>8. PICK f : IsRec(f, "gather", p, 1) /\ Gather(q, m, ch[1], passes) = f[1].bytes
  BY <1>1, <1>5, GatherIs
<1>9. f[0] = First("gather", p) /\ \A k \in 0..(1 - 1) : f[k + 1] = Step("gather", p, f[k], k + 1)
  BY <1>8, RecValues
<1>10. f[0] = [bytes |-> <<>>, stopped |-> FALSE]
  BY <1>9 DEF First
<1>11. f[1] = GatherStep(q, m, ch, passes, f[0], 1)
  <2>1. 0 \in 0..(1 - 1) /\ 0 + 1 = 1
    OBVIOUS
  <2>2. f[1] = Step("gather", p, f[0], 1)
    BY <1>9, <2>1
  <2> QED BY <2>2 DEF Step
<1>12. Gathered(f[0], <<>>)
  BY <1>10, Zenon DEF Gathered
<1> QED BY <1>7, <1>8, <1>11, <1>12, Zenon

LEMMA GatherTwo ==
  ASSUME NEW q, NEW m, NEW n \in Nat \ {0}, q.size = n, q.desc \in DOMAIN m,
         NEW ch, NEW s, NEW d, NEW e, s = <<d, e>>, Built(n, m[q.desc], ch, s), NEW passes
  PROVE  \E g : /\ Gathered(g, <<>>)
                /\ Like(Buffer(q, m, ch[1]), d) /\ Like(Buffer(q, m, ch[2]), e)
                /\ Gather(q, m, ch[1], passes)
                     = GatherStep(q, m, ch, passes, GatherStep(q, m, ch, passes, g, 1), 2).bytes
<1>1. Chain(q, m, ch[1]) = ch
  BY ChainWalk
<1>3. Len(s) = 2 /\ s[1] = d /\ s[2] = e
  OBVIOUS
<1>5. Len(ch) = 2
  <2>1. ch = [j \in 1..2 |-> ch[j]]
    BY <1>3, Zenon DEF Built
  <2> QED BY <2>1
<1>7. Like(Buffer(q, m, ch[1]), d) /\ Like(Buffer(q, m, ch[2]), e)
  <2>1. 1 \in 1..Len(s) /\ 2 \in 1..Len(s)
    BY <1>3
  <2>2. Like(Buffer(q, m, ch[1]), s[1]) /\ Like(Buffer(q, m, ch[2]), s[2])
    BY <2>1, BuiltAt
  <2> QED BY <1>3, <2>2
<1> DEFINE p == <<q, m, ch, passes>>
<1>8. PICK f : IsRec(f, "gather", p, 2) /\ Gather(q, m, ch[1], passes) = f[2].bytes
  BY <1>1, <1>5, GatherIs
<1>9. f[0] = First("gather", p) /\ \A k \in 0..(2 - 1) : f[k + 1] = Step("gather", p, f[k], k + 1)
  BY <1>8, RecValues
<1>10. f[0] = [bytes |-> <<>>, stopped |-> FALSE]
  BY <1>9 DEF First
<1>11. /\ f[1] = GatherStep(q, m, ch, passes, f[0], 1)
       /\ f[2] = GatherStep(q, m, ch, passes, f[1], 2)
  <2>1. 0 \in 0..(2 - 1) /\ 0 + 1 = 1 /\ 1 \in 0..(2 - 1) /\ 1 + 1 = 2
    OBVIOUS
  <2>2. f[1] = Step("gather", p, f[0], 1) /\ f[2] = Step("gather", p, f[1], 2)
    BY <1>9, <2>1
  <2> QED BY <2>2 DEF Step
<1>12. Gathered(f[0], <<>>)
  BY <1>10, Zenon DEF Gathered
<1> QED BY <1>7, <1>8, <1>11, <1>12, Zenon

\* The first buffer can be read.
LEMMA GatherFirst ==
  ASSUME NEW q, NEW m, NEW ch, NEW passes, NEW g, Gathered(g, <<>>),
         NEW data, NEW T, data \in Seq(T), Len(data) <= MAX_FRAME,
         Like(Buffer(q, m, ch[1]), In(data))
  PROVE  Gathered(GatherStep(q, m, ch, passes, g, 1), data)
<1>1. In(data).writable = FALSE /\ In(data).mapped = TRUE /\ In(data).data = data
  BY DEF In
<1>2. Readable(Buffer(q, m, ch[1]), data)
  BY <1>1, Zenon DEF Readable, Like
<1>3. RoomFor(<<>>, data)
  BY BackendAssumptions DEF BackendAssumptions, RoomFor
<1>4. Gathered(GatherStep(q, m, ch, passes, g, 1), <<>> \o data)
  BY <1>2, <1>3, GatherMore, Zenon
<1>5. <<>> \o data = data
  OBVIOUS
<1> QED BY <1>4, <1>5, Zenon

Joined(x, data, more) == x = data \o more

\* One buffer that can be read, two, and one of which nothing is sent.
LEMMA GatherRead ==
  ASSUME NEW q, NEW m, NEW n \in Nat \ {0}, q.size = n, q.desc \in DOMAIN m,
         NEW ch, NEW s, NEW data, NEW T, data \in Seq(T), Len(data) <= MAX_FRAME,
         s = <<In(data)>>, Built(n, m[q.desc], ch, s), NEW passes
  PROVE  Gather(q, m, ch[1], passes) = data
<1>1. PICK d : d = In(data)
  OBVIOUS
<1>2. PICK g : /\ Gathered(g, <<>>) /\ Like(Buffer(q, m, ch[1]), d)
               /\ Gather(q, m, ch[1], passes) = GatherStep(q, m, ch, passes, g, 1).bytes
  BY <1>1, GatherOne
<1>3. Gathered(GatherStep(q, m, ch, passes, g, 1), data)
  BY <1>1, <1>2, GatherFirst
<1>4. GatherStep(q, m, ch, passes, g, 1).bytes = data
  BY <1>3 DEF Gathered
<1> QED BY <1>2, <1>4

Two(s, d, e) == s = <<d, e>>

LEMMA GatherBoth ==
  ASSUME NEW q, NEW m, NEW n \in Nat \ {0}, q.size = n, q.desc \in DOMAIN m,
         NEW ch, NEW data, NEW more, NEW T, data \in Seq(T), more \in Seq(T),
         Len(data) <= MAX_FRAME, RoomFor(data, more),
         NEW s, Two(s, In(data), In(more)), Built(n, m[q.desc], ch, s), NEW passes
  PROVE  Joined(Gather(q, m, ch[1], passes), data, more)
<1>1. PICK d, e : d = In(data) /\ e = In(more)
  BY Zenon
<1>2. PICK g : /\ Gathered(g, <<>>)
                /\ Like(Buffer(q, m, ch[1]), d) /\ Like(Buffer(q, m, ch[2]), e)
                /\ Gather(q, m, ch[1], passes)
                     = GatherStep(q, m, ch, passes, GatherStep(q, m, ch, passes, g, 1), 2).bytes
  <2>1. s = <<d, e>>
    BY <1>1, Zenon DEF Two
  <2> QED BY <2>1, GatherTwo
<1>3. PICK h : h = GatherStep(q, m, ch, passes, g, 1)
  OBVIOUS
<1>4. Gathered(h, data)
  BY <1>1, <1>2, <1>3, GatherFirst
<1>5. Readable(Buffer(q, m, ch[2]), more)
  <2>1. e.writable = FALSE /\ e.mapped = TRUE /\ e.data = more
    BY <1>1 DEF In
  <2> QED BY <1>2, <2>1, Zenon DEF Readable, Like
<1>6. PICK y : y = GatherStep(q, m, ch, passes, h, 2)
  OBVIOUS
<1>7. Gathered(y, data \o more)
  BY <1>4, <1>5, <1>6, GatherMore, Zenon
<1>8. y.bytes = data \o more
  BY <1>7 DEF Gathered
<1> QED BY <1>2, <1>3, <1>6, <1>8, Zenon DEF Joined

\* The second buffer is not mapped.
LEMMA GatherHeader ==
  ASSUME NEW q, NEW m, NEW n \in Nat \ {0}, q.size = n, q.desc \in DOMAIN m,
         NEW ch, NEW data, NEW T, data \in Seq(T), Len(data) <= MAX_FRAME, NEW e, e.mapped = FALSE,
         NEW s, Two(s, In(data), e), Built(n, m[q.desc], ch, s), NEW passes
  PROVE  Gather(q, m, ch[1], passes) = data
<1>1. PICK d : d = In(data)
  OBVIOUS
<1>2. PICK g : /\ Gathered(g, <<>>)
                /\ Like(Buffer(q, m, ch[1]), d) /\ Like(Buffer(q, m, ch[2]), e)
                /\ Gather(q, m, ch[1], passes)
                     = GatherStep(q, m, ch, passes, GatherStep(q, m, ch, passes, g, 1), 2).bytes
  <2>1. s = <<d, e>>
    BY <1>1, Zenon DEF Two
  <2> QED BY <2>1, GatherTwo
<1>3. PICK h : h = GatherStep(q, m, ch, passes, g, 1)
  OBVIOUS
<1>4. Gathered(h, data)
  BY <1>1, <1>2, <1>3, GatherFirst
<1>5. Passed(Buffer(q, m, ch[2]), data)
  BY <1>2, Zenon DEF Passed, Like
<1>6. GatherStep(q, m, ch, passes, h, 2).bytes = data
  BY <1>4, <1>5, GatherLess
<1> QED BY <1>2, <1>3, <1>6, Zenon

LEMMA GatherNone ==
  ASSUME NEW q, NEW m, NEW n \in Nat \ {0}, q.size = n, q.desc \in DOMAIN m,
         NEW ch, NEW s, NEW d, s = <<d>>, d.writable \in BOOLEAN, d.mapped \in BOOLEAN, ~Sendable(d),
         NEW T, d.data \in Seq(T), Built(n, m[q.desc], ch, s), NEW passes
  PROVE  Gather(q, m, ch[1], passes) = <<>>
<1>1. PICK g : /\ Gathered(g, <<>>) /\ Like(Buffer(q, m, ch[1]), d)
               /\ Gather(q, m, ch[1], passes) = GatherStep(q, m, ch, passes, g, 1).bytes
  BY GatherOne
<1>2. Passed(d, <<>>)
  BY BackendAssumptions DEF BackendAssumptions, Passed, Sendable, RoomFor
<1>3. Passed(Buffer(q, m, ch[1]), <<>>)
  BY <1>1, <1>2, Zenon DEF Passed, Like
<1>4. GatherStep(q, m, ch, passes, g, 1).bytes = <<>>
  BY <1>1, <1>3, GatherLess
<1> QED BY <1>1, <1>4

\* The chains of the transmission queue, and the frames they are for.
TxShape(k, s) ==
  \/ k = "net" /\ \/ \E v : Two(s, In(Zeros(NET_HDR_SIZE)), In(<<v>>))
                  \/ \E v : Two(s, In(Zeros(NET_HDR_SIZE)), Unmapped(In(<<v>>)))
                  \/ s = <<In(Zeros(NET_HDR_SIZE))>>
  \/ k = "vsock" /\ \/ \E v : s = <<In(<<5, 1, v>>)>>
                    \/ \E v : Two(s, In(<<5, 1>>), In(<<v>>))
                    \/ s = <<In(<<5, 1>>)>>
                    \/ s = <<In(<<5>>)>>
  \/ \E d : /\ s = <<d>> /\ ~Sendable(d)
            /\ d.writable \in BOOLEAN /\ d.mapped \in BOOLEAN /\ d.data \in Seq(Nat)

Raw(s) == IF Len(s) = 1 THEN s[1].data ELSE s[1].data \o s[2].data

Sent(k, s) ==
  IF \E j \in DOMAIN s : ~Sendable(s[j]) THEN <<>>
  ELSE IF k = "net" THEN IF Len(s) = 2 THEN <<s[2].data>> ELSE <<>>
  ELSE IF Len(Raw(s)) >= VSOCK_HDR_SIZE
       THEN <<[op |-> 5, len |-> Raw(s)[2], payload |-> SubSeq(Raw(s), 3, Len(Raw(s)))]>>
       ELSE <<>>

LEMMA ZerosSeq ==
  ASSUME NEW n \in Nat
  PROVE  Zeros(n) \in Seq(Nat) /\ Len(Zeros(n)) = n
  BY DEF Zeros

LEMMA OneOf ==
  ASSUME NEW T, NEW x \in Seq(T), NEW j \in 1..Len(x)
  PROVE  SubSeq(x, j, j) = <<x[j]>>
<1>1. SubSeq(x, j, j) = [h \in 1..1 |-> x[j + h - 1]]
  <2>1. j - j + 1 = 1 /\ Len(x) \in Nat
    OBVIOUS
  <2>2. SubSeq(x, j, j) = [h \in 1..(1 + j - j) |-> x[h + j - 1]]
    OBVIOUS
  <2> QED BY <2>1, <2>2
<1>2. \A h \in 1..1 : j + h - 1 = j
  OBVIOUS
<1> QED BY <1>1, <1>2

\* The sequence z begins with x and goes on with y.
Follows(T, x, y, z) ==
  /\ z \in Seq(T) /\ Len(z) = Len(x) + Len(y)
  /\ \A j \in 1..Len(x) : z[j] = x[j]
  /\ \A j \in 1..Len(y) : z[Len(x) + j] = y[j]

LEMMA JoinSeq ==
  ASSUME NEW T, NEW x, NEW y, NEW z, x \in Seq(T), y \in Seq(T), Joined(z, x, y)
  PROVE  Follows(T, x, y, z)
  BY DEF Follows, Joined

\* Which chains are sent at all.
LEMMA InSendable ==
  ASSUME NEW data, Len(data) <= MAX_FRAME
  PROVE  Sendable(In(data)) /\ In(data).data = data
  BY DEF Sendable, In

LEMMA NotSent ==
  ASSUME NEW k, NEW s, NEW d, s = <<d>>, ~Sendable(d)
  PROVE  Sent(k, s) = <<>>
<1>1. 1 \in DOMAIN s /\ s[1] = d
  OBVIOUS
<1> QED BY <1>1, Zenon DEF Sent

LEMMA OneSent ==
  ASSUME NEW s, NEW data, s = <<In(data)>>, Len(data) <= MAX_FRAME
  PROVE  (\A j \in DOMAIN s : Sendable(s[j])) /\ Len(s) = 1 /\ Raw(s) = data
<1>1. PICK d : d = In(data)
  OBVIOUS
<1>2. Sendable(d) /\ d.data = data
  BY <1>1, InSendable
<1>3. DOMAIN s = {1} /\ Len(s) = 1 /\ s[1] = d
  BY <1>1
<1> QED BY <1>2, <1>3, Zenon DEF Raw

LEMMA TwoSent ==
  ASSUME NEW s, NEW data, NEW e, Two(s, In(data), e), Len(data) <= MAX_FRAME
  PROVE  /\ Len(s) = 2 /\ s[2] = e /\ Raw(s) = data \o e.data
         /\ (\A j \in DOMAIN s : Sendable(s[j])) <=> Sendable(e)
<1>1. PICK d : d = In(data)
  OBVIOUS
<1>2. Sendable(d) /\ d.data = data
  BY <1>1, InSendable
<1>3. DOMAIN s = {1, 2} /\ Len(s) = 2 /\ s[1] = d /\ s[2] = e
  BY <1>1 DEF Two
<1>4. Len(s) # 1
  BY <1>3
<1> QED BY <1>2, <1>3, <1>4, Zenon DEF Raw

LEMMA NetSends ==
  ASSUME NEW q, NEW m, NEW n \in Nat \ {0}, q.size = n, q.desc \in DOMAIN m,
         NEW ch, NEW s, Built(n, m[q.desc], ch, s), TxShape("net", s)
  PROVE  NetTx(q, m, ch[1]) = Sent("net", s)
<1>0. PICK h, z : h = NET_HDR_SIZE /\ z = Zeros(NET_HDR_SIZE)
  BY Zenon
<1>1. h \in Nat /\ h < MAX_FRAME /\ MAX_FRAME \in Nat /\ z \in Seq(Nat) /\ Len(z) = h
  BY <1>0, BackendAssumptions, ZerosSeq DEF BackendAssumptions
<1>2. Len(z) <= MAX_FRAME /\ ~(Len(z) > h)
  BY <1>1
<1>3. CASE s = <<In(z)>>
  <2>1. Gather(q, m, ch[1], TRUE) = z
    BY <1>1, <1>2, <1>3, GatherRead
  <2>2. NetTx(q, m, ch[1]) = <<>>
    BY <1>0, <1>2, <2>1, Zenon DEF NetTx
  <2>3. Len(s) # 2
    BY <1>3
  <2> QED BY <2>2, <2>3, Zenon DEF Sent
<1>4. ASSUME NEW d, s = <<d>>, ~Sendable(d), d.writable \in BOOLEAN, d.mapped \in BOOLEAN,
             d.data \in Seq(Nat)
      PROVE  NetTx(q, m, ch[1]) = Sent("net", s)
  <2>1. Gather(q, m, ch[1], TRUE) = <<>>
    BY <1>4, GatherNone
  <2>2. PICK x : x = <<>>
    OBVIOUS
  <2>3. ~(Len(x) > h)
    BY <1>1, <2>2
  <2>4. NetTx(q, m, ch[1]) = <<>>
    BY <1>0, <2>1, <2>2, <2>3, Zenon DEF NetTx
  <2> QED BY <1>4, <2>4, NotSent
<1>5. ASSUME NEW v, Two(s, In(z), Unmapped(In(<<v>>))) PROVE NetTx(q, m, ch[1]) = Sent("net", s)
  <2>1. PICK e : e = Unmapped(In(<<v>>))
    OBVIOUS
  <2>2. e.mapped = FALSE
    BY <2>1 DEF Unmapped, In
  <2>3. Gather(q, m, ch[1], TRUE) = z
    BY <1>1, <1>2, <1>5, <2>1, <2>2, GatherHeader
  <2>4. NetTx(q, m, ch[1]) = <<>>
    BY <1>0, <1>2, <2>3, Zenon DEF NetTx
  <2>5. ~Sendable(e)
    BY <2>2, Zenon DEF Sendable
  <2>6. ~(\A j \in DOMAIN s : Sendable(s[j]))
    BY <1>2, <1>5, <2>1, <2>5, TwoSent
  <2> QED BY <2>4, <2>6, Zenon DEF Sent
<1>6. ASSUME NEW v, Two(s, In(z), In(<<v>>)) PROVE NetTx(q, m, ch[1]) = Sent("net", s)
  <2>1. PICK T : T = Nat \cup {v}
    OBVIOUS
  <2>2. PICK u : u = <<v>>
    OBVIOUS
  <2>3. z \in Seq(T) /\ u \in Seq(T) /\ Len(u) = 1 /\ u[1] = v
    BY <1>1, <2>1, <2>2
  <2>4. RoomFor(z, u) /\ Len(u) <= MAX_FRAME
    BY <1>1, <2>3 DEF RoomFor
  <2>5. Joined(Gather(q, m, ch[1], TRUE), z, u)
    <3>1. Two(s, In(z), In(u))
      BY <1>6, <2>2, Zenon
    <3> QED BY <1>2, <2>3, <2>4, <3>1, GatherBoth
  <2>6. PICK data : data = z \o u
    OBVIOUS
  <2>7. Len(data) = h + 1 /\ data[h + 1] = v /\ data \in Seq(T)
    <3>0. Joined(data, z, u)
      BY <2>6, Zenon DEF Joined
    <3>1. Follows(T, z, u, data)
      BY <2>3, <3>0, JoinSeq, Zenon
    <3>2. 1 \in 1..Len(u)
      BY <2>3
    <3> QED BY <1>1, <2>3, <3>1, <3>2 DEF Follows
  <2>8. NetTx(q, m, ch[1]) = <<SubSeq(data, h + 1, h + 1)>>
    <3>1. Len(data) > h
      BY <1>1, <2>7
    <3>2. Gather(q, m, ch[1], TRUE) = data
      BY <2>5, <2>6, Zenon DEF Joined
    <3> QED BY <1>0, <2>7, <3>1, <3>2, Zenon DEF NetTx
  <2>9. SubSeq(data, h + 1, h + 1) = u
    BY <1>1, <2>2, <2>7, OneOf
  <2>10. PICK e : e = In(u)
    OBVIOUS
  <2>11. Sendable(e) /\ e.data = u
    BY <2>4, <2>10, InSendable
  <2>12. Len(s) = 2 /\ s[2] = e /\ \A j \in DOMAIN s : Sendable(s[j])
    BY <1>2, <1>6, <2>2, <2>10, <2>11, TwoSent
  <2> QED BY <2>8, <2>9, <2>11, <2>12, Zenon DEF Sent
<1>7. \/ s = <<In(z)>> \/ (\E v : Two(s, In(z), In(<<v>>)))
      \/ (\E v : Two(s, In(z), Unmapped(In(<<v>>))))
      \/ \E d : /\ s = <<d>> /\ ~Sendable(d)
                /\ d.writable \in BOOLEAN /\ d.mapped \in BOOLEAN /\ d.data \in Seq(Nat)
  BY <1>0, Zenon DEF TxShape
<1> QED BY <1>3, <1>4, <1>5, <1>6, <1>7, Zenon

\* The bytes of a packet of at most one byte of payload.
Packet(raw) ==
  /\ Len(raw) \in 1..3 /\ raw[1] = 5 /\ (Len(raw) > 1 => raw[2] = 1) /\ \E S : raw \in Seq(S)

LEMMA VsockSends ==
  ASSUME NEW q, NEW m, NEW n \in Nat \ {0}, q.size = n, q.desc \in DOMAIN m,
         NEW ch, NEW s, Built(n, m[q.desc], ch, s), TxShape("vsock", s)
  PROVE  VsockTx(q, m, ch[1]) = Sent("vsock", s)
<1>1. MAX_FRAME \in Nat /\ 2 < MAX_FRAME
  BY BackendAssumptions DEF BackendAssumptions, VSOCK_HDR_SIZE
<1>2. ASSUME NEW d, s = <<d>>, ~Sendable(d), d.writable \in BOOLEAN, d.mapped \in BOOLEAN,
             d.data \in Seq(Nat)
      PROVE  VsockTx(q, m, ch[1]) = Sent("vsock", s)
  <2>1. Gather(q, m, ch[1], FALSE) = <<>>
    BY <1>2, GatherNone
  <2>2. PICK x : x = <<>>
    OBVIOUS
  <2>3. ~(Len(x) >= VSOCK_HDR_SIZE)
    BY <2>2 DEF VSOCK_HDR_SIZE
  <2>4. VsockTx(q, m, ch[1]) = <<>>
    BY <2>1, <2>2, <2>3, Zenon DEF VsockTx
  <2> QED BY <1>2, <2>4, NotSent
<1>3. ASSUME NEW raw, Gather(q, m, ch[1], FALSE) = raw, Raw(s) = raw,
             \A j \in DOMAIN s : Sendable(s[j]), Packet(raw)
      PROVE  VsockTx(q, m, ch[1]) = Sent("vsock", s)
  <2>0. Len(raw) \in 1..3 /\ raw[1] = 5 /\ (Len(raw) > 1 => raw[2] = 1) /\ \E S : raw \in Seq(S)
    BY <1>3 DEF Packet
  <2>1. CASE Len(raw) = 1
    <3>1. ~(Len(raw) >= 2)
      BY <2>1
    <3> QED BY <1>3, <3>1, Zenon DEF VsockTx, Sent, VSOCK_HDR_SIZE
  <2>2. CASE Len(raw) = 2
    <3>1. Len(raw) >= 2 /\ raw[2] = 1 /\ ~(2 + 1 <= Len(raw))
      BY <2>0, <2>2
    <3>2. SubSeq(raw, 3, Len(raw)) = <<>>
      BY <2>0, <2>2
    <3> QED BY <1>3, <2>0, <3>1, <3>2, Zenon DEF VsockTx, Sent, VSOCK_HDR_SIZE
  <2>3. CASE Len(raw) = 3
    <3>1. Len(raw) >= 2 /\ raw[2] = 1 /\ 2 + 1 <= Len(raw) /\ 2 + 1 = Len(raw) /\ 2 + 1 = 3
      BY <2>0, <2>3
    <3> QED BY <1>3, <2>0, <3>1, Zenon DEF VsockTx, Sent, VSOCK_HDR_SIZE
  <2> QED BY <2>0, <2>1, <2>2, <2>3
<1>4. ASSUME NEW raw, s = <<In(raw)>>, Packet(raw)
      PROVE  VsockTx(q, m, ch[1]) = Sent("vsock", s)
  <2>0. PICK S : raw \in Seq(S)
    BY <1>4 DEF Packet
  <2>1. Len(raw) <= MAX_FRAME
    <3>1. PICK l, top : l = Len(raw) /\ top = MAX_FRAME
      BY Zenon
    <3>2. l \in 1..3
      BY <1>4, <3>1 DEF Packet
    <3>3. top \in Nat /\ 2 < top
      BY <1>1, <3>1
    <3>4. l <= top
      BY <3>2, <3>3
    <3> QED BY <3>1, <3>4, Zenon
  <2>2. Gather(q, m, ch[1], FALSE) = raw
    BY <1>4, <2>0, <2>1, GatherRead
  <2>3. (\A j \in DOMAIN s : Sendable(s[j])) /\ Raw(s) = raw
    BY <1>4, <2>1, OneSent
  <2> QED BY <1>3, <1>4, <2>2, <2>3, Zenon
<1>5. ASSUME NEW v, Two(s, In(<<5, 1>>), In(<<v>>)) PROVE VsockTx(q, m, ch[1]) = Sent("vsock", s)
  <2>1. PICK T : T = Nat \cup {v}
    OBVIOUS
  <2>2. PICK x, y : x = <<5, 1>> /\ y = <<v>>
    OBVIOUS
  <2>3. x \in Seq(T) /\ y \in Seq(T) /\ Len(x) = 2 /\ Len(y) = 1 /\ x[1] = 5 /\ x[2] = 1
    BY <2>1, <2>2
  <2>4. RoomFor(x, y) /\ Len(x) <= MAX_FRAME /\ Len(y) <= MAX_FRAME
    BY <1>1, <2>3 DEF RoomFor
  <2>5. Two(s, In(x), In(y))
    BY <1>5, <2>2, Zenon
  <2>6. Joined(Gather(q, m, ch[1], FALSE), x, y)
    BY <2>3, <2>4, <2>5, GatherBoth
  <2>7. PICK raw : raw = x \o y
    OBVIOUS
  <2>8. Packet(raw)
    <3>0. Joined(raw, x, y)
      BY <2>7, Zenon DEF Joined
    <3>1. Follows(T, x, y, raw)
      BY <2>3, <3>0, JoinSeq, Zenon
    <3>2. 1 \in 1..Len(x) /\ 2 \in 1..Len(x)
      BY <2>3
    <3> QED BY <2>3, <3>1, <3>2 DEF Packet, Follows
  <2>9. PICK e : e = In(y)
    OBVIOUS
  <2>10. Sendable(e) /\ e.data = y
    BY <2>4, <2>9, InSendable
  <2>11. Raw(s) = x \o e.data /\ \A j \in DOMAIN s : Sendable(s[j])
    BY <2>4, <2>5, <2>9, <2>10, TwoSent
  <2>12. Raw(s) = raw /\ Gather(q, m, ch[1], FALSE) = raw
    BY <2>6, <2>7, <2>10, <2>11, Zenon DEF Joined
  <2> QED BY <1>3, <2>8, <2>11, <2>12, Zenon
<1>6. ASSUME NEW v, s = <<In(<<5, 1, v>>)>> PROVE VsockTx(q, m, ch[1]) = Sent("vsock", s)
  <2>1. PICK T : T = Nat \cup {v}
    OBVIOUS
  <2>2. PICK raw : raw = <<5, 1, v>>
    OBVIOUS
  <2>3. raw \in Seq(T) /\ Len(raw) = 3 /\ raw[1] = 5 /\ raw[2] = 1
    BY <2>1, <2>2
  <2>4. Packet(raw)
    BY <2>3 DEF Packet
  <2> QED BY <1>4, <1>6, <2>2, <2>4, Zenon
<1>7. CASE s = <<In(<<5, 1>>)>>
  <2>1. PICK raw : raw = <<5, 1>>
    OBVIOUS
  <2>2. raw \in Seq(Nat) /\ Len(raw) = 2 /\ raw[1] = 5 /\ raw[2] = 1
    BY <2>1
  <2>3. Packet(raw)
    BY <2>2 DEF Packet
  <2> QED BY <1>4, <1>7, <2>1, <2>3, Zenon
<1>8. CASE s = <<In(<<5>>)>>
  <2>1. PICK raw : raw = <<5>>
    OBVIOUS
  <2>2. raw \in Seq(Nat) /\ Len(raw) = 1 /\ raw[1] = 5 /\ ~(1 > 1)
    BY <2>1
  <2>3. Packet(raw)
    BY <2>2 DEF Packet
  <2> QED BY <1>4, <1>8, <2>1, <2>3, Zenon
<1>9. \/ (\E v : s = <<In(<<5, 1, v>>)>>) \/ (\E v : Two(s, In(<<5, 1>>), In(<<v>>)))
      \/ s = <<In(<<5, 1>>)>> \/ s = <<In(<<5>>)>>
      \/ \E d : /\ s = <<d>> /\ ~Sendable(d)
                /\ d.writable \in BOOLEAN /\ d.mapped \in BOOLEAN /\ d.data \in Seq(Nat)
  BY Zenon DEF TxShape
<1> QED BY <1>2, <1>5, <1>6, <1>7, <1>8, <1>9, Zenon

-----------------------------------------------------------------------------
(* The frames under way from the guest: those in the channel are the first of *)
(* those expected, and the chains that wait carry the others, in their order. *)

Carries(k, n, table, ch, full, fr) ==
  \E s : /\ Built(n, table, ch, s) /\ TxShape(k, s)
         /\ Sent(k, s) = IF full THEN <<fr>> ELSE <<>>

Waits(k, n, table, fly, r, exp, I, f) ==
  \A x \in (r + 1)..Len(fly) : Carries(k, n, table, fly[x], x \in I, exp[f[x]])

Begins(chan, exp) ==
  /\ \E S : chan \in Seq(S) /\ exp \in Seq(S)
  /\ Len(chan) <= Len(exp) /\ \A j \in 1..Len(chan) : chan[j] = exp[j]

TxIs(k, n, table, fly, r, chan, exp) ==
  /\ DOMAIN table = 0..(n - 1) /\ Begins(chan, exp)
  /\ \E I, f : /\ Numbers(I, Len(chan), Len(exp), f) /\ I \subseteq (r + 1)..Len(fly)
               /\ Waits(k, n, table, fly, r, exp, I, f)

\* The table keeps what the chains that wait hold.
Keeps(fly, r, table, table2) ==
  \A x \in (r + 1)..Len(fly) : \A j \in DOMAIN fly[x] : table2[fly[x][j]] = table[fly[x][j]]

LEMMA CarriesKept ==
  ASSUME NEW k, NEW n, NEW table, NEW table2, NEW ch, NEW full, NEW fr,
         Carries(k, n, table, ch, full, fr),
         \A j \in DOMAIN ch : table2[ch[j]] = table[ch[j]]
  PROVE  Carries(k, n, table2, ch, full, fr)
<1>1. PICK s : /\ Built(n, table, ch, s) /\ TxShape(k, s)
               /\ Sent(k, s) = IF full THEN <<fr>> ELSE <<>>
  BY Zenon DEF Carries
<1>2. DOMAIN ch = 1..Len(s)
  <2>1. ch = [j \in 1..Len(s) |-> ch[j]]
    BY <1>1, Zenon DEF Built
  <2> QED BY <2>1, Zenon
<1>3. Built(n, table2, ch, s)
  BY <1>1, <1>2, BuiltKept, Zenon
<1> QED BY <1>1, <1>3, Zenon DEF Carries

LEMMA TxNone ==
  ASSUME NEW k, NEW n, NEW table, DOMAIN table = 0..(n - 1), NEW S, NEW exp \in Seq(S)
  PROVE  TxIs(k, n, table, <<>>, 0, exp, exp)
<1>1. Begins(exp, exp) /\ Len(exp) \in Nat
  BY DEF Begins
<1>2. PICK f : Numbers({}, Len(exp), Len(exp), f)
  BY <1>1, NumbersNone
<1>3. (0 + 1)..Len(<<>>) = {}
  OBVIOUS
<1>4. Waits(k, n, table, <<>>, 0, exp, {}, f)
  BY <1>3, Zenon DEF Waits
<1>5. {} \subseteq (0 + 1)..Len(<<>>)
  OBVIOUS
<1> QED BY <1>1, <1>2, <1>4, <1>5, Zenon DEF TxIs

LEMMA TxFacts ==
  ASSUME NEW k, NEW n, NEW table, NEW fly, NEW r \in Nat, NEW chan, NEW exp,
         TxIs(k, n, table, fly, r, chan, exp), Len(fly) \in Nat
  PROVE  /\ Len(chan) <= Len(exp) /\ chan = SubSeq(exp, 1, Len(chan))
         /\ ~(r < Len(fly)) => chan = exp
<1>1. PICK S : chan \in Seq(S) /\ exp \in Seq(S)
  BY DEF TxIs, Begins
<1>2. Len(chan) <= Len(exp) /\ \A j \in 1..Len(chan) : chan[j] = exp[j]
  BY DEF TxIs, Begins
<1>3. chan = SubSeq(exp, 1, Len(chan))
  BY <1>1, <1>2
<1>4. ASSUME ~(r < Len(fly)) PROVE chan = exp
  <2>1. PICK I, f : Numbers(I, Len(chan), Len(exp), f) /\ I \subseteq (r + 1)..Len(fly)
    BY Zenon DEF TxIs
  <2>2. (r + 1)..Len(fly) = {}
    BY <1>4
  <2>3. Numbers({}, Len(chan), Len(exp), f)
    BY <2>1, <2>2
  <2>4. Len(chan) = Len(exp)
    BY <2>3, NoneNumbers
  <2> QED BY <1>1, <1>2, <2>4, SeqEqual
<1> QED BY <1>2, <1>3, <1>4

\* The driver makes a chain available.
LEMMA TxSubmit ==
  ASSUME NEW k, NEW n, NEW table, NEW fly, NEW r \in Nat, NEW chan, NEW exp,
         TxIs(k, n, table, fly, r, chan, exp), Len(fly) \in Nat, r <= Len(fly),
         NEW table2, DOMAIN table2 = 0..(n - 1), Keeps(fly, r, table, table2),
         NEW ch, NEW fly2, Longer(fly, fly2, ch),
         NEW s, Built(n, table2, ch, s), TxShape(k, s),
         NEW exp2, exp2 = exp \o Sent(k, s)
  PROVE  TxIs(k, n, table2, fly2, r, chan, exp2)
<1>1. PICK S : chan \in Seq(S) /\ exp \in Seq(S)
  BY DEF TxIs, Begins
<1>2. Len(chan) <= Len(exp) /\ (\A j \in 1..Len(chan) : chan[j] = exp[j])
  BY DEF TxIs, Begins
<1>3. PICK I, f : /\ Numbers(I, Len(chan), Len(exp), f) /\ I \subseteq (r + 1)..Len(fly)
                  /\ Waits(k, n, table, fly, r, exp, I, f)
  BY Zenon DEF TxIs
<1>4. PICK z \in Nat : z = Len(fly) + 1
  OBVIOUS
<1>5. Len(fly2) = z /\ fly2[z] = ch /\ \A x \in 1..Len(fly) : fly2[x] = fly[x]
  BY <1>4 DEF Longer
<1>6. \A x \in (r + 1)..Len(fly2) : x # z => x \in (r + 1)..Len(fly) /\ fly2[x] = fly[x]
  BY <1>4, <1>5
<1>7. ASSUME NEW x \in (r + 1)..Len(fly)
      PROVE  Carries(k, n, table2, fly[x], x \in I, exp[f[x]])
  <2>1. Carries(k, n, table, fly[x], x \in I, exp[f[x]])
    BY <1>3, Zenon DEF Waits
  <2>2. \A j \in DOMAIN fly[x] : table2[fly[x][j]] = table[fly[x][j]]
    BY Zenon DEF Keeps
  <2> QED BY <2>1, <2>2, CarriesKept, Zenon
<1>8. z \notin I /\ z \in (r + 1)..Len(fly2) /\ I \subseteq (r + 1)..Len(fly2)
  BY <1>3, <1>4, <1>5
<1>9. CASE Sent(k, s) = <<>>
  <2>1. exp2 = exp
    BY <1>1, <1>9
  <2>2. Carries(k, n, table2, ch, z \in I, exp[f[z]])
    BY <1>8, <1>9, Zenon DEF Carries
  <2>3. Waits(k, n, table2, fly2, r, exp, I, f)
    BY <1>5, <1>6, <1>7, <2>2, Zenon DEF Waits
  <2> QED BY <1>3, <1>8, <2>1, <2>3, Zenon DEF TxIs
<1>10. ASSUME NEW fr, Sent(k, s) = <<fr>> PROVE TxIs(k, n, table2, fly2, r, chan, exp2)
  <2>1. PICK T : T = S \cup {fr}
    OBVIOUS
  <2>2. exp2 \in Seq(T) /\ chan \in Seq(T) /\ Len(exp2) = Len(exp) + 1
        /\ exp2[Len(exp) + 1] = fr /\ \A j \in 1..Len(exp) : exp2[j] = exp[j]
    <3>1. S \subseteq T /\ fr \in T
      BY <2>1
    <3>2. chan \in Seq(T) /\ exp \in Seq(T)
      BY <1>1, <3>1
    <3>3. exp2 = exp \o <<fr>>
      BY <1>10
    <3> QED BY <3>1, <3>2, <3>3
  <2>3. Begins(chan, exp2)
    BY <1>1, <1>2, <2>2 DEF Begins
  <2>4. PICK I2, g : I2 = I \cup {z} /\ g = [y \in I \cup {z} |-> IF y = z THEN Len(exp) + 1 ELSE f[y]]
    BY Zenon
  <2>5. \A y \in I : y < z
    BY <1>3, <1>4
  <2>6. Numbers(I2, Len(chan), Len(exp2), g)
    <3>1. Numbers(I \cup {z}, Len(chan), Len(exp) + 1, g)
      BY <1>3, <2>4, <2>5, NumbersMore
    <3> QED BY <2>2, <2>4, <3>1, Zenon
  <2>7. I2 \subseteq (r + 1)..Len(fly2)
    BY <1>8, <2>4
  <2>8. /\ g[z] = Len(exp) + 1 /\ z \in I2
        /\ \A y \in I : g[y] = f[y]
        /\ \A y : y # z => (y \in I2 <=> y \in I)
    BY <1>8, <2>4
  <2>9. Carries(k, n, table2, ch, z \in I2, exp2[g[z]])
    <3>1. exp2[g[z]] = fr
      BY <2>2, <2>8, Zenon
    <3> QED BY <1>10, <2>8, <3>1, Zenon DEF Carries
  <2>10. ASSUME NEW x \in (r + 1)..Len(fly2), x # z
         PROVE  Carries(k, n, table2, fly2[x], x \in I2, exp2[g[x]])
    <3>1. Carries(k, n, table2, fly2[x], x \in I, exp[f[x]])
      BY <1>6, <1>7, <2>10, Zenon
    <3>2. CASE x \in I
      <4>1. f[x] \in 1..Len(exp)
        BY <1>1, <1>3, <3>2 DEF Numbers
      <4>2. exp2[g[x]] = exp[f[x]]
        BY <2>2, <2>8, <3>2, <4>1, Zenon
      <4> QED BY <2>8, <2>10, <3>1, <3>2, <4>2, Zenon DEF Carries
    <3>3. CASE x \notin I
      BY <2>8, <2>10, <3>1, <3>3, Zenon DEF Carries
    <3> QED BY <3>2, <3>3
  <2>11. Waits(k, n, table2, fly2, r, exp2, I2, g)
    BY <1>5, <2>9, <2>10, Zenon DEF Waits
  <2> QED BY <2>3, <2>6, <2>7, <2>11, Zenon DEF TxIs
<1>11. Sent(k, s) = <<>> \/ \E fr : Sent(k, s) = <<fr>>
  BY Zenon DEF Sent
<1> QED BY <1>9, <1>10, <1>11

\* The device takes the next chain and sends what it carries.
LEMMA TxTake ==
  ASSUME NEW k, NEW n, NEW table, NEW fly, NEW r \in Nat, NEW chan, NEW exp,
         TxIs(k, n, table, fly, r, chan, exp), Len(fly) \in Nat, r < Len(fly)
  PROVE  \E s : /\ Built(n, table, fly[r + 1], s) /\ TxShape(k, s)
                /\ TxIs(k, n, table, fly, r + 1, chan \o Sent(k, s), exp)
<1>1. PICK S : chan \in Seq(S) /\ exp \in Seq(S)
  BY DEF TxIs, Begins
<1>2. Len(chan) <= Len(exp) /\ (\A j \in 1..Len(chan) : chan[j] = exp[j])
  BY DEF TxIs, Begins
<1>3. PICK I, f : /\ Numbers(I, Len(chan), Len(exp), f) /\ I \subseteq (r + 1)..Len(fly)
                  /\ Waits(k, n, table, fly, r, exp, I, f)
  BY Zenon DEF TxIs
<1>4. PICK z \in Nat : z = r + 1
  OBVIOUS
<1>5. z \in (r + 1)..Len(fly) /\ \A x \in (z + 1)..Len(fly) : x \in (r + 1)..Len(fly)
  BY <1>4
<1>6. PICK s : /\ Built(n, table, fly[z], s) /\ TxShape(k, s)
               /\ Sent(k, s) = IF z \in I THEN <<exp[f[z]]>> ELSE <<>>
  <2>1. Carries(k, n, table, fly[z], z \in I, exp[f[z]])
    BY <1>3, <1>5, Zenon DEF Waits
  <2> QED BY <2>1, Zenon DEF Carries
<1>7. DOMAIN table = 0..(n - 1)
  BY DEF TxIs
<1>8. CASE z \notin I
  <2>1. chan \o Sent(k, s) = chan
    BY <1>1, <1>6, <1>8
  <2>2. I \subseteq (z + 1)..Len(fly)
    BY <1>3, <1>4, <1>8
  <2>3. Waits(k, n, table, fly, z, exp, I, f)
    BY <1>3, <1>5, Zenon DEF Waits
  <2>4. Begins(chan, exp)
    BY DEF TxIs
  <2>5. TxIs(k, n, table, fly, z, chan, exp)
    BY <1>3, <1>7, <2>2, <2>3, <2>4, Zenon DEF TxIs
  <2> QED BY <1>4, <1>6, <2>1, <2>5, Zenon
<1>9. CASE z \in I
  <2>1. \A y \in I : y # z => z < y
    BY <1>3, <1>4
  <2>2. PICK J, g, p : J = I \ {z} /\ g = [y \in J |-> f[y]] /\ p = Len(chan) + 1
    BY Zenon
  <2>3. f[z] = p /\ p <= Len(exp) /\ Numbers(J, p, Len(exp), g)
    <3>1. f[z] = Len(chan) + 1 /\ Len(chan) + 1 <= Len(exp)
          /\ Numbers(J, Len(chan) + 1, Len(exp), g)
      <4>1. IsFirst(I, z)
        BY <1>9, <2>1, Zenon DEF IsFirst
      <4>2. Others(I, f, z, J, g)
        BY <2>2, Zenon DEF Others
      <4>3. Less(Len(chan), Len(exp), f, z, J, g)
        BY <1>3, <4>1, <4>2, NumbersLess
      <4> QED BY <4>3, Zenon DEF Less
    <3> QED BY <2>2, <3>1, Zenon
  <2>4. PICK chan2 : chan2 = chan \o <<exp[p]>>
    OBVIOUS
  <2>5. chan2 = chan \o Sent(k, s)
    BY <1>6, <1>9, <2>3, <2>4, Zenon
  <2>6. /\ chan2 \in Seq(S) /\ Len(chan2) = p /\ chan2[p] = exp[p]
        /\ \A j \in 1..Len(chan) : chan2[j] = chan[j]
    <3>1. exp[p] \in S
      BY <1>1, <2>2, <2>3
    <3> QED BY <1>1, <2>2, <2>4, <3>1
  <2>7. Begins(chan2, exp)
    <3>1. ASSUME NEW j \in 1..p PROVE chan2[j] = exp[j]
      <4>1. j = p \/ j \in 1..Len(chan)
        BY <1>1, <2>2
      <4> QED BY <1>2, <2>6, <4>1
    <3> QED BY <1>1, <2>3, <2>6, <3>1, Zenon DEF Begins
  <2>8. J \subseteq (z + 1)..Len(fly)
    BY <1>3, <1>4, <2>2
  <2>9. ASSUME NEW x \in (z + 1)..Len(fly) PROVE Carries(k, n, table, fly[x], x \in J, exp[g[x]])
    <3>1. Carries(k, n, table, fly[x], x \in I, exp[f[x]])
      BY <1>3, <1>5, Zenon DEF Waits
    <3>2. x # z
      OBVIOUS
    <3>3. CASE x \in I
      <4>1. x \in J /\ g[x] = f[x]
        BY <2>2, <3>2, <3>3
      <4> QED BY <3>1, <3>3, <4>1, Zenon DEF Carries
    <3>4. CASE x \notin I
      <4>1. x \notin J
        BY <2>2, <3>4
      <4> QED BY <3>1, <3>4, <4>1, Zenon DEF Carries
    <3> QED BY <3>3, <3>4
  <2>10. Waits(k, n, table, fly, z, exp, J, g)
    BY <2>9, Zenon DEF Waits
  <2>11. TxIs(k, n, table, fly, z, chan2, exp)
    BY <1>7, <2>3, <2>6, <2>7, <2>8, <2>10, Zenon DEF TxIs
  <2> QED BY <1>4, <1>6, <2>5, <2>11, Zenon
<1> QED BY <1>8, <1>9

\* The driver takes back the chain that was returned first.
Shorter(fly, fly2) ==
  /\ Len(fly2) = Len(fly) - 1
  /\ \A j \in 1..(Len(fly) - 1) : fly2[j] = fly[j + 1]

LEMMA TxForget ==
  ASSUME NEW k, NEW n, NEW table, NEW fly, NEW r \in Nat \ {0}, NEW chan, NEW exp,
         TxIs(k, n, table, fly, r, chan, exp), Len(fly) \in Nat, r <= Len(fly),
         NEW table2, DOMAIN table2 = 0..(n - 1), Keeps(fly, r, table, table2),
         NEW fly2, Shorter(fly, fly2)
  PROVE  TxIs(k, n, table2, fly2, r - 1, chan, exp)
<1>1. PICK I, f : /\ Numbers(I, Len(chan), Len(exp), f) /\ I \subseteq (r + 1)..Len(fly)
                  /\ Waits(k, n, table, fly, r, exp, I, f)
  BY Zenon DEF TxIs
<1>2. PICK J, g : J = {y \in Nat : y + 1 \in I} /\ g = [y \in J |-> f[y + 1]]
  BY Zenon
<1>3. 0 \notin I
  BY <1>1
<1>4. Numbers(J, Len(chan), Len(exp), g)
  BY <1>1, <1>2, <1>3, NumbersMoved
<1>5. J \subseteq (r - 1 + 1)..Len(fly2)
  BY <1>1, <1>2 DEF Shorter
<1>6. ASSUME NEW x \in (r - 1 + 1)..Len(fly2)
      PROVE  Carries(k, n, table2, fly2[x], x \in J, exp[g[x]])
  <2>1. PICK y \in (r + 1)..Len(fly) : y = x + 1
    BY DEF Shorter
  <2>2. fly2[x] = fly[y] /\ x \in Nat
    BY <2>1 DEF Shorter
  <2>3. Carries(k, n, table, fly[y], y \in I, exp[f[y]])
    BY <1>1, Zenon DEF Waits
  <2>4. \A j \in DOMAIN fly[y] : table2[fly[y][j]] = table[fly[y][j]]
    BY Zenon DEF Keeps
  <2>5. Carries(k, n, table2, fly[y], y \in I, exp[f[y]])
    BY <2>3, <2>4, CarriesKept, Zenon
  <2>6. CASE y \in I
    <3>1. x \in J /\ g[x] = f[y]
      BY <1>2, <2>1, <2>2, <2>6
    <3> QED BY <2>2, <2>5, <2>6, <3>1, Zenon DEF Carries
  <2>7. CASE y \notin I
    <3>1. x \notin J
      BY <1>2, <2>1, <2>7
    <3> QED BY <2>2, <2>5, <2>7, <3>1, Zenon DEF Carries
  <2> QED BY <2>6, <2>7
<1>7. Waits(k, n, table2, fly2, r - 1, exp, J, g)
  BY <1>6, Zenon DEF Waits
<1>8. Begins(chan, exp)
  BY DEF TxIs
<1> QED BY <1>4, <1>5, <1>7, <1>8, Zenon DEF TxIs

\* The host takes a frame from the channel.
LEMMA TxReceive ==
  ASSUME NEW k, NEW n, NEW table, NEW fly, NEW r, NEW chan, NEW exp,
         TxIs(k, n, table, fly, r, chan, exp), chan # <<>>
  PROVE  TxIs(k, n, table, fly, r, Tail(chan), Tail(exp))
<1>1. PICK S : chan \in Seq(S) /\ exp \in Seq(S)
  BY DEF TxIs, Begins
<1>2. Len(chan) <= Len(exp) /\ (\A j \in 1..Len(chan) : chan[j] = exp[j])
  BY DEF TxIs, Begins
<1>3. PICK I, f : /\ Numbers(I, Len(chan), Len(exp), f) /\ I \subseteq (r + 1)..Len(fly)
                  /\ Waits(k, n, table, fly, r, exp, I, f)
  BY Zenon DEF TxIs
<1>4. Len(chan) \in Nat \ {0} /\ Len(exp) \in Nat \ {0} /\ exp # <<>>
  BY <1>1, <1>2
<1>5. PICK chan2, exp2 : chan2 = Tail(chan) /\ exp2 = Tail(exp)
  BY Zenon
<1>6. /\ chan2 \in Seq(S) /\ Len(chan2) = Len(chan) - 1
      /\ \A j \in 1..Len(chan2) : chan2[j] = chan[j + 1]
  BY <1>1, <1>4, <1>5
<1>7. /\ exp2 \in Seq(S) /\ Len(exp2) = Len(exp) - 1
      /\ \A j \in 1..Len(exp2) : exp2[j] = exp[j + 1]
  BY <1>1, <1>4, <1>5
<1>8. Begins(chan2, exp2)
  <2>1. Len(chan2) <= Len(exp2)
    BY <1>2, <1>4, <1>6, <1>7
  <2>2. \A j \in 1..Len(chan2) : chan2[j] = exp2[j]
    BY <1>2, <1>4, <1>6, <1>7
  <2> QED BY <1>6, <1>7, <2>1, <2>2 DEF Begins
<1>9. PICK g : g = [y \in I |-> f[y] - 1]
  OBVIOUS
<1>10. Numbers(I, Len(chan2), Len(exp2), g)
  <2>1. Len(chan) # 0
    BY <1>4
  <2>2. Numbers(I, Len(chan) - 1, Len(exp) - 1, g)
    BY <1>3, <1>9, <2>1, NumbersLower
  <2> QED BY <1>6, <1>7, <2>2, Zenon
<1>11. ASSUME NEW x \in (r + 1)..Len(fly)
       PROVE  Carries(k, n, table, fly[x], x \in I, exp2[g[x]])
  <2>1. Carries(k, n, table, fly[x], x \in I, exp[f[x]])
    BY <1>3, Zenon DEF Waits
  <2>2. CASE x \in I
    <3>1. f[x] \in (Len(chan) + 1)..Len(exp) /\ g[x] = f[x] - 1
      BY <1>3, <1>9, <2>2 DEF Numbers
    <3>2. g[x] \in 1..Len(exp2) /\ g[x] + 1 = f[x]
      BY <1>4, <1>7, <3>1
    <3>3. exp2[g[x]] = exp[f[x]]
      BY <1>7, <3>2
    <3> QED BY <2>1, <3>3, Zenon
  <2>3. CASE x \notin I
    BY <2>1, <2>3, Zenon DEF Carries
  <2> QED BY <2>2, <2>3
<1>12. Waits(k, n, table, fly, r, exp2, I, g)
  BY <1>11, Zenon DEF Waits
<1>13. DOMAIN table = 0..(n - 1)
  BY DEF TxIs
<1> QED BY <1>3, <1>5, <1>8, <1>10, <1>12, <1>13, Zenon DEF TxIs

\* Where the last descriptor of a chain leads.
Beyond(n, ch, last) == IF last = "outside" THEN n ELSE ch[1]

\* The table after the driver has put the buffers s into the chain ch.
PutChain(n, table, ch, s, last) ==
  [z \in DOMAIN table |->
     IF \E j \in DOMAIN ch : ch[j] = z
     THEN LET j == CHOOSE j \in DOMAIN ch : ch[j] = z IN
          [writable |-> s[j].writable, mapped |-> s[j].mapped, data |-> s[j].data,
           has_next |-> j < Len(s) \/ last # "end",
           next |-> IF j < Len(s) THEN ch[j + 1] ELSE Beyond(n, ch, last)]
     ELSE table[z]]

\* The chain has len descriptors of the table, none of them twice.
Proper(n, ch, len) ==
  /\ len \in Nat \ {0} /\ len <= n /\ ch = [j \in 1..len |-> ch[j]]
  /\ \A j \in 1..len : ch[j] \in 0..(n - 1)
  /\ \A j, h \in 1..len : ch[j] = ch[h] => j = h

\* The buffers s are in the chain ch, and the rest of the table is as it was.
PutIn(n, table, table2, ch, s) ==
  /\ Built(n, table2, ch, s) /\ DOMAIN table2 = 0..(n - 1)
  /\ \A z \in 0..(n - 1) : (\A j \in 1..Len(s) : ch[j] # z) => table2[z] = table[z]

LEMMA BuiltNew ==
  ASSUME NEW n \in Nat \ {0}, NEW table, DOMAIN table = 0..(n - 1),
         NEW s, NEW ch, Proper(n, ch, Len(s)),
         NEW last \in Tails, last = "round" => Len(s) = n,
         NEW table2, table2 = PutChain(n, table, ch, s, last)
  PROVE  PutIn(n, table, table2, ch, s)
<1>0. /\ Len(s) \in Nat \ {0} /\ Len(s) <= n /\ ch = [j \in 1..Len(s) |-> ch[j]]
      /\ \A j \in 1..Len(s) : ch[j] \in 0..(n - 1)
      /\ \A j, h \in 1..Len(s) : ch[j] = ch[h] => j = h
  BY Zenon DEF Proper
<1>1. PICK L : L = Len(s)
  OBVIOUS
<1>2. L \in Nat \ {0} /\ L <= n /\ DOMAIN ch = 1..L
  BY <1>0, <1>1, Zenon
<1>3. DOMAIN table2 = 0..(n - 1)
  BY Zenon DEF PutChain
<1>4. ASSUME NEW z \in 0..(n - 1), \A j \in 1..Len(s) : ch[j] # z PROVE table2[z] = table[z]
  BY <1>0, <1>1, <1>2, <1>4, Zenon DEF PutChain
<1>5. ASSUME NEW j \in 1..L
      PROVE  table2[ch[j]] = [writable |-> s[j].writable, mapped |-> s[j].mapped, data |-> s[j].data,
                              has_next |-> j < L \/ last # "end",
                              next |-> IF j < L THEN ch[j + 1] ELSE Beyond(n, ch, last)]
  <2>1. ch[j] \in DOMAIN table /\ \E h \in DOMAIN ch : ch[h] = ch[j]
    BY <1>0, <1>1, <1>2, Zenon
  <2>2. PICK h : h = CHOOSE g \in DOMAIN ch : ch[g] = ch[j]
    OBVIOUS
  <2>3. h = j
    <3>1. h \in 1..L /\ ch[h] = ch[j]
      BY <1>2, <2>1, <2>2, Zenon
    <3> QED BY <1>0, <1>1, <3>1, Zenon
  <2>4. table2[ch[j]] = [writable |-> s[h].writable, mapped |-> s[h].mapped, data |-> s[h].data,
                         has_next |-> h < L \/ last # "end",
                         next |-> IF h < L THEN ch[h + 1] ELSE Beyond(n, ch, last)]
    BY <1>0, <1>1, <2>1, <2>2, ZenonT(60) DEF PutChain
  <2> QED BY <2>3, <2>4, Zenon
<1>a. ASSUME NEW j \in 1..L
      PROVE  /\ table2[ch[j]].writable = s[j].writable /\ table2[ch[j]].mapped = s[j].mapped
             /\ table2[ch[j]].data = s[j].data
             /\ table2[ch[j]].has_next = (j < L \/ last # "end")
             /\ table2[ch[j]].next = IF j < L THEN ch[j + 1] ELSE Beyond(n, ch, last)
  <2>1. PICK z1, z2, z3, z4, z5 :
          /\ z1 = s[j].writable /\ z2 = s[j].mapped /\ z3 = s[j].data
          /\ z4 = (j < L \/ last # "end") /\ z5 = IF j < L THEN ch[j + 1] ELSE Beyond(n, ch, last)
    BY Zenon
  <2>2. table2[ch[j]] = [writable |-> z1, mapped |-> z2, data |-> z3, has_next |-> z4, next |-> z5]
    BY <1>5, <2>1, Zenon
  <2>3. /\ table2[ch[j]].writable = z1 /\ table2[ch[j]].mapped = z2 /\ table2[ch[j]].data = z3
        /\ table2[ch[j]].has_next = z4 /\ table2[ch[j]].next = z5
    BY <2>2
  <2> QED BY <2>1, <2>3, Zenon
<1>6. \A j \in 1..L :
        /\ ch[j] \in 0..(n - 1)
        /\ table2[ch[j]].writable = s[j].writable /\ table2[ch[j]].mapped = s[j].mapped
        /\ table2[ch[j]].data = s[j].data
  BY <1>0, <1>1, <1>a, Zenon
<1>7. ASSUME NEW j \in 1..(L - 1)
      PROVE  table2[ch[j]].has_next = TRUE /\ table2[ch[j]].next = ch[j + 1]
  <2>1. j \in 1..L /\ j < L
    BY <1>2
  <2>2. /\ table2[ch[j]].has_next = (j < L \/ last # "end")
        /\ table2[ch[j]].next = IF j < L THEN ch[j + 1] ELSE Beyond(n, ch, last)
    BY <1>a, <2>1, Zenon
  <2>3. (j < L \/ last # "end") = TRUE
    BY <2>1
  <2> QED BY <2>1, <2>2, <2>3, Zenon
<1>8. ASSUME L < n PROVE Ends(n, table2[ch[L]])
  <2>1. L \in 1..L /\ ~(L < L) /\ L # n
    BY <1>2, <1>8
  <2>2. /\ table2[ch[L]].has_next = (L < L \/ last # "end")
        /\ table2[ch[L]].next = IF L < L THEN ch[L + 1] ELSE Beyond(n, ch, last)
    BY <1>a, <2>1, Zenon
  <2>3. CASE last = "end"
    <3>1. (L < L \/ last # "end") = FALSE
      BY <2>1, <2>3
    <3> QED BY <2>2, <3>1, Zenon DEF Ends
  <2>4. CASE last = "outside"
    BY <2>1, <2>2, <2>4, Zenon DEF Ends, Beyond
  <2>5. last = "end" \/ last = "outside"
    BY <1>0, <1>1, <2>1 DEF Tails
  <2> QED BY <2>3, <2>4, <2>5
<1>9. Built(n, table2, ch, s)
  BY <1>0, <1>1, <1>2, <1>6, <1>7, <1>8, Zenon DEF Built
<1> QED BY <1>3, <1>4, <1>9, Zenon DEF PutIn

-----------------------------------------------------------------------------
(* What a queue looks like in a state, and what the steps do to it. *)

Sees(k, n, q, m, d, i) ==
  /\ Len(d.inflight[i]) \in Nat
  /\ Back(m[UsedAt(i)], d.seen[i]) \in 0..Len(d.inflight[i])
  /\ Apart(n, d.inflight[i])
  /\ HasChain(q, m) =>
       /\ q.size = n /\ q.desc = DescAt(i) /\ DescAt(i) \in DOMAIN m
       /\ Back(m[UsedAt(i)], d.seen[i]) < Len(d.inflight[i])
       /\ HeadIndex(q, m) = d.inflight[i][Back(m[UsedAt(i)], d.seen[i]) + 1][1]
  /\ d.step > Len(SetupScript(k)) /\ ~HasChain(q, m) =>
       ~(Back(m[UsedAt(i)], d.seen[i]) < Len(d.inflight[i]))
  /\ ~(d.step > Len(SetupScript(k))) =>
       d.inflight[i] = <<>> /\ Back(m[UsedAt(i)], d.seen[i]) = 0
  /\ d.step > Len(SetupScript(k)) =>
       \A j \in 1..Back(m[UsedAt(i)], d.seen[i]) :
         Entry(m[UsedAt(i)], d.seen[i], n, j).id = d.inflight[i][j][1]

LEMMA StateSees ==
  ASSUME NEW k, NEW x, NEW m, NEW d, State(k, x, m, d), NEW i \in QueuesOf(k)
  PROVE  Sees(k, QueueSize[k], x.queues[i].queue, m, d, i)
<1>1. k \in Kinds /\ d.step \in Nat /\ Memory(k, m)
  BY DEF State, Drivers
<1>2. QueueSize[k] \in Nat \ {0} /\ Fits(QueueSize[k]) /\ Len(SetupScript(k)) \in Nat
  BY <1>1, Sizes
<1>3. PICK n, q, us, fly, seen, r :
        /\ n = QueueSize[k] /\ q = x.queues[i].queue /\ us = m[UsedAt(i)]
        /\ fly = d.inflight[i] /\ seen = d.seen[i] /\ r = Back(us, seen)
  BY Zenon
<1>4. CASE d.step > Len(SetupScript(k))
  <2>1. HoldsRing(i, n, q, m, d)
    BY <1>3, <1>4 DEF State
  <2>2. Placed(i, n, q) /\ InRing(n, q, m[AvailAt(i)], us, fly, seen, d.alloc[i])
    BY <1>3, <2>1, Zenon DEF HoldsRing
  <2>3. n \in Nat \ {0} /\ Fits(n)
    BY <1>2, <1>3
  <2>4. View(n, q, m[AvailAt(i)], us, fly, seen)
    BY <2>2, <2>3, RingView
  <2>5. /\ Len(fly) \in Nat /\ r \in 0..Len(fly) /\ Apart(n, fly)
        /\ q.last_avail_idx # m[AvailAt(i)].idx <=> r < Len(fly)
        /\ r < Len(fly) => m[AvailAt(i)].ring[q.last_avail_idx % n] = fly[r + 1][1]
        /\ \A j \in 1..r : Entry(us, seen, n, j).id = fly[j][1]
    BY <1>3, <2>4, Zenon DEF View
  <2>6. /\ q.size = n /\ q.ready /\ q.desc = DescAt(i) /\ q.avail = AvailAt(i)
        /\ DescAt(i) \in DOMAIN m /\ AvailAt(i) \in DOMAIN m
    BY <1>1, <2>2 DEF Placed, Memory
  <2>7. HasChain(q, m) <=> r < Len(fly)
    BY <2>5, <2>6, Zenon DEF HasChain
  <2>8. HasChain(q, m) => HeadIndex(q, m) = fly[r + 1][1]
    BY <2>5, <2>6, <2>7, Zenon DEF HeadIndex
  <2> QED BY <1>3, <1>4, <2>5, <2>6, <2>7, <2>8, Zenon DEF Sees
<1>5. CASE ~(d.step > Len(SetupScript(k)))
  <2>1. ~HasChain(q, m)
    BY <1>3, <1>5, LiveWithChain
  <2>2. d.step <= Len(SetupScript(k))
    BY <1>1, <1>2, <1>5
  <2>3. us.idx = 0 /\ fly = <<>> /\ seen = 0
    BY <1>3, <2>2 DEF State, Blank
  <2>4. r = 0
    <3>1. IdxMod \in Nat \ {0}
      BY QueueAssumptions DEF QueueAssumptions
    <3>2. (0 - 0 + IdxMod) % IdxMod = 0
      BY <3>1
    <3> QED BY <1>3, <2>3, <3>2, Zenon DEF Back
  <2>5. Len(fly) = 0 /\ 1..0 = {} /\ 0 \in Nat /\ r \in 0..0
    BY <2>3, <2>4
  <2>6. Apart(n, fly)
    BY <2>5, Zenon DEF Apart
  <2> QED BY <1>3, <1>5, <2>1, <2>3, <2>4, <2>5, <2>6, Zenon DEF Sees
<1> QED BY <1>4, <1>5

\* A queue that a step does not concern.
Same(m, d, m2, d2, j) ==
  /\ m2[DescAt(j)] = m[DescAt(j)] /\ m2[UsedAt(j)] = m[UsedAt(j)]
  /\ d2.inflight[j] = d.inflight[j] /\ d2.seen[j] = d.seen[j]

\* The driver makes a chain of queue i available.
SubmitSeen(k, m, d, m2, d2, i, table, ch) ==
  /\ m2[DescAt(i)] = table /\ m2[UsedAt(i)] = m[UsedAt(i)] /\ d2.seen[i] = d.seen[i]
  /\ Longer(d.inflight[i], d2.inflight[i], ch)
  /\ \A j \in QueuesOf(k) : j # i => Same(m, d, m2, d2, j)

LEMMA SubmitSees ==
  ASSUME NEW k, NEW x, NEW m, NEW d, State(k, x, m, d), NEW i \in QueuesOf(k),
         NEW n, n = QueueSize[k], NEW len \in Nat \ {0},
         NEW ch, ch = ChainFrom(n, d.alloc[i], len),
         NEW table, NEW m2, PutAvail(m, m2, i, n, table, ch[1]),
         NEW d2, Noted(d, d2, i, n, ch, len)
  PROVE  SubmitSeen(k, m, d, m2, d2, i, table, ch)
<1>1. k \in Kinds /\ Memory(k, m) /\ d \in Drivers(k)
  BY DEF State
<1>2. n \in Nat \ {0} /\ QueueCount(k) \in Nat
  BY <1>1, Sizes
<1>3. \A j \in QueuesOf(k) : j \in Nat
  BY <1>2 DEF QueuesOf
<1>4. PICK fly, alloc : fly = d.inflight[i] /\ alloc = d.alloc[i]
  BY Zenon
<1>5. fly \in Seq(Seq(Nat)) /\ alloc \in Nat
  BY <1>1, <1>4 DEF Drivers
<1>6. ch \in Seq(Nat)
  BY <1>2, <1>4, <1>5, ChainFromType
<1>7. PICK fly2 : fly2 = Append(fly, ch)
  OBVIOUS
<1>8. fly2 \in Seq(Seq(Nat)) /\ Longer(fly, fly2, ch)
  BY <1>5, <1>6, <1>7, AppendLonger
<1>9. PICK p : p = (alloc + len) % n
  OBVIOUS
<1>10. p \in Nat
  <2>0. alloc \in Nat
    BY <1>5
  <2>1. alloc + len \in Nat
    BY <2>0
  <2>2. p \in 0..(n - 1)
    BY <1>2, <1>9, <2>1, DivMod
  <2> QED BY <1>2, <2>2
<1>11. d2 = [d EXCEPT !.inflight[i] = fly2, !.alloc[i] = p]
  BY <1>4, <1>7, <1>9, Zenon DEF Noted
<1>12. DriverAt(k, d, d2, i, fly2, d.seen[i], p)
  <2>1. fly2 \in Seq(Seq(Nat))
    BY <1>8
  <2> QED BY <1>1, <1>10, <1>11, <2>1, NotedSubmit
<1>13. PICK e, f, v : e = ch[1] /\ f = m[AvailAt(i)].idx % n /\ v = (m[AvailAt(i)].idx + 1) % IdxMod
  BY Zenon
<1>14. m2 = [m EXCEPT ![DescAt(i)] = table, ![AvailAt(i)].ring[f] = e, ![AvailAt(i)].idx = v]
  BY <1>13, Zenon DEF PutAvail
<1>15. IsFcn(m) /\ \A j \in QueuesOf(k) : DescAt(j) \in DOMAIN m /\ UsedAt(j) \in DOMAIN m
  BY <1>1 DEF Memory
<1>16. DescAt(i) # AvailAt(i) /\ UsedAt(i) # AvailAt(i) /\ UsedAt(i) # DescAt(i)
       /\ \A j \in QueuesOf(k) : j # i =>
            /\ DescAt(j) # DescAt(i) /\ DescAt(j) # AvailAt(i)
            /\ UsedAt(j) # DescAt(i) /\ UsedAt(j) # AvailAt(i)
  BY <1>3, Addresses
<1>17. /\ m2[DescAt(i)] = table
       /\ \A z \in DOMAIN m : z # DescAt(i) /\ z # AvailAt(i) => m2[z] = m[z]
  BY <1>14, <1>15, <1>16 DEF IsFcn
<1>18. \A j \in QueuesOf(k) : m2[UsedAt(j)] = m[UsedAt(j)]
  BY <1>15, <1>16, <1>17, Zenon
<1>19. \A j \in QueuesOf(k) : j # i => m2[DescAt(j)] = m[DescAt(j)]
  BY <1>15, <1>16, <1>17, Zenon
<1> QED BY <1>4, <1>8, <1>12, <1>17, <1>18, <1>19, Zenon DEF DriverAt, Same, SubmitSeen

\* The driver takes a chain of queue i back.
ConsumeSeen(k, n, m, d, m2, d2, i, e, table) ==
  /\ e = Entry(m[UsedAt(i)], d.seen[i], n, 1)
  /\ m2[DescAt(i)] = table /\ m2[UsedAt(i)] = m[UsedAt(i)]
  /\ Back(m[UsedAt(i)], d.seen[i]) \in Nat \ {0}
  /\ Back(m[UsedAt(i)], d2.seen[i]) = Back(m[UsedAt(i)], d.seen[i]) - 1
  /\ Shorter(d.inflight[i], d2.inflight[i])
  /\ \A j \in Nat \ {0} : Entry(m[UsedAt(i)], d2.seen[i], n, j)
                            = Entry(m[UsedAt(i)], d.seen[i], n, j + 1)
  /\ \A j \in QueuesOf(k) : j # i => Same(m, d, m2, d2, j)

LEMMA ConsumeSees ==
  ASSUME NEW k, NEW x, NEW m, NEW d, State(k, x, m, d), d.step > Len(SetupScript(k)),
         NEW i \in QueuesOf(k), d.seen[i] # m[UsedAt(i)].idx, NEW n, n = QueueSize[k],
         NEW e, e = FirstUnseen(m[UsedAt(i)], d.seen[i], n),
         NEW table, NEW m2, m2 = [m EXCEPT ![DescAt(i)] = table],
         NEW d2, NotedBack(d, d2, i, e.id)
  PROVE  ConsumeSeen(k, n, m, d, m2, d2, i, e, table)
<1>1. k \in Kinds /\ Memory(k, m) /\ d \in Drivers(k)
  BY DEF State
<1>2. n \in Nat \ {0} /\ Fits(n) /\ QueueCount(k) \in Nat
  BY <1>1, Sizes
<1>3. \A j \in QueuesOf(k) : j \in Nat
  BY <1>2 DEF QueuesOf
<1>4. PICK us, fly, seen : us = m[UsedAt(i)] /\ fly = d.inflight[i] /\ seen = d.seen[i]
  BY Zenon
<1>5. PICK q, av, alloc : q = x.queues[i].queue /\ av = m[AvailAt(i)] /\ alloc = d.alloc[i]
  BY Zenon
<1>6. InRing(n, q, av, us, fly, seen, alloc)
  <2>1. HoldsRing(i, n, q, m, d)
    BY <1>5 DEF State
  <2> QED BY <1>4, <1>5, <2>1, Zenon DEF HoldsRing
<1>7. SeqOf(fly, Seq(Nat)) /\ seen # us.idx /\ seen \in Nat
  BY <1>1, <1>4 DEF Drivers, SeqOf
<1>8. PICK id, seen2, fly2, r : /\ id = Entry(us, seen, n, 1).id /\ seen2 = (seen + 1) % IdxMod
                                /\ fly2 = Without(fly, Entry(us, seen, n, 1).id) /\ r = Back(us, seen)
  BY Zenon
<1>9. /\ Back(us, seen) \in Nat \ {0} /\ Back(us, seen2) = Back(us, seen) - 1
      /\ Len(fly2) = Len(fly) - 1
      /\ \A j \in 1..(Len(fly) - 1) : fly2[j] = fly[j + 1]
      /\ \A j \in Nat \ {0} : Entry(us, seen2, n, j) = Entry(us, seen, n, j + 1)
  <2>1. Takes(n, us, fly, seen, fly2, seen2)
    BY <1>8, Zenon DEF Takes
  <2>2. Moved(n, us, fly, seen, fly2, seen2)
    BY <1>2, <1>6, <1>7, <2>1, ViewConsume
  <2> QED BY <2>2, Zenon DEF Moved
<1>10. e = Entry(us, seen, n, 1)
  <2>1. e = [j \in 1..r |-> us.ring[(seen + j - 1) % n]][1]
    BY <1>4, <1>8, Zenon DEF FirstUnseen, Back
  <2>2. 1 \in 1..r
    BY <1>8, <1>9
  <2> QED BY <2>1, <2>2, Zenon DEF Entry
<1>11. d2 = [d EXCEPT !.seen[i] = seen2, !.inflight[i] = fly2]
  BY <1>4, <1>8, <1>10, Zenon DEF NotedBack
<1>12. fly2 \in Seq(Seq(Nat))
  <2>1. PICK c, l, a \in Nat : \E st \in [Nat -> Nat] :
          RingIs(n, q, av, us, fly, seen, alloc, c, l, a, st)
    BY <1>6, Zenon DEF InRing
  <2>2. PICK st \in [Nat -> Nat] : RingIs(n, q, av, us, fly, seen, alloc, c, l, a, st)
    BY <2>1, Zenon
  <2>3. TakenBack(n, q, av, us, fly, seen, alloc, Seq(Nat), c, l, a, st)
    BY <1>2, <1>7, <2>2, RingConsume
  <2> QED BY <1>8, <2>3, Zenon DEF TakenBack, Entry
<1>13. seen2 \in Nat
  <2>1. IdxMod \in Nat \ {0}
    BY QueueAssumptions DEF QueueAssumptions
  <2>2. seen + 1 \in Nat
    BY <1>7
  <2>3. seen2 \in 0..(IdxMod - 1)
    BY <1>8, <2>1, <2>2, DivMod
  <2> QED BY <2>1, <2>3
<1>14. DriverAt(k, d, d2, i, fly2, seen2, d.alloc[i])
  BY <1>1, <1>11, <1>12, <1>13, NotedConsume
<1>15. IsFcn(m) /\ \A j \in QueuesOf(k) : DescAt(j) \in DOMAIN m /\ UsedAt(j) \in DOMAIN m
  BY <1>1 DEF Memory
<1>16. m2[DescAt(i)] = table /\ \A z \in DOMAIN m : z # DescAt(i) => m2[z] = m[z]
  BY <1>15 DEF IsFcn
<1>17. \A j \in QueuesOf(k) : UsedAt(j) # DescAt(i) /\ (j # i => DescAt(j) # DescAt(i))
  BY <1>3, Addresses
<1>18. \A j \in QueuesOf(k) : /\ m2[UsedAt(j)] = m[UsedAt(j)]
                              /\ j # i => m2[DescAt(j)] = m[DescAt(j)]
  BY <1>15, <1>16, <1>17, Zenon
<1>19. d2.inflight[i] = fly2 /\ d2.seen[i] = seen2
  BY <1>14 DEF DriverAt
<1>20. \A j \in QueuesOf(k) : j # i => Same(m, d, m2, d2, j)
  BY <1>14, <1>18, Zenon DEF DriverAt, Same
<1>21. Shorter(fly, fly2)
  BY <1>9, Zenon DEF Shorter
<1> QED BY <1>4, <1>9, <1>10, <1>16, <1>18, <1>19, <1>20, <1>21, Zenon DEF ConsumeSeen

\* The device returns a chain of queue i with w bytes written.
ReturnSeen(k, n, q, m, m1, d, m2, i, w) ==
  /\ m2[DescAt(i)] = m1[DescAt(i)]
  /\ Back(m2[UsedAt(i)], d.seen[i]) = Back(m[UsedAt(i)], d.seen[i]) + 1
  /\ Entry(m2[UsedAt(i)], d.seen[i], n, Back(m[UsedAt(i)], d.seen[i]) + 1)
       = [id |-> HeadIndex(q, m), len |-> w]
  /\ \A j \in 1..Back(m[UsedAt(i)], d.seen[i]) :
       Entry(m2[UsedAt(i)], d.seen[i], n, j) = Entry(m[UsedAt(i)], d.seen[i], n, j)
  /\ \A j \in QueuesOf(k) : j # i => Same(m, d, m2, d, j)

LEMMA ReturnSees ==
  ASSUME NEW k, NEW x, NEW m, NEW d, State(k, x, m, d), NEW i \in QueuesOf(k),
         NEW n, n = QueueSize[k], NEW q, q = x.queues[i].queue, HasChain(q, m),
         NEW m1, SameBut(q.desc, m, m1),
         NEW w, NEW m2, m2 = PushUsed(q, m1, HeadIndex(q, m), w)
  PROVE  ReturnSeen(k, n, q, m, m1, d, m2, i, w)
<1>1. k \in Kinds /\ Memory(k, m) /\ d \in Drivers(k)
  BY DEF State
<1>2. n \in Nat \ {0} /\ Fits(n) /\ QueueCount(k) \in Nat
  BY <1>1, Sizes
<1>3. \A j \in QueuesOf(k) : j \in Nat
  BY <1>2 DEF QueuesOf
<1>4. Placed(i, n, q) /\ Pushed(i, n, q, m, m1, m2, w)
  BY PushStep
<1>5. d.step > Len(SetupScript(k))
  BY LiveWithChain
<1>6. PICK us, us2, av, fly, seen, alloc :
        /\ us = m[UsedAt(i)] /\ us2 = m2[UsedAt(i)] /\ av = m[AvailAt(i)]
        /\ fly = d.inflight[i] /\ seen = d.seen[i] /\ alloc = d.alloc[i]
  BY Zenon
<1>7. InRing(n, q, av, us, fly, seen, alloc)
  <2>1. HoldsRing(i, n, q, m, d)
    BY <1>5 DEF State
  <2> QED BY <1>6, <2>1, Zenon DEF HoldsRing
<1>8. PICK q2 : q2 = Popped(q)
  OBVIOUS
<1>9. /\ Taken(n, q, q2, av, us, us2) /\ us2.ring[us.idx % n] = [id |-> HeadIndex(q, m), len |-> w]
      /\ \A z \in DOMAIN m : z # UsedAt(i) => m2[z] = m1[z]
  BY <1>4, <1>6, <1>8, Zenon DEF Pushed
<1>10. /\ Back(us2, seen) = Back(us, seen) + 1
       /\ Entry(us2, seen, n, Back(us, seen) + 1) = us2.ring[us.idx % n]
       /\ \A j \in 1..Back(us, seen) : Entry(us2, seen, n, j) = Entry(us, seen, n, j)
  BY <1>2, <1>7, <1>9, ViewReturn
<1>11. \A z \in DOMAIN m : z # DescAt(i) => m1[z] = m[z]
  BY <1>4 DEF Placed, SameBut
<1>12. \A j \in QueuesOf(k) : /\ DescAt(j) \in DOMAIN m /\ UsedAt(j) \in DOMAIN m
                              /\ DescAt(j) # UsedAt(i) /\ UsedAt(j) # DescAt(i)
                              /\ j # i => DescAt(j) # DescAt(i) /\ UsedAt(j) # UsedAt(i)
  <2>1. \A j \in QueuesOf(k) : DescAt(j) \in DOMAIN m /\ UsedAt(j) \in DOMAIN m
    BY <1>1 DEF Memory
  <2>2. \A j \in QueuesOf(k) : /\ DescAt(j) # UsedAt(i) /\ UsedAt(j) # DescAt(i)
                               /\ j # i => DescAt(j) # DescAt(i) /\ UsedAt(j) # UsedAt(i)
    BY <1>3, Addresses
  <2> QED BY <2>1, <2>2
<1>13. \A j \in QueuesOf(k) : j # i => Same(m, d, m2, d, j)
  BY <1>9, <1>11, <1>12, Zenon DEF Same
<1>14. m2[DescAt(i)] = m1[DescAt(i)]
  BY <1>9, <1>12
<1> QED BY <1>6, <1>9, <1>10, <1>13, <1>14, Zenon DEF ReturnSeen

\* The table after the driver has taken a chain back.
Cleared(table, ch) ==
  [z \in DOMAIN table |-> IF \E j \in DOMAIN ch : ch[j] = z THEN NoBuffer ELSE table[z]]

\* A chain is built without touching the others.
BuiltBeside(n, fly, table, table2, ch, s) ==
  Built(n, table2, ch, s) /\ DOMAIN table2 = 0..(n - 1) /\ Keeps(fly, 0, table, table2)

LEMMA SubmitTable ==
  ASSUME NEW k, NEW x, NEW m, NEW d, State(k, x, m, d), d.step > Len(SetupScript(k)),
         NEW i \in QueuesOf(k), NEW n, n = QueueSize[k], NEW s, Len(s) \in Nat \ {0},
         Room(n, d.inflight[i], Len(s)), NEW ch, ch = ChainFrom(n, d.alloc[i], Len(s)),
         NEW last \in Tails, last = "round" => Len(s) = n,
         DOMAIN m[DescAt(i)] = 0..(n - 1),
         NEW table, table = PutChain(n, m[DescAt(i)], ch, s, last),
         NEW m2, PutAvail(m, m2, i, n, table, ch[1]), NEW d2, Noted(d, d2, i, n, ch, Len(s))
  PROVE  BuiltBeside(n, d.inflight[i], m[DescAt(i)], table, ch, s)
<1>1. k \in Kinds /\ d \in Drivers(k)
  BY DEF State
<1>2. n \in Nat \ {0}
  BY <1>1, Sizes
<1>3. State(k, x, m2, d2)
  BY SubmitStep
<1>4. PICK len, fly, fly2 : len = Len(s) /\ fly = d.inflight[i] /\ fly2 = d2.inflight[i]
  BY Zenon
<1>5. len \in Nat \ {0} /\ ch = ChainFrom(n, d.alloc[i], len)
  BY <1>4
<1>6. Longer(fly, fly2, ch)
  <2>1. Noted(d, d2, i, n, ch, len)
    BY <1>4
  <2>2. SubmitSeen(k, m, d, m2, d2, i, table, ch)
    BY <1>5, <2>1, SubmitSees
  <2> QED BY <1>4, <2>2, Zenon DEF SubmitSeen
<1>7. Apart(n, fly2) /\ Len(fly) \in Nat
  BY <1>3, <1>4, StateSees DEF Sees
<1>8. PICK z \in Nat : z = Len(fly) + 1
  BY <1>7
<1>9. Len(fly2) = z /\ fly2[z] = ch /\ (\A y \in 1..Len(fly) : fly2[y] = fly[y]) /\ z \in 1..Len(fly2)
  BY <1>6, <1>7, <1>8 DEF Longer
<1>10. Len(ch) = len /\ ch = [j \in 1..len |-> ch[j]]
  BY <1>5 DEF ChainFrom
<1>11. \A j \in 1..len : ch[j] \in 0..(n - 1)
  BY <1>7, <1>9, <1>10 DEF Apart
<1>12. \A j, h \in 1..len : ch[j] = ch[h] => j = h
  <2>0. z \in 1..Len(fly2)
    BY <1>9, Zenon
  <2>1. \A j, h \in 1..Len(fly2[z]) : fly2[z][j] = fly2[z][h] => j = h
    BY <1>7, <2>0, Zenon DEF Apart
  <2> QED BY <1>9, <1>10, <2>1
<1>13. len <= n
  <2>1. CASE len > n
    <3>1. 1 \in 1..len /\ n + 1 \in 1..len /\ 1 # n + 1
      BY <1>2, <1>5, <2>1
    <3>2. ch[1] = (d.alloc[i] + 1 - 1) % n /\ ch[n + 1] = (d.alloc[i] + (n + 1) - 1) % n
      BY <1>5, <3>1 DEF ChainFrom
    <3>3. PICK p \in Nat : p = d.alloc[i]
      BY <1>1 DEF Drivers
    <3>4. (p + n) % n = p % n
      <4>1. p % n \in 0..(n - 1)
        BY <1>2, DivMod
      <4>2. n \in 0..n
        BY <1>2
      <4>3. (p + n) % n = (IF (p % n) + n < n THEN (p % n) + n ELSE (p % n) + n - n)
        BY <1>2, <4>2, Wrap
      <4>4. PICK v \in 0..(n - 1) : v = p % n
        BY <4>1
      <4>5. ~(v + n < n) /\ v + n - n = v
        BY <1>2
      <4> QED BY <4>3, <4>4, <4>5
    <3>5. p + 1 - 1 = p /\ p + (n + 1) - 1 = p + n
      BY <1>2
    <3>6. ch[1] = ch[n + 1]
      BY <3>2, <3>3, <3>4, <3>5, Zenon
    <3> QED BY <1>12, <3>1, <3>6
  <2> QED BY <1>2, <1>5, <2>1
<1>14. /\ Built(n, table, ch, s) /\ DOMAIN table = 0..(n - 1)
       /\ \A y \in 0..(n - 1) : (\A j \in 1..Len(s) : ch[j] # y) => table[y] = m[DescAt(i)][y]
  <2>1. Proper(n, ch, len)
    BY <1>5, <1>10, <1>11, <1>12, <1>13, Zenon DEF Proper
  <2>2. Proper(n, ch, Len(s))
    BY <1>4, <2>1, Zenon
  <2>3. PutIn(n, m[DescAt(i)], table, ch, s)
    BY <1>2, <2>2, BuiltNew
  <2> QED BY <2>3, Zenon DEF PutIn
<1>15. ASSUME NEW y \in (0 + 1)..Len(fly), NEW j \in DOMAIN fly[y]
       PROVE  table[fly[y][j]] = m[DescAt(i)][fly[y][j]]
  <2>1. y \in 1..Len(fly2) /\ y # z /\ fly2[y] = fly[y] /\ DOMAIN fly[y] = 1..Len(fly[y])
    <3>1. y \in 1..Len(fly) /\ y # z /\ y \in 1..Len(fly2)
      BY <1>7, <1>8, <1>9
    <3> QED BY <1>7, <1>9, <3>1 DEF Apart
  <2>2. fly[y][j] \in 0..(n - 1)
    BY <1>7, <2>1 DEF Apart
  <2>3. \A h \in 1..len : ch[h] # fly[y][j]
    <3>1. \A h \in 1..Len(fly2[z]), g \in 1..Len(fly2[y]) : fly2[z][h] # fly2[y][g]
      BY <1>7, <1>9, <2>1 DEF Apart
    <3> QED BY <1>9, <1>10, <2>1, <3>1
  <2> QED BY <1>4, <1>14, <2>2, <2>3, Zenon
<1>16. Keeps(fly, 0, m[DescAt(i)], table)
  BY <1>15, Zenon DEF Keeps
<1> QED BY <1>4, <1>14, <1>16, Zenon DEF BuiltBeside

\* A chain is taken back without touching the others.
LEMMA ConsumeTable ==
  ASSUME NEW n, NEW fly, Apart(n, fly), Len(fly) \in Nat \ {0},
         NEW table, DOMAIN table = 0..(n - 1), NEW table2, table2 = Cleared(table, fly[1])
  PROVE  DOMAIN table2 = 0..(n - 1) /\ Keeps(fly, 1, table, table2)
<1>1. DOMAIN table2 = 0..(n - 1)
  BY Zenon DEF Cleared
<1>2. ASSUME NEW y \in (1 + 1)..Len(fly), NEW j \in DOMAIN fly[y]
      PROVE  table2[fly[y][j]] = table[fly[y][j]]
  <2>1. y \in 1..Len(fly) /\ 1 \in 1..Len(fly) /\ y # 1
    OBVIOUS
  <2>2. DOMAIN fly[y] = 1..Len(fly[y]) /\ DOMAIN fly[1] = 1..Len(fly[1])
    BY <2>1 DEF Apart
  <2>3. fly[y][j] \in 0..(n - 1)
    BY <2>1, <2>2 DEF Apart
  <2>4. \A h \in DOMAIN fly[1] : fly[1][h] # fly[y][j]
    BY <2>1, <2>2, Zenon DEF Apart
  <2> QED BY <2>3, <2>4, Zenon DEF Cleared
<1> QED BY <1>1, <1>2, Zenon DEF Keeps

LEMMA KeepsLater ==
  ASSUME NEW fly, NEW p \in Nat, NEW r \in Nat, p <= r, NEW table, NEW table2,
         Keeps(fly, p, table, table2)
  PROVE  Keeps(fly, r, table, table2)
<1>1. \A y \in (r + 1)..Len(fly) : y \in (p + 1)..Len(fly)
  OBVIOUS
<1> QED BY <1>1, Zenon DEF Keeps

LEMMA FreshTables ==
  ASSUME NEW k \in Kinds, NEW i \in QueuesOf(k)
  PROVE  DOMAIN FreshMemory(k)[DescAt(i)] = 0..(QueueSize[k] - 1)
<1> DEFINE n == QueueSize[k]
           D == {DescAt(j) : j \in QueuesOf(k)} \cup {AvailAt(j) : j \in QueuesOf(k)}
                  \cup {UsedAt(j) : j \in QueuesOf(k)}
           e1 == [j \in 0..(n - 1) |-> NoBuffer]
           e2 == EmptyRing(n, 0)
           e3 == EmptyRing(n, [id |-> 0, len |-> 0])
           m == [x \in D |-> ContentAt(x, e1, e2, e3)]
<1>1. FreshMemory(k) = m
  BY Zenon DEF FreshMemory, QueuesOf, ContentAt
<1>2. DOMAIN e1 = 0..(n - 1)
  BY Zenon
<1> HIDE DEF e1, e2, e3
<1>3. DescAt(i) \in D /\ DescAt(i)[2] = 1
  <2>1. DescAt(i) \in D
    OBVIOUS
  <2>2. DescAt(i)[2] = 1
    BY DEF DescAt
  <2> QED BY <2>1, <2>2
<1> HIDE DEF D
<1>4. m[DescAt(i)] = e1
  BY <1>3 DEF ContentAt
<1> QED BY <1>1, <1>2, <1>4, Zenon

-----------------------------------------------------------------------------
(* What the guest sends. *)

TxOf(k, m, d, chan, exp) ==
  TxIs(k, QueueSize[k], m[DescAt(1)], d.inflight[1], Back(m[UsedAt(1)], d.seen[1]), chan, exp)

TxState(k, m, d, chan, exp) ==
  IF k = "block" THEN chan = <<>> /\ exp = <<>> ELSE TxOf(k, m, d, chan, exp)

TxInv == TxState(kind, mem, drv, tx_chan, tx_expect)

LEMMA TxSame ==
  ASSUME NEW k, NEW m, NEW d, NEW chan, NEW exp, TxState(k, m, d, chan, exp),
         NEW m2, NEW d2, Same(m, d, m2, d2, 1)
  PROVE  TxState(k, m2, d2, chan, exp)
<1>1. CASE k = "block"
  BY <1>1 DEF TxState
<1>2. CASE k # "block"
  BY <1>2, Zenon DEF TxState, TxOf, Same
<1> QED BY <1>1, <1>2

\* The first queues of the kinds.
LEMMA HasTx ==
  ASSUME NEW k \in Kinds
  PROVE  k # "block" => 1 \in QueuesOf(k) /\ k \in {"net", "vsock"}
<1>1. k \in {"block", "net", "vsock"}
  BY Sizes
<1> QED BY <1>1 DEF QueuesOf, QueueCount

LEMMA TxChan ==
  ASSUME NEW k, NEW m, NEW d, NEW chan, NEW exp, TxState(k, m, d, chan, exp)
  PROVE  \E S : chan \in Seq(S) /\ exp \in Seq(S)
<1>1. CASE k = "block"
  <2>1. chan = <<>> /\ exp = <<>>
    BY <1>1 DEF TxState
  <2>2. <<>> \in Seq({})
    OBVIOUS
  <2> QED BY <2>1, <2>2
<1>2. CASE k # "block"
  <2>1. TxOf(k, m, d, chan, exp)
    BY <1>2 DEF TxState
  <2> QED BY <2>1, Zenon DEF TxOf, TxIs, Begins
<1> QED BY <1>1, <1>2

\* A driver that starts over.
LEMMA TxFresh ==
  ASSUME NEW k, NEW x, NEW m, NEW d, State(k, x, m, d), m = FreshMemory(k), d.step = 1,
         NEW S, NEW exp \in Seq(S), k = "block" => exp = <<>>
  PROVE  TxState(k, m, d, exp, exp)
<1>1. CASE k = "block"
  BY <1>1 DEF TxState
<1>2. CASE k # "block"
  <2>1. k \in Kinds
    BY DEF State
  <2>2. 1 \in QueuesOf(k)
    BY <1>2, <2>1, HasTx
  <2>3. Sees(k, QueueSize[k], x.queues[1].queue, m, d, 1)
    BY <2>2, StateSees
  <2>4. ~(d.step > Len(SetupScript(k)))
    <3>1. QueueCount(k) \in 1..3 /\ Len(SetupScript(k)) = 8 + 9 * QueueCount(k)
      BY <2>1, Sizes
    <3> QED BY <3>1
  <2>5. d.inflight[1] = <<>> /\ Back(m[UsedAt(1)], d.seen[1]) = 0
    BY <2>3, <2>4, Zenon DEF Sees
  <2>6. DOMAIN m[DescAt(1)] = 0..(QueueSize[k] - 1)
    BY <2>1, <2>2, FreshTables
  <2>7. TxIs(k, QueueSize[k], m[DescAt(1)], <<>>, 0, exp, exp)
    BY <2>6, TxNone
  <2> QED BY <1>2, <2>5, <2>7, Zenon DEF TxState, TxOf
<1> QED BY <1>1, <1>2

\* The driver puts a chain into the transmission queue.
LEMMA TxSubmits ==
  ASSUME NEW k, NEW x, NEW m, NEW d, State(k, x, m, d), d.step > Len(SetupScript(k)),
         k # "block", NEW n, n = QueueSize[k], NEW s, Len(s) \in Nat \ {0},
         Room(n, d.inflight[1], Len(s)), NEW ch, ch = ChainFrom(n, d.alloc[1], Len(s)),
         NEW last \in Tails, last = "round" => Len(s) = n,
         NEW table, table = PutChain(n, m[DescAt(1)], ch, s, last),
         NEW m2, PutAvail(m, m2, 1, n, table, ch[1]), NEW d2, Noted(d, d2, 1, n, ch, Len(s)),
         NEW chan, NEW exp, TxOf(k, m, d, chan, exp), TxShape(k, s),
         NEW exp2, exp2 = exp \o Sent(k, s)
  PROVE  TxOf(k, m2, d2, chan, exp2)
<1>1. 1 \in QueuesOf(k)
  BY HasTx DEF State
<1>2. PICK fly, fly2, table0, r : /\ fly = d.inflight[1] /\ fly2 = d2.inflight[1]
                                  /\ table0 = m[DescAt(1)] /\ r = Back(m[UsedAt(1)], d.seen[1])
  BY Zenon
<1>3. TxIs(k, n, table0, fly, r, chan, exp)
  BY <1>2, Zenon DEF TxOf
<1>4. DOMAIN table0 = 0..(n - 1)
  BY <1>3 DEF TxIs
<1>5. Built(n, table, ch, s) /\ DOMAIN table = 0..(n - 1) /\ Keeps(fly, 0, table0, table)
  <2>1. DOMAIN m[DescAt(1)] = 0..(n - 1)
    BY <1>2, <1>4
  <2>2. Built(n, table, ch, s) /\ DOMAIN table = 0..(n - 1)
        /\ Keeps(d.inflight[1], 0, m[DescAt(1)], table)
    <3>1. BuiltBeside(n, d.inflight[1], m[DescAt(1)], table, ch, s)
      BY <1>1, <2>1, SubmitTable
    <3> QED BY <3>1, Zenon DEF BuiltBeside
  <2> QED BY <1>2, <2>2, Zenon
<1>6. /\ m2[DescAt(1)] = table /\ m2[UsedAt(1)] = m[UsedAt(1)] /\ d2.seen[1] = d.seen[1]
      /\ Longer(fly, fly2, ch)
  <2>1. PICK len \in Nat \ {0} : len = Len(s)
    OBVIOUS
  <2>2. ch = ChainFrom(n, d.alloc[1], len) /\ Noted(d, d2, 1, n, ch, len)
    BY <2>1
  <2>3. SubmitSeen(k, m, d, m2, d2, 1, table, ch)
    BY <1>1, <2>2, SubmitSees
  <2> QED BY <1>2, <2>3, Zenon DEF SubmitSeen
<1>7. Len(fly) \in Nat /\ r \in 0..Len(fly)
  <2>1. Sees(k, n, x.queues[1].queue, m, d, 1)
    BY <1>1, StateSees
  <2> QED BY <1>2, <2>1, Zenon DEF Sees
<1>8. r \in Nat /\ 0 <= r /\ r <= Len(fly)
  BY <1>7
<1>9. Keeps(fly, r, table0, table)
  BY <1>5, <1>8, KeepsLater
<1>10. TxIs(k, n, table, fly2, r, chan, exp2)
  BY <1>3, <1>5, <1>6, <1>7, <1>8, <1>9, TxSubmit, ZenonT(60)
<1> QED BY <1>2, <1>6, <1>10, Zenon DEF TxOf

\* It takes one back.
PutTable(m, m2, i, table) == m2 = [m EXCEPT ![DescAt(i)] = table]

LEMMA TxConsumes ==
  ASSUME NEW k, NEW x, NEW m, NEW d, State(k, x, m, d), d.step > Len(SetupScript(k)),
         k # "block", d.seen[1] # m[UsedAt(1)].idx, NEW n, n = QueueSize[k],
         NEW e, e = FirstUnseen(m[UsedAt(1)], d.seen[1], n),
         NEW table, table = Cleared(m[DescAt(1)], d.inflight[1][1]),
         NEW m2, PutTable(m, m2, 1, table), NEW d2, NotedBack(d, d2, 1, e.id),
         NEW chan, NEW exp, TxOf(k, m, d, chan, exp)
  PROVE  TxOf(k, m2, d2, chan, exp)
<1>1. 1 \in QueuesOf(k)
  BY HasTx DEF State
<1>2. PICK fly, fly2, table0, r : /\ fly = d.inflight[1] /\ fly2 = d2.inflight[1]
                                  /\ table0 = m[DescAt(1)] /\ r = Back(m[UsedAt(1)], d.seen[1])
  BY Zenon
<1>3. TxIs(k, n, table0, fly, r, chan, exp)
  BY <1>2, Zenon DEF TxOf
<1>4. DOMAIN table0 = 0..(n - 1)
  BY <1>3 DEF TxIs
<1>5. /\ m2[DescAt(1)] = table /\ m2[UsedAt(1)] = m[UsedAt(1)]
      /\ r \in Nat \ {0} /\ Back(m[UsedAt(1)], d2.seen[1]) = r - 1
      /\ Shorter(fly, fly2)
  <2>0. m2 = [m EXCEPT ![DescAt(1)] = table]
    BY Zenon DEF PutTable
  <2>1. ConsumeSeen(k, n, m, d, m2, d2, 1, e, table)
    BY <1>1, <2>0, ConsumeSees
  <2> QED BY <1>2, <2>1, Zenon DEF ConsumeSeen
<1>6. Len(fly) \in Nat /\ r \in 0..Len(fly) /\ Apart(n, fly)
  <2>1. Sees(k, n, x.queues[1].queue, m, d, 1)
    BY <1>1, StateSees
  <2> QED BY <1>2, <2>1, Zenon DEF Sees
<1>7. Len(fly) \in Nat \ {0} /\ r <= Len(fly) /\ r \in Nat /\ 1 <= r
  BY <1>5, <1>6
<1>8. DOMAIN table = 0..(n - 1) /\ Keeps(fly, 1, table0, table)
  <2>1. table = Cleared(table0, fly[1])
    BY <1>2
  <2> QED BY <1>4, <1>6, <1>7, <2>1, ConsumeTable
<1>9. Keeps(fly, r, table0, table)
  BY <1>7, <1>8, KeepsLater
<1>10. TxIs(k, n, table, fly2, r - 1, chan, exp)
  BY <1>3, <1>5, <1>6, <1>7, <1>8, <1>9, TxForget, ZenonT(60)
<1> QED BY <1>2, <1>5, <1>10, Zenon DEF TxOf

\* The device sends what a chain holds and returns it.
LEMMA TxReturns ==
  ASSUME NEW k, NEW x, NEW m, NEW d, State(k, x, m, d), k # "block",
         NEW q, q = x.queues[1].queue, HasChain(q, m),
         NEW m2, m2 = PushUsed(q, m, HeadIndex(q, m), 0),
         NEW chan, NEW exp, TxOf(k, m, d, chan, exp), NEW frames,
         frames = IF k = "net" THEN NetTx(q, m, HeadIndex(q, m)) ELSE VsockTx(q, m, HeadIndex(q, m))
  PROVE  TxOf(k, m2, d, chan \o frames, exp)
<1>1. 1 \in QueuesOf(k) /\ k \in {"net", "vsock"} /\ k \in Kinds
  BY HasTx DEF State
<1>2. PICK n, fly, table, r : /\ n = QueueSize[k] /\ fly = d.inflight[1]
                              /\ table = m[DescAt(1)] /\ r = Back(m[UsedAt(1)], d.seen[1])
  BY Zenon
<1>3. n \in Nat \ {0}
  BY <1>1, <1>2, Sizes
<1>4. TxIs(k, n, table, fly, r, chan, exp)
  BY <1>2, Zenon DEF TxOf
<1>5. /\ Len(fly) \in Nat /\ r \in 0..Len(fly) /\ r < Len(fly)
      /\ q.size = n /\ q.desc = DescAt(1) /\ DescAt(1) \in DOMAIN m
      /\ HeadIndex(q, m) = fly[r + 1][1]
  <2>1. Sees(k, n, q, m, d, 1)
    BY <1>1, <1>2, StateSees
  <2> QED BY <1>2, <2>1, Zenon DEF Sees
<1>6. PICK s : /\ Built(n, table, fly[r + 1], s) /\ TxShape(k, s)
               /\ TxIs(k, n, table, fly, r + 1, chan \o Sent(k, s), exp)
  <2>1. r \in Nat
    BY <1>5
  <2> QED BY <1>4, <1>5, <2>1, TxTake
<1>7. PICK ch : ch = fly[r + 1]
  OBVIOUS
<1>8. Built(n, m[q.desc], ch, s) /\ q.desc \in DOMAIN m
  BY <1>2, <1>5, <1>6, <1>7
<1>9. frames = Sent(k, s)
  <2>1. CASE k = "net"
    <3>1. NetTx(q, m, ch[1]) = Sent("net", s)
      BY <1>3, <1>5, <1>6, <1>8, <2>1, NetSends
    <3> QED BY <1>5, <1>7, <2>1, <3>1
  <2>2. CASE k = "vsock"
    <3>1. VsockTx(q, m, ch[1]) = Sent("vsock", s)
      BY <1>3, <1>5, <1>6, <1>8, <2>2, VsockSends
    <3> QED BY <1>5, <1>7, <2>2, <3>1
  <2> QED BY <1>1, <2>1, <2>2
<1>10. ReturnSeen(k, n, q, m, m, d, m2, 1, 0)
  <2>1. SameBut(q.desc, m, m)
    BY DEF SameBut, State, Memory
  <2> QED BY <1>1, <1>2, <2>1, ReturnSees
<1>11. m2[DescAt(1)] = table /\ Back(m2[UsedAt(1)], d.seen[1]) = r + 1
  BY <1>2, <1>10, Zenon DEF ReturnSeen
<1> QED BY <1>2, <1>6, <1>9, <1>11, Zenon DEF TxOf

LEMMA InitTx ==
  ASSUME Init
  PROVE  TxInv
<1>1. State(kind, t, mem, drv)
  BY InitInv DEF Inv
<1>2. mem = FreshMemory(kind) /\ drv.step = 1 /\ tx_chan = <<>> /\ tx_expect = <<>>
  BY DEF Init, FreshDriver
<1>3. PICK e : e = tx_expect
  OBVIOUS
<1>4. e = <<>> /\ e \in Seq({})
  BY <1>2, <1>3
<1>5. TxState(kind, mem, drv, e, e)
  BY <1>1, <1>2, <1>4, TxFresh
<1> QED BY <1>2, <1>4, <1>5 DEF TxInv

LEMMA TxShapeOf ==
  ASSUME kind \in {"net", "vsock"}, NEW s \in Shapes(1)
  PROVE  TxShape(kind, s) /\ TxFrames(1, s) = Sent(kind, s)
<1>1. TxFrames(1, s) = Sent(kind, s)
  BY Zenon DEF TxFrames, Sent, Raw, TX_QUEUE
<1>2. PICK v : v = Fresh(tx_expect)
  OBVIOUS
<1>3. s \in TxShapes(v)
  BY <1>2 DEF Shapes, RX_QUEUE, TX_QUEUE
<1>4. ASSUME NEW d, s = <<d>>, ~Sendable(d), d.writable \in BOOLEAN, d.mapped \in BOOLEAN,
             d.data \in Seq(Nat)
      PROVE  TxShape(kind, s)
  BY <1>4, Zenon DEF TxShape
<1>5. ASSUME s = <<In(Zeros(MAX_FRAME + 1))>> PROVE TxShape(kind, s)
  <2>1. PICK z : z = Zeros(MAX_FRAME + 1)
    OBVIOUS
  <2>2. z \in Seq(Nat) /\ ~(Len(z) <= MAX_FRAME)
    <3>1. MAX_FRAME \in Nat /\ MAX_FRAME + 1 \in Nat
      BY BackendAssumptions DEF BackendAssumptions
    <3>2. Len(z) = MAX_FRAME + 1 /\ z \in Seq(Nat)
      BY <2>1, <3>1, ZerosSeq
    <3> QED BY <3>1, <3>2
  <2>3. PICK d : d = In(z)
    OBVIOUS
  <2>4. d.writable = FALSE /\ d.mapped = TRUE /\ d.data = z
    BY <2>3 DEF In
  <2>5. ~Sendable(d)
    BY <2>2, <2>4, Zenon DEF Sendable
  <2> QED BY <1>4, <1>5, <2>1, <2>2, <2>3, <2>4, <2>5
<1>6. CASE kind = "net"
  <2>1. \/ Two(s, In(Zeros(NET_HDR_SIZE)), In(<<v>>))
        \/ s = <<In(Zeros(NET_HDR_SIZE))>>
        \/ Two(s, In(Zeros(NET_HDR_SIZE)), Unmapped(In(<<v>>)))
        \/ s = <<In(Zeros(MAX_FRAME + 1))>>
        \/ s = <<Out(1)>>
    BY <1>3, <1>6, Zenon DEF TxShapes, Two
  <2>2. ASSUME s = <<Out(1)>> PROVE TxShape(kind, s)
    <3>1. PICK d : d = Out(1)
      OBVIOUS
    <3>2. d.writable = TRUE /\ d.mapped = TRUE /\ d.data \in Seq(Nat)
      <4>1. Zeros(1) \in Seq(Nat)
        BY ZerosSeq
      <4> QED BY <3>1, <4>1 DEF Out
    <3>3. ~Sendable(d)
      BY <3>2, Zenon DEF Sendable
    <3> QED BY <1>4, <2>2, <3>1, <3>2, <3>3
  <2> QED BY <1>1, <1>5, <1>6, <2>1, <2>2, Zenon DEF TxShape
<1>7. CASE kind = "vsock"
  <2>1. \/ s = <<In(<<5, 1, v>>)>> \/ Two(s, In(<<5, 1>>), In(<<v>>))
        \/ s = <<In(<<5, 1>>)>> \/ s = <<In(<<5>>)>>
        \/ s = <<Unmapped(In(<<5, 0>>))>>
        \/ s = <<In(Zeros(MAX_FRAME + 1))>>
    <3>1. ~(kind = "net")
      BY <1>7
    <3> QED BY <1>3, <3>1, Zenon DEF TxShapes, Two
  <2>2. ASSUME s = <<Unmapped(In(<<5, 0>>))>> PROVE TxShape(kind, s)
    <3>1. PICK d : d = Unmapped(In(<<5, 0>>))
      OBVIOUS
    <3>2. d.writable = FALSE /\ d.mapped = FALSE /\ d.data \in Seq(Nat)
      BY <3>1 DEF Unmapped, In
    <3>3. ~Sendable(d)
      BY <3>2, Zenon DEF Sendable
    <3> QED BY <1>4, <2>2, <3>1, <3>2, <3>3
  <2> QED BY <1>1, <1>5, <1>7, <2>1, <2>2, Zenon DEF TxShape
<1> QED BY <1>6, <1>7

\* What the driver does in Submit, in the terms of the lemmas above.
Puts(i, s, last) ==
  /\ Len(s) <= QueueSize[kind] - Cardinality(Occupied(i))
  /\ last = "round" => Len(s) = QueueSize[kind]
  /\ PutAvail(mem, mem', i, QueueSize[kind],
              PutChain(QueueSize[kind], mem[DescAt(i)], NextFree(i, Len(s)), s, last),
              NextFree(i, Len(s))[1])
  /\ Noted(drv, drv', i, QueueSize[kind], NextFree(i, Len(s)), Len(s))
  /\ tx_expect' = tx_expect \o TxFrames(i, s)

LEMMA SubmitPuts ==
  ASSUME NEW i, Submit(i)
  PROVE  \E s \in Shapes(i), last \in Tails : Puts(i, s, last)
  BY ZenonT(60) DEF Submit, Puts, PutAvail, PutChain, Beyond, Noted

LEMMA SubmitTx ==
  ASSUME Inv, TxInv, NEW i \in QueuesOf(kind), Submit(i)
  PROVE  TxInv'
<1>1. State(kind, t, mem, drv) /\ TxState(kind, mem, drv, tx_chan, tx_expect) /\ kind \in Kinds
  BY DEF Inv, TxInv, State
<1>2. PICK s \in Shapes(i), last \in Tails : Puts(i, s, last)
  BY SubmitPuts
<1>3. PICK n, len, ch, table :
        /\ n = QueueSize[kind] /\ len = Len(s) /\ ch = NextFree(i, Len(s))
        /\ table = PutChain(n, mem[DescAt(i)], ch, s, last)
  BY Zenon
<1>4. len \in Nat \ {0}
  BY <1>3, ShapeSizes
<1>5. Room(n, drv.inflight[i], len)
  BY <1>2, <1>3, Zenon DEF Puts, Room, Occupied, Held
<1>6. ch = ChainFrom(n, drv.alloc[i], len)
  BY <1>3, Zenon DEF NextFree, ChainFrom
<1>7. /\ PutAvail(mem, mem', i, n, table, ch[1]) /\ Noted(drv, drv', i, n, ch, len)
      /\ last = "round" => len = n
      /\ tx_expect' = tx_expect \o TxFrames(i, s)
  BY <1>2, <1>3, Zenon DEF Puts
<1>8. drv.step > Len(SetupScript(kind)) /\ kind' = kind /\ tx_chan' = tx_chan
  BY DEF Submit, Live
<1>9. PICK m2, d2, exp2 : m2 = mem' /\ d2 = drv' /\ exp2 = tx_expect'
  BY Zenon
<1>10. CASE i # 1
  <2>1. exp2 = tx_expect
    <3>1. PICK S : tx_expect \in Seq(S)
      BY <1>1, TxChan
    <3>2. TxFrames(i, s) = <<>>
      BY <1>10, Zenon DEF TxFrames, TX_QUEUE
    <3> QED BY <1>7, <1>9, <3>1, <3>2
  <2>2. SubmitSeen(kind, mem, drv, m2, d2, i, table, ch)
    BY <1>1, <1>3, <1>4, <1>6, <1>7, <1>9, SubmitSees
  <2>3. CASE kind = "block"
    BY <1>1, <1>8, <1>9, <2>1, <2>3 DEF TxInv, TxState
  <2>4. CASE kind # "block"
    <3>1. 1 \in QueuesOf(kind)
      BY <1>1, <2>4, HasTx
    <3>2. Same(mem, drv, m2, d2, 1)
      BY <1>10, <2>2, <3>1, Zenon DEF SubmitSeen
    <3>3. TxState(kind, m2, d2, tx_chan, tx_expect)
      BY <1>1, <3>2, TxSame
    <3> QED BY <1>8, <1>9, <2>1, <3>3 DEF TxInv
  <2> QED BY <2>3, <2>4
<1>11. CASE i = 1
  <2>1. kind \in {"net", "vsock"}
    BY <1>1, <1>11, Sizes DEF QueuesOf, QueueCount
  <2>2. TxShape(kind, s) /\ TxFrames(1, s) = Sent(kind, s)
    BY <1>11, <2>1, TxShapeOf
  <2>3. exp2 = tx_expect \o Sent(kind, s)
    BY <1>7, <1>9, <1>11, <2>2, Zenon
  <2>4. kind # "block" /\ TxOf(kind, mem, drv, tx_chan, tx_expect)
    BY <1>1, <2>1 DEF TxState
  <2>5. /\ Len(s) \in Nat \ {0} /\ Room(n, drv.inflight[1], Len(s))
        /\ ch = ChainFrom(n, drv.alloc[1], Len(s)) /\ (last = "round" => Len(s) = n)
        /\ table = PutChain(n, mem[DescAt(1)], ch, s, last)
        /\ PutAvail(mem, m2, 1, n, table, ch[1]) /\ Noted(drv, d2, 1, n, ch, Len(s))
    BY <1>3, <1>4, <1>5, <1>6, <1>7, <1>9, <1>11, Zenon
  <2>6. TxOf(kind, m2, d2, tx_chan, exp2)
    BY <1>1, <1>3, <1>8, <2>2, <2>3, <2>4, <2>5, TxSubmits
  <2> QED BY <1>8, <1>9, <2>4, <2>6 DEF TxInv, TxState
<1> QED BY <1>10, <1>11

LEMMA ConsumeTx ==
  ASSUME Inv, TxInv, NEW i \in QueuesOf(kind), Consume(i)
  PROVE  TxInv'
<1>1. State(kind, t, mem, drv) /\ TxState(kind, mem, drv, tx_chan, tx_expect) /\ kind \in Kinds
  BY DEF Inv, TxInv, State
<1>2. PICK n, e, table : /\ n = QueueSize[kind] /\ e = Unseen(i)[1]
                         /\ table = Cleared(mem[DescAt(i)], drv.inflight[i][1])
  BY Zenon
<1>3. e = FirstUnseen(mem[UsedAt(i)], drv.seen[i], n)
  BY <1>2, Zenon DEF Unseen, FirstUnseen
<1>4. PICK m2, d2 : m2 = mem' /\ d2 = drv'
  BY Zenon
<1>5. NotedBack(drv, d2, i, e.id)
  BY <1>2, <1>4, Zenon DEF Consume, NotedBack
<1>6. m2 = [mem EXCEPT ![DescAt(i)] = table]
  BY <1>2, <1>4, Zenon DEF Consume, Cleared
<1>7. /\ drv.step > Len(SetupScript(kind)) /\ drv.seen[i] # mem[UsedAt(i)].idx
      /\ kind' = kind /\ tx_chan' = tx_chan /\ tx_expect' = tx_expect
  BY DEF Consume, Live
<1>8. CASE kind = "block"
  BY <1>1, <1>7, <1>8 DEF TxInv, TxState
<1>9. CASE kind # "block" /\ i # 1
  <2>1. ConsumeSeen(kind, n, mem, drv, m2, d2, i, e, table)
    BY <1>1, <1>2, <1>3, <1>5, <1>6, <1>7, ConsumeSees
  <2>2. 1 \in QueuesOf(kind)
    BY <1>1, <1>9, HasTx
  <2>3. Same(mem, drv, m2, d2, 1)
    BY <1>9, <2>1, <2>2, Zenon DEF ConsumeSeen
  <2>4. TxState(kind, m2, d2, tx_chan, tx_expect)
    BY <1>1, <2>3, TxSame
  <2> QED BY <1>4, <1>7, <2>4 DEF TxInv
<1>10. CASE kind # "block" /\ i = 1
  <2>1. TxOf(kind, mem, drv, tx_chan, tx_expect)
    BY <1>1, <1>10 DEF TxState
  <2>2. /\ drv.seen[1] # mem[UsedAt(1)].idx
        /\ e = FirstUnseen(mem[UsedAt(1)], drv.seen[1], n)
        /\ table = Cleared(mem[DescAt(1)], drv.inflight[1][1])
        /\ PutTable(mem, m2, 1, table) /\ NotedBack(drv, d2, 1, e.id)
    BY <1>2, <1>3, <1>5, <1>6, <1>7, <1>10, Zenon DEF PutTable
  <2>3. TxOf(kind, m2, d2, tx_chan, tx_expect)
    BY <1>1, <1>2, <1>7, <1>10, <2>1, <2>2, TxConsumes
  <2> QED BY <1>4, <1>7, <1>10, <2>3 DEF TxInv, TxState
<1> QED BY <1>8, <1>9, <1>10

\* A chain of another queue is returned.
LEMMA ReturnOther ==
  ASSUME Inv, TxInv, NEW i \in QueuesOf(kind), i # 1, HasChain(Q(i), mem),
         NEW m1, SameBut(Q(i).desc, mem, m1), NEW w,
         mem' = PushUsed(Q(i), m1, HeadIndex(Q(i), mem), w),
         kind' = kind, drv' = drv, tx_chan' = tx_chan, tx_expect' = tx_expect
  PROVE  TxInv'
<1>1. State(kind, t, mem, drv) /\ TxState(kind, mem, drv, tx_chan, tx_expect) /\ kind \in Kinds
  BY DEF Inv, TxInv, State
<1>2. CASE kind = "block"
  BY <1>1, <1>2 DEF TxInv, TxState
<1>3. CASE kind # "block"
  <2>1. PICK q, n, m2 : q = t.queues[i].queue /\ n = QueueSize[kind] /\ m2 = mem'
    BY Zenon
  <2>2. /\ HasChain(q, mem) /\ SameBut(q.desc, mem, m1)
        /\ m2 = PushUsed(q, m1, HeadIndex(q, mem), w)
    BY <2>1, Zenon DEF Q
  <2>3. ReturnSeen(kind, n, q, mem, m1, drv, m2, i, w)
    BY <1>1, <2>1, <2>2, ReturnSees
  <2>4. 1 \in QueuesOf(kind)
    BY <1>1, <1>3, HasTx
  <2>5. Same(mem, drv, m2, drv, 1)
    BY <2>3, <2>4, Zenon DEF ReturnSeen
  <2>6. TxState(kind, m2, drv, tx_chan, tx_expect)
    BY <1>1, <2>5, TxSame
  <2> QED BY <2>1, <2>6 DEF TxInv
<1> QED BY <1>2, <1>3

LEMMA ProcessTxTx ==
  ASSUME Inv, TxInv, ProcessTx
  PROVE  TxInv'
<1>1. State(kind, t, mem, drv) /\ TxState(kind, mem, drv, tx_chan, tx_expect) /\ kind \in Kinds
      /\ busy.queue \in QueuesOf(kind) /\ IsFcn(mem)
  BY DEF Inv, TxInv, State, Busies, Memory
<1>2. PICK i : i = busy.queue
  OBVIOUS
<1>3. /\ i \in QueuesOf(kind) /\ HasChain(Q(i), mem) /\ kind' = kind /\ drv' = drv
      /\ kind # "block" /\ tx_expect' = tx_expect
  BY <1>1, <1>2 DEF ProcessTx
<1>4. mem' = PushUsed(Q(i), mem, HeadIndex(Q(i), mem), 0)
  BY <1>2, Zenon DEF ProcessTx, Return
<1>5. CASE i # 1
  <2>1. PICK S : tx_chan \in Seq(S)
    BY <1>1, TxChan
  <2>2. tx_chan' = tx_chan \o <<>>
    BY <1>2, <1>5, Zenon DEF ProcessTx, TX_QUEUE
  <2>3. tx_chan' = tx_chan
    BY <2>1, <2>2
  <2>4. SameBut(Q(i).desc, mem, mem)
    BY <1>1 DEF SameBut
  <2> QED BY <1>3, <1>4, <1>5, <2>3, <2>4, ReturnOther
<1>6. CASE i = 1
  <2>1. PICK q, m2, frames :
          /\ q = t.queues[1].queue /\ m2 = mem'
          /\ frames = IF kind = "net" THEN NetTx(q, mem, HeadIndex(q, mem))
                      ELSE VsockTx(q, mem, HeadIndex(q, mem))
    BY Zenon
  <2>2. tx_chan' = tx_chan \o frames
    BY <1>2, <1>6, <2>1, Zenon DEF ProcessTx, TX_QUEUE, Q
  <2>3. HasChain(q, mem) /\ m2 = PushUsed(q, mem, HeadIndex(q, mem), 0)
    BY <1>3, <1>4, <1>6, <2>1, Zenon DEF Q
  <2>4. TxOf(kind, mem, drv, tx_chan, tx_expect)
    BY <1>1, <1>3 DEF TxState
  <2>5. TxOf(kind, m2, drv, tx_chan \o frames, tx_expect)
    BY <1>1, <1>3, <2>1, <2>3, <2>4, TxReturns
  <2> QED BY <1>3, <2>1, <2>2, <2>5 DEF TxInv, TxState
<1> QED BY <1>5, <1>6

LEMMA HostReceivesTx ==
  ASSUME TxInv, HostReceives
  PROVE  TxInv'
<1>1. /\ tx_chan # <<>> /\ tx_chan' = Tail(tx_chan) /\ tx_expect' = Tail(tx_expect)
      /\ kind' = kind /\ mem' = mem /\ drv' = drv
  BY DEF HostReceives
<1>2. TxOf(kind, mem, drv, tx_chan, tx_expect) /\ kind # "block"
  BY <1>1 DEF TxInv, TxState
<1>3. TxOf(kind, mem, drv, Tail(tx_chan), Tail(tx_expect))
  BY <1>1, <1>2, TxReceive DEF TxOf
<1> QED BY <1>1, <1>2, <1>3 DEF TxInv, TxState

LEMMA StepTx ==
  ASSUME Inv, Inv', TxInv, [Next]_vars
  PROVE  TxInv'
<1>1. State(kind, t, mem, drv) /\ TxState(kind, mem, drv, tx_chan, tx_expect) /\ kind \in Kinds
      /\ drv \in Drivers(kind) /\ busy.queue \in QueuesOf(kind) /\ IsFcn(mem)
  BY DEF Inv, TxInv, State, Busies, Memory
<1>2. drv.uses \subseteq QueuesOf(kind)
  BY <1>1 DEF Drivers
<1>3. 0 \in QueuesOf(kind)
  <2>1. QueueCount(kind) \in 1..3
    BY <1>1, Sizes
  <2> QED BY <2>1 DEF QueuesOf
<1>4. ASSUME kind' = kind, mem' = mem, drv'.inflight = drv.inflight, drv'.seen = drv.seen,
             tx_chan' = tx_chan, tx_expect' = tx_expect
      PROVE  TxInv'
  <2>1. PICK d2 : d2 = drv'
    OBVIOUS
  <2>2. Same(mem, drv, mem, d2, 1)
    BY <1>4, <2>1, Zenon DEF Same
  <2>3. TxState(kind, mem, d2, tx_chan, tx_expect)
    BY <1>1, <2>2, TxSame
  <2> QED BY <1>4, <2>1, <2>3 DEF TxInv
<1>5. CASE SetupWrite
  <2>1. drv'.inflight = drv.inflight /\ drv'.seen = drv.seen
    BY <1>1, <1>5 DEF SetupWrite, Drivers
  <2> QED BY <1>4, <1>5, <2>1 DEF SetupWrite, hostVars
<1>6. CASE StartOver
  <2>1. PICK x, m2, d2, e : x = t' /\ m2 = mem' /\ d2 = drv' /\ e = tx_chan
    BY Zenon
  <2>2. /\ kind' = kind /\ m2 = FreshMemory(kind) /\ d2.step = 1
        /\ tx_expect' = e /\ tx_chan' = e
    BY <1>6, <2>1 DEF StartOver, FreshDriver
  <2>3. State(kind, x, m2, d2)
    BY <2>1, <2>2 DEF Inv
  <2>4. PICK S : e \in Seq(S)
    BY <1>1, <2>1, TxChan
  <2>5. kind = "block" => e = <<>>
    BY <1>1, <2>1 DEF TxState
  <2>6. TxState(kind, m2, d2, e, e)
    BY <2>2, <2>3, <2>4, <2>5, TxFresh
  <2> QED BY <2>1, <2>2, <2>6 DEF TxInv
<1>7. ASSUME NEW i \in drv.uses, Submit(i) PROVE TxInv'
  BY <1>2, <1>7, SubmitTx
<1>8. ASSUME NEW i \in drv.uses, Consume(i) PROVE TxInv'
  BY <1>2, <1>8, ConsumeTx
<1>9. ASSUME NEW i \in drv.uses, Notify(i) PROVE TxInv'
  BY <1>4, <1>9 DEF Notify, hostVars
<1>10. CASE ProcessBlock
  BY <1>1, <1>10 DEF ProcessBlock, TxInv, TxState, hostVars
<1>11. CASE ProcessTx
  BY <1>11, ProcessTxTx
<1>12. CASE DeliverNet
  <2>1. PICK m1, w : /\ m1 = NetRx(Q(0), mem, HeadIndex(Q(0), mem), Head(rx_pending)).mem
                     /\ w = NetRx(Q(0), mem, HeadIndex(Q(0), mem), Head(rx_pending)).written
    BY Zenon
  <2>2. mem' = PushUsed(Q(0), m1, HeadIndex(Q(0), mem), w) /\ HasChain(Q(0), mem)
    BY <1>12, <2>1, Zenon DEF DeliverNet, RX_QUEUE
  <2>3. kind' = kind /\ drv' = drv /\ tx_chan' = tx_chan /\ tx_expect' = tx_expect
    BY <1>12 DEF DeliverNet, hostVars
  <2>4. Q(0).size \in Nat
    BY <1>1, <1>3 DEF State, Q, Transports, QueueStates, QueueRecords, QueuesOf
  <2>5. SameBut(Q(0).desc, mem, m1)
    BY <1>1, <2>1, <2>4, NetRxFrame
  <2> QED BY <1>3, <2>2, <2>3, <2>5, ReturnOther
<1>13. CASE DeliverVsock
  <2>1. PICK m1, w : /\ m1 = VsockRx(Q(0), mem, HeadIndex(Q(0), mem), Head(rx_pending)).mem
                     /\ w = VsockRx(Q(0), mem, HeadIndex(Q(0), mem), Head(rx_pending)).written
    BY Zenon
  <2>2. mem' = PushUsed(Q(0), m1, HeadIndex(Q(0), mem), w) /\ HasChain(Q(0), mem)
    BY <1>13, <2>1, Zenon DEF DeliverVsock, RX_QUEUE
  <2>3. kind' = kind /\ drv' = drv /\ tx_chan' = tx_chan /\ tx_expect' = tx_expect
    BY <1>13 DEF DeliverVsock, hostVars
  <2>5. SameBut(Q(0).desc, mem, m1)
    BY <1>1, <2>1, VsockRxFrame
  <2> QED BY <1>3, <2>2, <2>3, <2>5, ReturnOther
<1>14. CASE HostReceives
  BY <1>14, HostReceivesTx
<1>15. CASE Ack \/ NotifyEnds \/ PollStart \/ PollEnds \/ HostSends \/ UNCHANGED vars
  <2>1. /\ kind' = kind /\ mem' = mem /\ drv' = drv
        /\ tx_chan' = tx_chan /\ tx_expect' = tx_expect
    BY <1>15 DEF Ack, NotifyEnds, PollStart, PollEnds, HostSends, vars, hostVars
  <2> QED BY <1>4, <2>1
<1> QED BY <1>5, <1>6, <1>7, <1>8, <1>9, <1>10, <1>11, <1>12, <1>13, <1>14, <1>15
        DEF Next, Driver, Device

LEMMA TxAgrees == Inv /\ TxInv => TxInOrder
<1> SUFFICES ASSUME Inv, TxInv PROVE TxInOrder
  OBVIOUS
<1>1. State(kind, t, mem, drv) /\ TxState(kind, mem, drv, tx_chan, tx_expect) /\ kind \in Kinds
  BY DEF Inv, TxInv, State
<1>2. CASE kind = "block"
  <2>1. tx_chan = <<>> /\ tx_expect = <<>> /\ ~(QueueCount(kind) > 1)
    BY <1>1, <1>2 DEF TxState, QueueCount
  <2>2. Len(<<>>) <= Len(<<>>) /\ <<>> = SubSeq(<<>>, 1, Len(<<>>))
    OBVIOUS
  <2> QED BY <2>1, <2>2 DEF TxInOrder
<1>3. CASE kind # "block"
  <2>1. 1 \in QueuesOf(kind) /\ TxOf(kind, mem, drv, tx_chan, tx_expect)
    BY <1>1, <1>3, HasTx DEF TxState
  <2>2. PICK n, q, table, fly, r :
          /\ n = QueueSize[kind] /\ q = t.queues[1].queue /\ table = mem[DescAt(1)]
          /\ fly = drv.inflight[1] /\ r = Back(mem[UsedAt(1)], drv.seen[1])
    BY Zenon
  <2>3. TxIs(kind, n, table, fly, r, tx_chan, tx_expect)
    BY <2>1, <2>2, Zenon DEF TxOf
  <2>4. Sees(kind, n, q, mem, drv, 1)
    BY <1>1, <2>1, <2>2, StateSees
  <2>5. /\ Len(fly) \in Nat /\ r \in 0..Len(fly)
        /\ drv.step > Len(SetupScript(kind)) /\ ~HasChain(q, mem) => ~(r < Len(fly))
    BY <2>2, <2>4, Zenon DEF Sees
  <2>6. r \in Nat
    BY <2>5
  <2>7. /\ Len(tx_chan) <= Len(tx_expect) /\ tx_chan = SubSeq(tx_expect, 1, Len(tx_chan))
        /\ ~(r < Len(fly)) => tx_chan = tx_expect
    BY <2>3, <2>5, <2>6, TxFacts
  <2> QED BY <2>2, <2>5, <2>7, Zenon DEF TxInOrder, Live, Q, TX_QUEUE
<1> QED BY <1>2, <1>3

\* Whatever the traffic of the guest, chains that carry nothing and resets
\* included: what is in the channel to the host is the beginning of what the
\* guest has sent since, in its order, and when the device has taken every chain
\* it is all of it (net.rs, process_tx; vsock.rs, process_tx).
THEOREM TxInOrderHolds == Spec => []TxInOrder
<1>1. Init => Inv /\ TxInv
  BY InitInv, InitTx
<1>2. Inv /\ TxInv /\ [Next]_vars => Inv' /\ TxInv'
  BY StepInv, StepTx
<1>3. Inv /\ TxInv => TxInOrder
  BY TxAgrees
<1> QED BY <1>1, <1>2, <1>3, PTL DEF Spec

-----------------------------------------------------------------------------
(* A number is how many elements there are up to it. *)

LEMMA NumbersCount ==
  ASSUME NEW I, NEW z, NEW f, Numbers(I, 0, z, f)
  PROVE  Cardinality(I) = z
<1>1. /\ I \subseteq Nat /\ z \in Nat
      /\ f \in [I -> (0 + 1)..z]
      /\ \A v \in (0 + 1)..z : \E x \in I : f[x] = v
      /\ \A x, y \in I : x < y => f[x] < f[y]
  BY DEF Numbers
<1>2. f \in [I -> 1..z] /\ \A v \in 1..z : \E x \in I : f[x] = v
  BY <1>1
<1>3. \A x, y \in I : f[x] = f[y] => x = y
  <2> SUFFICES ASSUME NEW x \in I, NEW y \in I, f[x] = f[y] PROVE x = y
    OBVIOUS
  <2>1. x \in Nat /\ y \in Nat /\ f[x] \in Nat /\ f[y] \in Nat
    BY <1>1
  <2>2. CASE x < y
    BY <1>1, <2>1, <2>2
  <2>3. CASE y < x
    BY <1>1, <2>1, <2>3
  <2> QED BY <2>1, <2>2, <2>3
<1>4. f \in Bijection(I, 1..z)
  BY <1>2, <1>3, Fun_IsBij
<1>5. ExistsBijection(I, 1..z)
  BY <1>4 DEF ExistsBijection
<1>6. ExistsBijection(1..z, I)
  BY <1>5, Fun_ExistsBijSymmetric
<1>7. IsFiniteSet(1..z) /\ Cardinality(1..z) = z
  BY <1>1, FS_Interval
<1> QED BY <1>6, <1>7, FS_Bijection

LEMMA NumbersUpto ==
  ASSUME NEW I, NEW z, NEW f, Numbers(I, 0, z, f), NEW j \in I
  PROVE  Cardinality({h \in I : h <= j}) = f[j]
<1>1. /\ I \subseteq Nat /\ z \in Nat
      /\ f \in [I -> (0 + 1)..z]
      /\ \A v \in (0 + 1)..z : \E x \in I : f[x] = v
      /\ \A x, y \in I : x < y => f[x] < f[y]
  BY DEF Numbers
<1>2. PICK J, g, w : J = {h \in I : h <= j} /\ g = [h \in J |-> f[h]] /\ w = f[j]
  BY Zenon
<1>3. w \in Nat /\ w <= z /\ w >= 1
  BY <1>1, <1>2
<1>4. \A h \in J : h \in I /\ h \in Nat /\ h <= j /\ g[h] = f[h]
  BY <1>1, <1>2
<1>5. \A h \in J : f[h] \in (0 + 1)..w
  <2> TAKE h \in J
  <2>1. CASE h = j
    BY <1>1, <1>2, <2>1
  <2>2. CASE h # j
    <3>1. h < j
      BY <1>1, <1>4, <2>2
    <3>2. f[h] < f[j]
      BY <1>1, <1>4, <3>1
    <3> QED BY <1>1, <1>2, <1>3, <1>4, <3>2
  <2> QED BY <2>1, <2>2
<1>6. g \in [J -> (0 + 1)..w]
  BY <1>2, <1>5
<1>7. ASSUME NEW v \in (0 + 1)..w PROVE \E h \in J : g[h] = v
  <2>1. PICK h \in I : f[h] = v
    BY <1>1, <1>3
  <2>2. h <= j
    <3>1. CASE j < h
      BY <1>1, <1>2, <1>3, <2>1, <3>1
    <3> QED BY <1>1, <3>1
  <2> QED BY <1>2, <2>1, <2>2
<1>8. \A x, y \in J : x < y => g[x] < g[y]
  BY <1>1, <1>4
<1>9. Numbers(J, 0, w, g)
  <2>1. J \subseteq Nat /\ 0 \in Nat /\ 0 <= w
    BY <1>3, <1>4
  <2> QED BY <1>3, <1>6, <1>7, <1>8, <2>1, Zenon DEF Numbers
<1>10. Cardinality(J) = w
  BY <1>9, NumbersCount
<1> QED BY <1>2, <1>10

-----------------------------------------------------------------------------
(* What the devices put into a chain of the reception queue. *)

RxShape(s) ==
  \A j \in 1..Len(s) : /\ s[j].writable \in BOOLEAN /\ s[j].mapped \in BOOLEAN
                       /\ s[j].data \in Seq(Nat)

\* A frame of the host.
IsPacket(k, fr) ==
  \/ k = "net" /\ \E S : fr \in Seq(S)
  \/ k = "vsock" /\ \E v : fr = [op |-> 5, len |-> 1, payload |-> <<v>>]

\* The frame is in the buffers of the chain, as far as the length says.
ArrivedIn(k, table, ch, fr, len) ==
  IF k = "net" THEN SpreadOver(table, ch, Zeros(NET_HDR_SIZE) \o fr, len)
               ELSE HoldsPacket(table[ch[1]], ToBytes(fr), len)

LEMMA ArrivedKept ==
  ASSUME NEW k, NEW table, NEW table2, NEW ch, NEW fr, NEW len, Len(ch) \in Nat \ {0},
         \A j \in 1..Len(ch) : table2[ch[j]] = table[ch[j]], ArrivedIn(k, table, ch, fr, len)
  PROVE  ArrivedIn(k, table2, ch, fr, len)
<1>1. CASE k = "net"
  BY <1>1, Zenon DEF ArrivedIn, SpreadOver
<1>2. CASE k # "net"
  <2>1. 1 \in 1..Len(ch)
    OBVIOUS
  <2> QED BY <1>2, <2>1, Zenon DEF ArrivedIn
<1> QED BY <1>1, <1>2

\* All entries of the table are buffers.
HasData(table) ==
  \A z \in DOMAIN table : {"writable", "mapped", "data"} \subseteq DOMAIN table[z]

\* Only buffers of the chain change.
ElsewhereSame(table, table2, ch) ==
  /\ DOMAIN table2 = DOMAIN table /\ HasData(table2)
  /\ \A z \in DOMAIN table : (\A j \in 1..Len(ch) : ch[j] # z) => table2[z] = table[z]

\* If a length is reported, the frame is there.
Filled(k, table, table2, ch, fr, w) ==
  /\ w \in Nat /\ ElsewhereSame(table, table2, ch)
  /\ w > 0 => ArrivedIn(k, table2, ch, fr, w)

\* The bytes are written over what the buffer held.
Wrote(table, table2, at, bytes) ==
  /\ DOMAIN table2 = DOMAIN table /\ HasData(table2)
  /\ table2[at].data = Overwrite(table[at].data, bytes)
  /\ table2[at].writable = table[at].writable /\ table2[at].mapped = table[at].mapped
  /\ \A z \in DOMAIN table : z # at => table2[z] = table[z]

LEMMA WriteOne ==
  ASSUME NEW q, NEW m, IsFcn(m), q.desc \in DOMAIN m, NEW table, table = m[q.desc],
         HasData(table), NEW i \in DOMAIN table, table[i].mapped = TRUE, NEW bytes,
         NEW m2, m2 = WriteBuffer(q, m, i, bytes)
  PROVE  Wrote(table, m2[q.desc], i, bytes)
<1>1. PICK x : x = Overwrite(m[q.desc][i].data, bytes)
  OBVIOUS
<1>2. WriteBuffer(q, m, i, bytes) = [m EXCEPT ![q.desc][i].data = x]
  BY <1>1, Zenon DEF WriteBuffer, Buffer
<1>3. PICK e : e = [m[q.desc][i] EXCEPT !.data = x]
  OBVIOUS
<1>4. PICK table2 : table2 = [m[q.desc] EXCEPT ![i] = e]
  OBVIOUS
<1>5. WriteBuffer(q, m, i, bytes)[q.desc] = table2
  <2>1. [m EXCEPT ![q.desc][i].data = x] = [m EXCEPT ![q.desc] = table2]
    BY <1>3, <1>4
  <2>2. [m EXCEPT ![q.desc] = table2][q.desc] = table2
    BY DEF IsFcn
  <2> QED BY <1>2, <2>1, <2>2, Zenon
<1>6. {"writable", "mapped", "data"} \subseteq DOMAIN m[q.desc][i]
  BY DEF HasData
<1>7. /\ e.data = x /\ DOMAIN e = DOMAIN m[q.desc][i]
      /\ e.writable = table[i].writable /\ e.mapped = table[i].mapped
  BY <1>3, <1>6
<1>8. /\ table2[i] = e /\ DOMAIN table2 = DOMAIN table
      /\ \A z \in DOMAIN table : z # i => table2[z] = table[z]
  BY <1>4
<1>9. HasData(table2)
  BY <1>6, <1>7, <1>8 DEF HasData
<1> QED BY <1>1, <1>5, <1>7, <1>8, <1>9, Zenon DEF Wrote

\* What is there after bytes are written over a buffer.
LEMMA OverwriteIs ==
  ASSUME NEW S, NEW buf \in Seq(S), NEW T, NEW bytes \in Seq(T), NEW x, x = Overwrite(buf, bytes)
  PROVE  /\ Len(bytes) <= Len(buf) => Len(x) = Len(buf)
         /\ \A j \in 1..Len(bytes) : x[j] = bytes[j]
<1>1. PICK R, y : R = S \cup T /\ y = SubSeq(buf, Len(bytes) + 1, Len(buf))
  BY Zenon
<1>2. S \subseteq R /\ T \subseteq R
  BY <1>1
<1>3. buf \in Seq(R) /\ bytes \in Seq(R) /\ Len(buf) \in Nat /\ Len(bytes) \in Nat
  BY <1>2
<1>4. y \in Seq(R) /\ (Len(bytes) <= Len(buf) => Len(y) = Len(buf) - Len(bytes))
  BY <1>1, <1>3
<1>5. Follows(R, bytes, y, x)
  <2>1. Joined(x, bytes, y)
    BY <1>1, Zenon DEF Overwrite, Joined
  <2> QED BY <1>3, <1>4, <2>1, JoinSeq, Zenon
<1>6. Len(x) = Len(bytes) + Len(y) /\ \A j \in 1..Len(bytes) : x[j] = bytes[j]
  BY <1>5, Zenon DEF Follows
<1>7. ASSUME Len(bytes) <= Len(buf) PROVE Len(x) = Len(buf)
  BY <1>3, <1>4, <1>6, <1>7
<1> QED BY <1>6, <1>7

\* A part of a sequence.
LEMMA PartOf ==
  ASSUME NEW T, NEW load \in Seq(T), NEW w \in Nat, NEW l \in Nat, w + l <= Len(load),
         NEW x, x = SubSeq(load, w + 1, w + l)
  PROVE  x \in Seq(T) /\ Len(x) = l /\ \A j \in 1..l : x[j] = load[w + j]
<1>1. /\ x \in Seq(T) /\ Len(x) = l
  OBVIOUS
<1>2. ASSUME NEW j \in 1..l PROVE x[j] = load[w + j]
  <2>1. j \in 1..(w + l - (w + 1) + 1)
    OBVIOUS
  <2>2. w + 1 + j - 1 = w + j
    OBVIOUS
  <2> QED BY <2>1, <2>2
<1> QED BY <1>1, <1>2

\* A buffer takes the part of the load that fits.
LEMMA TakesOne ==
  ASSUME NEW S, NEW T, NEW load \in Seq(T), NEW w \in 0..Len(load),
         NEW table, NEW table2, NEW i, table[i].data \in Seq(S),
         NEW more, more = Least(Len(table[i].data), Len(load) - w),
         Wrote(table, table2, i, SubSeq(load, w + 1, w + more))
  PROVE  /\ w + more \in 0..Len(load)
         /\ table[i].writable /\ table[i].mapped => TakesPart(table2[i], load, w, w + more)
<1>1. PICK buf, x, y : buf = table[i].data /\ x = table2[i].data /\ y = SubSeq(load, w + 1, w + more)
  BY Zenon
<1>2. Len(load) \in Nat /\ w \in Nat /\ w <= Len(load) /\ Len(buf) \in Nat /\ buf \in Seq(S)
  BY <1>1
<1>3. more \in Nat /\ more <= Len(buf) /\ w + more <= Len(load)
  BY <1>1, <1>2 DEF Least
<1>4. y \in Seq(T) /\ Len(y) = more /\ \A j \in 1..more : y[j] = load[w + j]
  BY <1>1, <1>2, <1>3, PartOf
<1>5. /\ x = Overwrite(buf, y)
      /\ table2[i].writable = table[i].writable /\ table2[i].mapped = table[i].mapped
  BY <1>1, Zenon DEF Wrote
<1>6. Len(x) = Len(buf) /\ \A j \in 1..more : x[j] = y[j]
  BY <1>2, <1>3, <1>4, <1>5, OverwriteIs
<1>7. (w + more) - w = more /\ more = Least(Len(x), Len(load) - w)
  BY <1>1, <1>2, <1>3, <1>6
<1>8. \A j \in 1..((w + more) - w) : x[j] = load[w + j]
  BY <1>4, <1>6, <1>7, Zenon
<1>9. w + more \in 0..Len(load)
  BY <1>2, <1>3
<1>10. PICK d : d = table2[i]
  OBVIOUS
<1>11. w + more = w + Least(Len(d.data), Len(load) - w)
  BY <1>1, <1>7, <1>10, Zenon
<1>12. \A j \in 1..((w + more) - w) : d.data[j] = load[w + j]
  BY <1>1, <1>8, <1>10, Zenon
<1>13. ASSUME d.writable /\ d.mapped PROVE TakesPart(d, load, w, w + more)
  <2>1. PICK to : to = w + more
    OBVIOUS
  <2>2. to = w + Least(Len(d.data), Len(load) - w)
    BY <1>11, <2>1, Zenon
  <2>3. \A j \in 1..(to - w) : d.data[j] = load[w + j]
    BY <1>12, <2>1, Zenon
  <2>4. TakesPart(d, load, w, to)
    BY <1>13, <2>2, <2>3, Zenon DEF TakesPart
  <2> QED BY <2>1, <2>4, Zenon
<1> QED BY <1>5, <1>9, <1>10, <1>13, Zenon

\* A frame of one byte behind a header.
LEMMA LastPut ==
  ASSUME NEW T, NEW z \in Seq(T), NEW v \in T, NEW y, y = z \o <<v>>
  PROVE  /\ y \in Seq(T) /\ Len(y) = Len(z) + 1 /\ y[Len(z) + 1] = v
         /\ \A j \in 1..Len(z) : y[j] = z[j]
<1>1. y = Append(z, v)
  BY AppendIsConcat
<1> QED BY <1>1

LEMMA PacketBytes ==
  ASSUME NEW v, NEW T, T = Nat \cup {v}, NEW y, y = <<5, 1>> \o <<v>>
  PROVE  y \in Seq(T) /\ Len(y) = 3 /\ y[1] = 5 /\ y[2] = 1 /\ y[3] = v
<1>1. PICK z : z = <<5, 1>>
  OBVIOUS
<1>2. z \in Seq(T) /\ v \in T /\ Len(z) = 2 /\ z[1] = 5 /\ z[2] = 1
  BY <1>1
<1>3. y = z \o <<v>>
  BY <1>1
<1>4. /\ y \in Seq(T) /\ Len(y) = Len(z) + 1 /\ y[Len(z) + 1] = v
      /\ \A j \in 1..Len(z) : y[j] = z[j]
  BY <1>2, <1>3, LastPut
<1> QED BY <1>2, <1>4

\* How far the frame has got after j buffers of the chain.
Spread(q, table, ch, load, f, j) ==
  /\ f[j].written \in 0..Len(load) /\ IsFcn(f[j].mem) /\ q.desc \in DOMAIN f[j].mem
  /\ DOMAIN f[j].mem[q.desc] = DOMAIN table /\ HasData(f[j].mem[q.desc])
  /\ \A z \in DOMAIN table : (\A i \in 1..j : ch[i] # z) => f[j].mem[q.desc][z] = table[z]
  /\ \A i \in 1..j : TakesPart(f[j].mem[q.desc][ch[i]], load, f[i - 1].written, f[i].written)

LEMMA SpreadOn ==
  ASSUME NEW q, NEW m, NEW table, table = m[q.desc], NEW ch, NEW j \in Nat, j + 1 \in 1..Len(ch),
         Len(ch) \in Nat, \A x \in 1..Len(ch) : ch[x] \in DOMAIN table,
         \A x, y \in 1..Len(ch) : ch[x] = ch[y] => x = y,
         table[ch[j + 1]].writable \in BOOLEAN, table[ch[j + 1]].mapped \in BOOLEAN,
         table[ch[j + 1]].data \in Seq(Nat),
         NEW T, NEW load \in Seq(T), NEW f, Spread(q, table, ch, load, f, j),
         f[j + 1] = SpreadStep(q, m, ch, load, f[j], j + 1)
  PROVE  Spread(q, table, ch, load, f, j + 1)
<1>1. PICK g, h, i, w, tb, tb2, l :
        /\ g = f[j] /\ h = f[j + 1] /\ i = ch[j + 1] /\ w = g.written
        /\ tb = g.mem[q.desc] /\ tb2 = h.mem[q.desc] /\ l = j + 1
  BY Zenon
<1>2. /\ w \in 0..Len(load) /\ IsFcn(g.mem) /\ q.desc \in DOMAIN g.mem
      /\ DOMAIN tb = DOMAIN table /\ HasData(tb)
      /\ \A z \in DOMAIN table : (\A x \in 1..j : ch[x] # z) => tb[z] = table[z]
      /\ \A x \in 1..j : TakesPart(tb[ch[x]], load, f[x - 1].written, f[x].written)
  BY <1>1, Zenon DEF Spread
<1>3. i \in DOMAIN table /\ l \in Nat /\ l - 1 = j /\ l \in 1..l
      /\ \A x : x \in 1..l <=> x \in 1..j \/ x = l
  <2>1. ch[j + 1] \in DOMAIN table
    OBVIOUS
  <2> QED BY <1>1, <2>1
<1>4. \A x \in 1..j : ch[x] # i
  <2>1. \A x \in 1..j : x \in 1..Len(ch) /\ x # j + 1
    OBVIOUS
  <2> QED BY <1>1, <2>1, Zenon
<1>5. tb[i] = table[i]
  BY <1>2, <1>3, <1>4, Zenon
<1>6. PICK d, more : d = table[i] /\ more = Least(Len(d.data), Len(load) - w)
  BY Zenon
<1>7. d.writable \in BOOLEAN /\ d.mapped \in BOOLEAN /\ d.data \in Seq(Nat)
  BY <1>1, <1>6
<1>8. d = Buffer(q, m, i)
  BY <1>6, Zenon DEF Buffer
\* it is enough that this buffer takes its part, and no other changes
<1>9. ASSUME h.written \in 0..Len(load), IsFcn(h.mem), q.desc \in DOMAIN h.mem,
             DOMAIN tb2 = DOMAIN table, HasData(tb2),
             \A z \in DOMAIN tb : z # i => tb2[z] = tb[z],
             TakesPart(tb2[i], load, w, h.written)
      PROVE  Spread(q, table, ch, load, f, l)
  <2>1. \A z \in DOMAIN table : (\A x \in 1..l : ch[x] # z) => tb2[z] = table[z]
    <3> TAKE z \in DOMAIN table
    <3> HAVE \A x \in 1..l : ch[x] # z
    <3>1. ch[l] # z /\ \A x \in 1..j : ch[x] # z
      BY <1>3, Zenon
    <3>2. z # i /\ z \in DOMAIN tb
      BY <1>1, <1>2, <3>1, Zenon
    <3>3. tb2[z] = tb[z]
      BY <1>9, <3>2, Zenon
    <3>4. tb[z] = table[z]
      BY <1>2, <3>1, Zenon
    <3> QED BY <3>3, <3>4
  <2>2. \A x \in 1..l : TakesPart(tb2[ch[x]], load, f[x - 1].written, f[x].written)
    <3> TAKE x \in 1..l
    <3>1. CASE x = l
      BY <1>1, <1>3, <1>9, <3>1, Zenon
    <3>2. CASE x \in 1..j
      <4>1. x \in 1..Len(ch)
        BY <3>2
      <4>2. ch[x] \in DOMAIN tb
        BY <1>2, <4>1, Zenon
      <4>3. tb2[ch[x]] = tb[ch[x]]
        BY <1>4, <1>9, <3>2, <4>2, Zenon
      <4> QED BY <1>2, <3>2, <4>3, Zenon
    <3> QED BY <1>3, <3>1, <3>2, Zenon
  <2> QED BY <1>1, <1>9, <2>1, <2>2, Zenon DEF Spread
<1>10. CASE ~(d.writable /\ d.mapped)
  <2>1. h = g
    BY <1>1, <1>8, <1>10, Zenon DEF SpreadStep
  <2>2. tb2 = tb /\ h.written = w
    BY <1>1, <2>1
  <2>3. TakesPart(tb2[i], load, w, h.written)
    BY <1>5, <1>6, <1>10, <2>2, Zenon DEF TakesPart
  <2> QED BY <1>1, <1>2, <2>1, <2>2, <2>3, <1>9
<1>11. CASE d.writable /\ d.mapped
  <2>1. PICK bytes : bytes = SubSeq(load, w + 1, w + more)
    OBVIOUS
  <2>2. h = [mem |-> WriteBuffer(q, g.mem, i, bytes), written |-> w + more]
    BY <1>1, <1>6, <1>8, <1>11, <2>1, Zenon DEF SpreadStep
  <2>3. h.mem = WriteBuffer(q, g.mem, i, bytes) /\ h.written = w + more
    BY <2>2
  <2>4. SameBut(q.desc, g.mem, h.mem)
    BY <1>2, <2>3, WriteBufferFrame
  <2>5. Wrote(tb, tb2, i, bytes)
    <3>1. tb[i].mapped = TRUE
      BY <1>5, <1>6, <1>7, <1>11
    <3>2. PICK m1, m2 : m1 = g.mem /\ m2 = h.mem
      BY Zenon
    <3>3. IsFcn(m1) /\ q.desc \in DOMAIN m1 /\ tb = m1[q.desc] /\ i \in DOMAIN tb /\ m2 = WriteBuffer(q, m1, i, bytes)
      BY <1>1, <1>2, <1>3, <2>3, <3>2, Zenon
    <3>4. Wrote(tb, m2[q.desc], i, bytes)
      BY <1>2, <3>1, <3>3, WriteOne
    <3> QED BY <1>1, <3>2, <3>4, Zenon
  <2>6. w + more \in 0..Len(load) /\ TakesPart(tb2[i], load, w, w + more)
    <3>1. tb[i].data \in Seq(Nat) /\ tb[i].writable /\ tb[i].mapped
          /\ more = Least(Len(tb[i].data), Len(load) - w)
      BY <1>5, <1>6, <1>7, <1>11, Zenon
    <3> QED BY <1>2, <2>1, <2>5, <3>1, TakesOne
  <2>7. IsFcn(h.mem) /\ q.desc \in DOMAIN h.mem
    BY <1>2, <2>4, Zenon DEF SameBut
  <2>8. /\ DOMAIN tb2 = DOMAIN table /\ HasData(tb2)
        /\ \A z \in DOMAIN tb : z # i => tb2[z] = tb[z]
    BY <1>2, <2>5, Zenon DEF Wrote
  <2>9. h.written \in 0..Len(load) /\ TakesPart(tb2[i], load, w, h.written)
    BY <2>3, <2>6, Zenon
  <2>10. Spread(q, table, ch, load, f, l)
    BY <1>9, <2>7, <2>8, <2>9, Zenon
  <2> QED BY <1>1, <2>10, Zenon
<1> QED BY <1>1, <1>7, <1>10, <1>11, Zenon

\* All buffers of the chain have been gone through.
Buffers(table, ch) ==
  /\ \A x \in 1..Len(ch) : /\ ch[x] \in DOMAIN table
                           /\ table[ch[x]].writable \in BOOLEAN
                           /\ table[ch[x]].mapped \in BOOLEAN
                           /\ table[ch[x]].data \in Seq(Nat)
  /\ \A x, y \in 1..Len(ch) : ch[x] = ch[y] => x = y

Spreads(q, m, ch, load, f) ==
  /\ f[0] = [mem |-> m, written |-> 0]
  /\ \A j \in 0..(Len(ch) - 1) : f[j + 1] = SpreadStep(q, m, ch, load, f[j], j + 1)

AllSpread(q, table, ch, load, f) ==
  f[0].written = 0 /\ \A j \in 0..Len(ch) : Spread(q, table, ch, load, f, j)

LEMMA SpreadAll ==
  ASSUME NEW q, NEW m, IsFcn(m), q.desc \in DOMAIN m, NEW table, table = m[q.desc],
         HasData(table), NEW ch, Len(ch) \in Nat, Buffers(table, ch),
         NEW T, NEW load \in Seq(T), NEW f, Spreads(q, m, ch, load, f)
  PROVE  AllSpread(q, table, ch, load, f)
<1>0. /\ \A x \in 1..Len(ch) : /\ ch[x] \in DOMAIN table
                               /\ table[ch[x]].writable \in BOOLEAN
                               /\ table[ch[x]].mapped \in BOOLEAN
                               /\ table[ch[x]].data \in Seq(Nat)
      /\ \A x, y \in 1..Len(ch) : ch[x] = ch[y] => x = y
      /\ f[0] = [mem |-> m, written |-> 0]
      /\ \A j \in 0..(Len(ch) - 1) : f[j + 1] = SpreadStep(q, m, ch, load, f[j], j + 1)
  BY Zenon DEF Buffers, Spreads
<1>1. f[0].mem = m /\ f[0].written = 0
  BY <1>0
<1>2. Len(load) \in Nat /\ 0 \in 0..Len(load) /\ 1..0 = {}
  OBVIOUS
<1>3. Spread(q, table, ch, load, f, 0)
  <2>1. \A x \in 1..0 : FALSE
    BY <1>2
  <2>2. f[0].mem[q.desc] = table
    BY <1>1
  <2> QED BY <1>1, <1>2, <2>1, <2>2, Zenon DEF Spread
<1>4. PICK S : S = {j \in 0..Len(ch) : Spread(q, table, ch, load, f, j)}
  OBVIOUS
<1>5. 0 \in S
  BY <1>3, <1>4
<1>6. ASSUME NEW j \in 0..(Len(ch) - 1), j \in S PROVE j + 1 \in S
  <2>1. j \in Nat /\ j + 1 \in 1..Len(ch) /\ j + 1 \in 0..Len(ch)
    OBVIOUS
  <2>2. Spread(q, table, ch, load, f, j)
    BY <1>4, <1>6, Zenon
  <2>3. f[j + 1] = SpreadStep(q, m, ch, load, f[j], j + 1)
    BY <1>0
  <2>5. /\ table[ch[j + 1]].writable \in BOOLEAN /\ table[ch[j + 1]].mapped \in BOOLEAN
        /\ table[ch[j + 1]].data \in Seq(Nat)
    BY <1>0, <2>1, Zenon
  <2>6. Spread(q, table, ch, load, f, j + 1)
    BY <1>0, <2>1, <2>2, <2>3, <2>5, SpreadOn
  <2> QED BY <1>4, <2>1, <2>6, Zenon
<1>7. \A j \in 0..Len(ch) : j \in S
  BY <1>5, <1>6, UpTo
<1> QED BY <1>1, <1>4, <1>7, Zenon DEF AllSpread

\* What a chain of well-formed buffers is.
LEMMA BuiltBuffers ==
  ASSUME NEW n, NEW table, DOMAIN table = 0..(n - 1), NEW ch, NEW s,
         Built(n, table, ch, s), RxShape(s)
  PROVE  /\ Len(ch) = Len(s) /\ Len(ch) \in Nat \ {0}
         /\ \A x \in 1..Len(ch) : /\ ch[x] \in DOMAIN table
                                  /\ table[ch[x]].writable \in BOOLEAN
                                  /\ table[ch[x]].mapped \in BOOLEAN
                                  /\ table[ch[x]].data \in Seq(Nat)
<1>1. PICK L : L = Len(s)
  OBVIOUS
<1>2. L \in Nat \ {0} /\ ch = [j \in 1..L |-> ch[j]]
  BY <1>1, Zenon DEF Built
<1>3. Len(ch) = L
  BY <1>2
<1>4. ASSUME NEW x \in 1..L
      PROVE  /\ ch[x] \in DOMAIN table /\ table[ch[x]].writable \in BOOLEAN
             /\ table[ch[x]].mapped \in BOOLEAN /\ table[ch[x]].data \in Seq(Nat)
  <2>1. /\ ch[x] \in 0..(n - 1) /\ table[ch[x]].writable = s[x].writable
        /\ table[ch[x]].mapped = s[x].mapped /\ table[ch[x]].data = s[x].data
    BY <1>1, Zenon DEF Built
  <2>2. s[x].writable \in BOOLEAN /\ s[x].mapped \in BOOLEAN /\ s[x].data \in Seq(Nat)
    BY <1>1, Zenon DEF RxShape
  <2> QED BY <2>1, <2>2, Zenon
<1> QED BY <1>1, <1>2, <1>3, <1>4, Zenon

LEMMA NetFills ==
  ASSUME NEW q, NEW m, IsFcn(m), NEW n \in Nat \ {0}, q.size = n, q.desc \in DOMAIN m,
         NEW table, table = m[q.desc], DOMAIN table = 0..(n - 1), HasData(table),
         NEW ch, NEW s, Built(n, table, ch, s), RxShape(s),
         \A x, y \in 1..Len(ch) : ch[x] = ch[y] => x = y,
         NEW fr, IsPacket("net", fr), NEW r, r = NetRx(q, m, ch[1], fr)
  PROVE  Filled("net", table, r.mem[q.desc], ch, fr, r.written)
<1>1. PICK S : fr \in Seq(S)
  <2>1. "net" # "vsock"
    OBVIOUS
  <2> QED BY <2>1, Zenon DEF IsPacket
<1>2. PICK T, load, z : T = Nat \cup S /\ load = Zeros(NET_HDR_SIZE) \o fr /\ z = Zeros(NET_HDR_SIZE)
  BY Zenon
<1>3. load \in Seq(T) /\ Len(load) \in Nat
  <2>1. z \in Seq(Nat)
    BY <1>2, BackendAssumptions, ZerosSeq DEF BackendAssumptions
  <2>2. Nat \subseteq T /\ S \subseteq T
    BY <1>2
  <2>3. z \in Seq(T) /\ fr \in Seq(T)
    BY <1>1, <2>1, <2>2
  <2>4. Joined(load, z, fr)
    BY <1>2, Zenon DEF Joined
  <2>5. Follows(T, z, fr, load)
    BY <2>3, <2>4, JoinSeq
  <2>6. load \in Seq(T)
    BY <2>5, Zenon DEF Follows
  <2> QED BY <2>6
<1>4. PICK L : L = Len(ch)
  OBVIOUS
<1>5. /\ L \in Nat \ {0}
      /\ \A x \in 1..L : /\ ch[x] \in DOMAIN table
                         /\ table[ch[x]].writable \in BOOLEAN /\ table[ch[x]].mapped \in BOOLEAN
                         /\ table[ch[x]].data \in Seq(Nat)
  BY <1>4, BuiltBuffers
<1>6. Chain(q, m, ch[1]) = ch
  BY ChainWalk
<1>7. PICK f : IsRec(f, "spread", <<q, m, ch, load>>, L) /\ r = f[L]
  <2>1. q.size \in Nat
    OBVIOUS
  <2>2. LET c == Chain(q, m, ch[1])
            p == <<q, m, c, Zeros(NET_HDR_SIZE) \o fr>>
        IN  \E f : IsRec(f, "spread", p, Len(c)) /\ NetRx(q, m, ch[1], fr) = f[Len(c)]
    BY <2>1, SpreadIs
  <2>3. \E f : IsRec(f, "spread", <<q, m, ch, load>>, L) /\ NetRx(q, m, ch[1], fr) = f[L]
    BY <1>2, <1>4, <1>6, <2>2, Zenon
  <2> QED BY <2>3, Zenon
<1>8. PICK p : p = <<q, m, ch, load>>
  OBVIOUS
<1>9. p[1] = q /\ p[2] = m /\ p[3] = ch /\ p[4] = load
  BY <1>8
<1>10. /\ f[0] = First("spread", p)
       /\ \A j \in 0..(L - 1) : f[j + 1] = Step("spread", p, f[j], j + 1)
  <2>1. IsRec(f, "spread", p, L) /\ L \in Nat
    BY <1>5, <1>7, <1>8
  <2> QED BY <2>1, RecValues
<1>11. f[0] = [mem |-> m, written |-> 0]
  BY <1>9, <1>10 DEF First
<1>12. ASSUME NEW j \in 0..(L - 1) PROVE f[j + 1] = SpreadStep(q, m, ch, load, f[j], j + 1)
  <2>1. Step("spread", p, f[j], j + 1) = SpreadStep(p[1], p[2], p[3], p[4], f[j], j + 1)
    <3>1. PICK g, h : g = f[j] /\ h = j + 1
      BY Zenon
    <3>2. Step("spread", p, g, h) = SpreadStep(p[1], p[2], p[3], p[4], g, h)
      BY DEF Step
    <3> QED BY <3>1, <3>2, Zenon
  <2> QED BY <1>9, <1>10, <2>1, Zenon
<1>13. f[0].written = 0 /\ \A j \in 0..L : Spread(q, table, ch, load, f, j)
  <2>1. Buffers(table, ch)
    BY <1>4, <1>5, Zenon DEF Buffers
  <2>2. Spreads(q, m, ch, load, f)
    BY <1>4, <1>11, <1>12, Zenon DEF Spreads
  <2>3. Len(ch) \in Nat
    BY <1>4, <1>5
  <2>4. AllSpread(q, table, ch, load, f)
    BY <1>3, <2>1, <2>2, <2>3, SpreadAll
  <2> QED BY <1>4, <2>4, Zenon DEF AllSpread
<1>14. PICK at : at = [j \in 0..L |-> f[j].written]
  OBVIOUS
<1>15. Spread(q, table, ch, load, f, L) /\ L \in 0..L /\ 0 \in 0..L
  <2>1. L \in 0..L /\ 0 \in 0..L
    BY <1>5
  <2> QED BY <1>13, <2>1, Zenon
<1>16. PICK table2, w : table2 = r.mem[q.desc] /\ w = r.written
  BY Zenon
<1>17. w \in Nat /\ w = at[L] /\ at[0] = 0 /\ at \in [0..L -> 0..Len(load)]
  <2>1. w = f[L].written /\ w \in 0..Len(load)
    BY <1>7, <1>15, <1>16, Zenon DEF Spread
  <2>2. at[L] = f[L].written /\ at[0] = f[0].written
    BY <1>14, <1>15, Zenon
  <2>3. \A j \in 0..L : f[j].written \in 0..Len(load)
    BY <1>13, Zenon DEF Spread
  <2>4. w \in Nat
    BY <1>3, <2>1
  <2> QED BY <1>13, <1>14, <2>1, <2>2, <2>3, <2>4, Zenon
<1>18. ElsewhereSame(table, table2, ch)
  <2>1. /\ DOMAIN f[L].mem[q.desc] = DOMAIN table /\ HasData(f[L].mem[q.desc])
        /\ \A x \in DOMAIN table : (\A i \in 1..L : ch[i] # x) => f[L].mem[q.desc][x] = table[x]
    BY <1>15, Zenon DEF Spread
  <2> QED BY <1>4, <1>7, <1>16, <2>1, Zenon DEF ElsewhereSame
<1>19. SpreadOver(table2, ch, load, w)
  <2>1. ASSUME NEW i \in 1..L PROVE TakesPart(table2[ch[i]], load, at[i - 1], at[i])
    <3>1. TakesPart(f[L].mem[q.desc][ch[i]], load, f[i - 1].written, f[i].written)
      BY <1>15, Zenon DEF Spread
    <3>2. i \in 0..L /\ i - 1 \in 0..L
      BY <1>5
    <3>3. at[i] = f[i].written /\ at[i - 1] = f[i - 1].written
      BY <1>14, <3>2, Zenon
    <3> QED BY <1>7, <1>16, <3>1, <3>3, Zenon
  <2> QED BY <1>4, <1>17, <2>1, Zenon DEF SpreadOver
<1>20. ArrivedIn("net", table2, ch, fr, w)
  BY <1>2, <1>19, Zenon DEF ArrivedIn
<1> QED BY <1>16, <1>17, <1>18, <1>20, Zenon DEF Filled

LEMMA VsockFills ==
  ASSUME NEW q, NEW m, IsFcn(m), NEW n \in Nat \ {0}, q.size = n, q.desc \in DOMAIN m,
         NEW table, table = m[q.desc], DOMAIN table = 0..(n - 1), HasData(table),
         NEW ch, NEW s, Built(n, table, ch, s), RxShape(s),
         NEW fr, IsPacket("vsock", fr), NEW r, r = VsockRx(q, m, ch[1], fr)
  PROVE  Filled("vsock", table, r.mem[q.desc], ch, fr, r.written)
<1>0. "vsock" # "net"
  OBVIOUS
<1>1. PICK v : fr = [op |-> 5, len |-> 1, payload |-> <<v>>]
  BY <1>0, Zenon DEF IsPacket
<1>2. PICK load, T : load = ToBytes(fr) /\ T = Nat \cup {v}
  BY Zenon
<1>3. load \in Seq(T) /\ Len(load) = 3
  <2>1. fr.op = 5 /\ fr.len = 1 /\ fr.payload = <<v>>
    BY <1>1
  <2>2. load = <<5, 1>> \o <<v>>
    BY <1>2, <2>1, Zenon DEF ToBytes
  <2> QED BY <1>2, <2>2, PacketBytes
<1>4. PICK table2, w, i : table2 = r.mem[q.desc] /\ w = r.written /\ i = ch[1]
  BY Zenon
<1>5. /\ Len(ch) \in Nat \ {0} /\ 1 \in 1..Len(ch) /\ i \in DOMAIN table
      /\ table[i].writable \in BOOLEAN /\ table[i].mapped \in BOOLEAN /\ table[i].data \in Seq(Nat)
  <2>1. /\ Len(ch) \in Nat \ {0}
        /\ \A x \in 1..Len(ch) : /\ ch[x] \in DOMAIN table
                                 /\ table[ch[x]].writable \in BOOLEAN
                                 /\ table[ch[x]].mapped \in BOOLEAN
                                 /\ table[ch[x]].data \in Seq(Nat)
    BY BuiltBuffers
  <2>2. 1 \in 1..Len(ch)
    BY <2>1
  <2> QED BY <1>4, <2>1, <2>2, Zenon
<1>6. Chain(q, m, i) = ch /\ ch # <<>>
  <2>1. Chain(q, m, ch[1]) = ch
    BY ChainWalk
  <2>2. ch # <<>>
    BY <1>5
  <2> QED BY <1>4, <2>1, <2>2, Zenon
<1>7. Buffer(q, m, i) = table[i]
  BY Zenon DEF Buffer
<1>8. ASSUME table2 = table PROVE ElsewhereSame(table, table2, ch)
  BY <1>8, Zenon DEF ElsewhereSame
<1>9. CASE ~table[i].writable
  <2>1. r = [mem |-> m, written |-> 0]
    BY <1>4, <1>6, <1>7, <1>9, Zenon DEF VsockRx
  <2>2. table2 = table /\ w = 0 /\ w \in Nat /\ ~(w > 0)
    BY <1>4, <2>1
  <2> QED BY <1>4, <1>8, <2>2, Zenon DEF Filled
<1>10. CASE table[i].writable
  <2>1. r = [mem |-> WriteBuffer(q, m, i, load), written |-> Len(load)]
    BY <1>2, <1>4, <1>6, <1>7, <1>10, Zenon DEF VsockRx
  <2>2. r.mem = WriteBuffer(q, m, i, load) /\ w = Len(load) /\ w \in Nat
    BY <1>3, <1>4, <2>1
  <2>3. CASE ~table[i].mapped
    <3>1. WriteBuffer(q, m, i, load) = m
      BY <1>7, <2>3, Zenon DEF WriteBuffer
    <3>2. table2 = table
      BY <1>4, <2>2, <3>1, Zenon
    <3>3. HoldsPacket(table2[i], load, w)
      BY <2>2, <2>3, <3>2, Zenon DEF HoldsPacket
    <3>4. ArrivedIn("vsock", table2, ch, fr, w)
      BY <1>0, <1>2, <1>4, <3>3, Zenon DEF ArrivedIn
    <3> QED BY <1>4, <1>8, <2>2, <3>2, <3>4, Zenon DEF Filled
  <2>4. CASE table[i].mapped
    <3>1. table[i].mapped = TRUE
      BY <1>5, <2>4
    <3>2. Wrote(table, table2, i, load)
      <4>1. PICK m2 : m2 = r.mem
        OBVIOUS
      <4>2. m2 = WriteBuffer(q, m, i, load)
        BY <2>2, <4>1
      <4>3. Wrote(table, m2[q.desc], i, load)
        BY <1>5, <3>1, <4>2, WriteOne
      <4> QED BY <1>4, <4>1, <4>3, Zenon
    <3>3. PICK x, buf : x = table2[i].data /\ buf = table[i].data
      BY Zenon
    <3>4. \A j \in 1..Len(load) : x[j] = load[j]
      <4>1. PICK S : x = Overwrite(buf, load) /\ buf \in Seq(S)
        BY <1>5, <3>2, <3>3, Zenon DEF Wrote
      <4> QED BY <1>3, <4>1, OverwriteIs
    <3>5. HoldsPacket(table2[i], load, w)
      BY <2>2, <3>3, <3>4, Zenon DEF HoldsPacket
    <3>6. ArrivedIn("vsock", table2, ch, fr, w)
      BY <1>0, <1>2, <1>4, <3>5, Zenon DEF ArrivedIn
    <3>7. ElsewhereSame(table, table2, ch)
      <4>1. \A z \in DOMAIN table : (\A j \in 1..Len(ch) : ch[j] # z) => z # i
        BY <1>4, <1>5, Zenon
      <4> QED BY <3>2, <4>1, Zenon DEF Wrote, ElsewhereSame
    <3> QED BY <1>4, <2>2, <3>6, <3>7, Zenon DEF Filled
  <2> QED BY <2>3, <2>4
<1> QED BY <1>9, <1>10

-----------------------------------------------------------------------------
(* The frames under way to the guest: first those in the buffers I that the *)
(* driver has not looked at, then those that rest with the host.            *)

Usable(n, table, ch) == \E s : Built(n, table, ch, s) /\ RxShape(s)

Rests(rest, exp, c) ==
  /\ \E S : rest \in Seq(S) /\ exp \in Seq(S)
  /\ c \in Nat /\ Len(exp) = c + Len(rest) /\ \A j \in 1..Len(rest) : exp[c + j] = rest[j]

\* L is what the used ring says was written.
Shown(k, table, fly, L, exp, I, f) ==
  \A x \in I : ArrivedIn(k, table, fly[x], exp[f[x]], L[x])

Packets(k, exp) == \A j \in 1..Len(exp) : IsPacket(k, exp[j])

Table(n, table) == DOMAIN table = 0..(n - 1) /\ HasData(table)

RxIs(k, n, table, fly, r, I, L, rest, exp) ==
  /\ Table(n, table) /\ Packets(k, exp) /\ I \subseteq 1..r
  /\ \A x \in (r + 1)..Len(fly) : Usable(n, table, fly[x])
  /\ \E c, f : /\ Rests(rest, exp, c) /\ Numbers(I, 0, c, f)
               /\ Shown(k, table, fly, L, exp, I, f)

LEMMA UsableKept ==
  ASSUME NEW n, NEW table, NEW table2, NEW ch, Usable(n, table, ch),
         \A j \in DOMAIN ch : table2[ch[j]] = table[ch[j]]
  PROVE  Usable(n, table2, ch)
<1>1. PICK s : Built(n, table, ch, s) /\ RxShape(s)
  BY Zenon DEF Usable
<1>2. DOMAIN ch = 1..Len(s)
  <2>1. ch = [j \in 1..Len(s) |-> ch[j]]
    BY <1>1, Zenon DEF Built
  <2> QED BY <2>1, Zenon
<1>3. Built(n, table2, ch, s)
  BY <1>1, <1>2, BuiltKept, Zenon
<1> QED BY <1>1, <1>3, Zenon DEF Usable

LEMMA RxNone ==
  ASSUME NEW k, NEW n, NEW table, Table(n, table), NEW S, NEW exp \in Seq(S), Packets(k, exp),
         NEW L
  PROVE  RxIs(k, n, table, <<>>, 0, {}, L, exp, exp)
<1>1. Rests(exp, exp, 0)
  BY DEF Rests
<1>2. PICK f : Numbers({}, 0, 0, f)
  BY NumbersNone
<1>3. (0 + 1)..Len(<<>>) = {} /\ {} \subseteq 1..0
  OBVIOUS
<1>4. Shown(k, table, <<>>, L, exp, {}, f)
  BY Zenon DEF Shown
<1> QED BY <1>1, <1>2, <1>3, <1>4, Zenon DEF RxIs

\* The driver makes a chain available.
LEMMA RxSubmit ==
  ASSUME NEW k, NEW n, NEW table, NEW fly, NEW r \in Nat, NEW I, NEW L, NEW rest, NEW exp,
         RxIs(k, n, table, fly, r, I, L, rest, exp), Len(fly) \in Nat, r <= Len(fly), Apart(n, fly),
         NEW table2, Table(n, table2), Keeps(fly, 0, table, table2),
         NEW ch, NEW fly2, Longer(fly, fly2, ch), Usable(n, table2, ch)
  PROVE  RxIs(k, n, table2, fly2, r, I, L, rest, exp)
<1>1. PICK c, f : /\ Rests(rest, exp, c) /\ Numbers(I, 0, c, f)
                  /\ Shown(k, table, fly, L, exp, I, f)
  BY Zenon DEF RxIs
<1>2. Packets(k, exp) /\ I \subseteq 1..r /\ \A x \in (r + 1)..Len(fly) : Usable(n, table, fly[x])
  BY Zenon DEF RxIs
<1>3. PICK z : z = Len(fly) + 1
  OBVIOUS
<1>4. Len(fly2) = z /\ fly2[z] = ch /\ \A x \in 1..Len(fly) : fly2[x] = fly[x]
  BY <1>3 DEF Longer
<1>5. \A x \in (r + 1)..Len(fly2) : x # z => /\ x \in (r + 1)..Len(fly) /\ x \in (0 + 1)..Len(fly)
                                             /\ fly2[x] = fly[x]
  BY <1>3, <1>4
<1>6. ASSUME NEW x \in (r + 1)..Len(fly2) PROVE Usable(n, table2, fly2[x])
  <2>1. CASE x = z
    BY <1>4, <2>1, Zenon
  <2>2. CASE x # z
    <3>1. Usable(n, table, fly[x]) /\ fly2[x] = fly[x] /\ x \in (0 + 1)..Len(fly)
      BY <1>2, <1>5, <2>2, Zenon
    <3>2. \A j \in DOMAIN fly[x] : table2[fly[x][j]] = table[fly[x][j]]
      BY <3>1, Zenon DEF Keeps
    <3> QED BY <3>1, <3>2, UsableKept, Zenon
  <2> QED BY <2>1, <2>2
<1>7. ASSUME NEW x \in I PROVE ArrivedIn(k, table2, fly2[x], exp[f[x]], L[x])
  <2>1. x \in 1..Len(fly) /\ x \in (0 + 1)..Len(fly)
    BY <1>2
  <2>2. DOMAIN fly[x] = 1..Len(fly[x]) /\ Len(fly[x]) \in Nat \ {0}
    BY <2>1, Zenon DEF Apart
  <2>3. \A j \in 1..Len(fly[x]) : table2[fly[x][j]] = table[fly[x][j]]
    BY <2>1, <2>2, Zenon DEF Keeps
  <2>4. fly2[x] = fly[x]
    BY <1>4, <2>1, Zenon
  <2>5. ArrivedIn(k, table, fly[x], exp[f[x]], L[x])
    BY <1>1, Zenon DEF Shown
  <2>6. ArrivedIn(k, table2, fly[x], exp[f[x]], L[x])
    BY <2>2, <2>3, <2>5, ArrivedKept
  <2> QED BY <2>4, <2>6
<1>8. Shown(k, table2, fly2, L, exp, I, f)
  BY <1>7, Zenon DEF Shown
<1> QED BY <1>1, <1>2, <1>6, <1>8, Zenon DEF RxIs

\* The host sends a frame.
LEMMA RxSend ==
  ASSUME NEW k, NEW n, NEW table, NEW fly, NEW r, NEW I, NEW L, NEW rest, NEW exp,
         RxIs(k, n, table, fly, r, I, L, rest, exp), NEW fr, IsPacket(k, fr)
  PROVE  RxIs(k, n, table, fly, r, I, L, Append(rest, fr), Append(exp, fr))
<1>1. PICK c, f : /\ Rests(rest, exp, c) /\ Numbers(I, 0, c, f)
                  /\ Shown(k, table, fly, L, exp, I, f)
  BY Zenon DEF RxIs
<1>2. PICK S : rest \in Seq(S) /\ exp \in Seq(S)
  BY <1>1, Zenon DEF Rests
<1>3. c \in Nat /\ Len(exp) = c + Len(rest) /\ \A j \in 1..Len(rest) : exp[c + j] = rest[j]
  BY <1>1, Zenon DEF Rests
<1>4. PICK T, rest2, exp2 : T = S \cup {fr} /\ rest2 = Append(rest, fr) /\ exp2 = Append(exp, fr)
  BY Zenon
<1>5. rest \in Seq(T) /\ exp \in Seq(T) /\ fr \in T
  <2>1. S \subseteq T /\ fr \in T
    BY <1>4
  <2> QED BY <1>2, <2>1
<1>6. /\ rest2 \in Seq(T) /\ Len(rest2) = Len(rest) + 1 /\ rest2[Len(rest) + 1] = fr
      /\ \A j \in 1..Len(rest) : rest2[j] = rest[j]
  BY <1>4, <1>5
<1>7. /\ exp2 \in Seq(T) /\ Len(exp2) = Len(exp) + 1 /\ exp2[Len(exp) + 1] = fr
      /\ \A j \in 1..Len(exp) : exp2[j] = exp[j]
  BY <1>4, <1>5
<1>8. Len(rest) \in Nat /\ Len(exp) \in Nat
  BY <1>2
<1>9. Rests(rest2, exp2, c)
  <2>1. ASSUME NEW j \in 1..Len(rest2) PROVE exp2[c + j] = rest2[j]
    <3>1. CASE j = Len(rest) + 1
      <4>1. c + j = Len(exp) + 1
        BY <1>3, <1>8, <3>1
      <4> QED BY <1>6, <1>7, <3>1, <4>1
    <3>2. CASE j # Len(rest) + 1
      <4>1. j \in 1..Len(rest) /\ c + j \in 1..Len(exp)
        BY <1>3, <1>6, <1>8, <3>2
      <4> QED BY <1>3, <1>6, <1>7, <4>1
    <3> QED BY <3>1, <3>2
  <2>2. Len(exp2) = c + Len(rest2)
    BY <1>3, <1>6, <1>7, <1>8
  <2> QED BY <1>3, <1>6, <1>7, <2>1, <2>2, Zenon DEF Rests
<1>10. Packets(k, exp2)
  <2>1. \A j \in 1..Len(exp2) : j = Len(exp) + 1 \/ j \in 1..Len(exp)
    BY <1>7, <1>8
  <2>2. Packets(k, exp)
    BY DEF RxIs
  <2> QED BY <1>7, <2>1, <2>2, Zenon DEF Packets
<1>11. Shown(k, table, fly, L, exp2, I, f)
  <2>1. ASSUME NEW x \in I PROVE exp2[f[x]] = exp[f[x]]
    <3>1. f[x] \in 1..c
      BY <1>1 DEF Numbers
    <3>2. f[x] \in 1..Len(exp)
      BY <1>3, <1>8, <3>1
    <3> QED BY <1>7, <3>2
  <2> QED BY <1>1, <2>1, Zenon DEF Shown
<1> QED BY <1>1, <1>4, <1>9, <1>10, <1>11, Zenon DEF RxIs

\* Writing into one chain leaves the others as they are.
LEMMA OthersSame ==
  ASSUME NEW n, NEW table, Table(n, table), NEW fly, Apart(n, fly), NEW z \in 1..Len(fly),
         NEW table2, ElsewhereSame(table, table2, fly[z]), NEW x \in 1..Len(fly), x # z
  PROVE  \A j \in DOMAIN fly[x] : table2[fly[x][j]] = table[fly[x][j]]
<1> SUFFICES ASSUME NEW j \in DOMAIN fly[x] PROVE table2[fly[x][j]] = table[fly[x][j]]
  OBVIOUS
<1>1. j \in 1..Len(fly[x]) /\ fly[x][j] \in 0..(n - 1)
  BY DEF Apart
<1>2. \A h \in 1..Len(fly[z]) : fly[z][h] # fly[x][j]
  <2>1. \A h \in 1..Len(fly[z]) : fly[x][j] = fly[z][h] => x = z
    BY <1>1 DEF Apart
  <2> QED BY <2>1, Zenon
<1>3. fly[x][j] \in DOMAIN table
  BY <1>1, Zenon DEF Table
<1> QED BY <1>2, <1>3, Zenon DEF ElsewhereSame

\* The device has written into the next chain.
WroteNext(n, table, table2, fly, r, I, z) ==
  /\ z = r + 1 /\ z \in 1..Len(fly) /\ Table(n, table2)
  /\ \A x \in (z + 1)..Len(fly) : Usable(n, table2, fly[x])
  /\ \A x \in I : /\ x < z /\ Len(fly[x]) \in Nat \ {0}
                  /\ \A j \in 1..Len(fly[x]) : table2[fly[x][j]] = table[fly[x][j]]

LEMMA RxWrites ==
  ASSUME NEW k, NEW n, NEW table, NEW fly, NEW r \in Nat, NEW I, NEW L, NEW rest, NEW exp,
         RxIs(k, n, table, fly, r, I, L, rest, exp), Len(fly) \in Nat, r < Len(fly), Apart(n, fly),
         NEW table2, ElsewhereSame(table, table2, fly[r + 1]), NEW z, z = r + 1
  PROVE  WroteNext(n, table, table2, fly, r, I, z)
<1>1. /\ I \subseteq 1..r /\ Table(n, table)
      /\ \A x \in (r + 1)..Len(fly) : Usable(n, table, fly[x])
  BY Zenon DEF RxIs
<1>2. z \in Nat /\ z = r + 1
  OBVIOUS
<1>3. /\ z \in 1..Len(fly)
      /\ \A x \in I : x \in 1..Len(fly) /\ x # z /\ x < z
      /\ \A x \in (z + 1)..Len(fly) : x \in (r + 1)..Len(fly) /\ x \in 1..Len(fly) /\ x # z
  BY <1>1, <1>2
<1>4. ElsewhereSame(table, table2, fly[z])
  BY <1>2
<1>5. Table(n, table2)
  BY <1>1, <1>4, Zenon DEF Table, ElsewhereSame
<1>6. ASSUME NEW x \in (z + 1)..Len(fly) PROVE Usable(n, table2, fly[x])
  <2>1. \A j \in DOMAIN fly[x] : table2[fly[x][j]] = table[fly[x][j]]
    BY <1>1, <1>3, <1>4, OthersSame
  <2>2. Usable(n, table, fly[x])
    BY <1>1, <1>3, Zenon
  <2> QED BY <2>1, <2>2, UsableKept, Zenon
<1>7. ASSUME NEW x \in I
      PROVE  /\ x < z /\ Len(fly[x]) \in Nat \ {0}
             /\ \A j \in 1..Len(fly[x]) : table2[fly[x][j]] = table[fly[x][j]]
  <2>1. \A j \in DOMAIN fly[x] : table2[fly[x][j]] = table[fly[x][j]]
    BY <1>1, <1>3, <1>4, OthersSame
  <2>2. DOMAIN fly[x] = 1..Len(fly[x]) /\ Len(fly[x]) \in Nat \ {0}
    BY <1>3, Zenon DEF Apart
  <2> QED BY <1>3, <2>1, <2>2, Zenon
<1> QED BY <1>2, <1>3, <1>5, <1>6, <1>7, Zenon DEF WroteNext

\* What has arrived before is still there.
LEMMA ShownKept ==
  ASSUME NEW k, NEW n, NEW table, NEW table2, NEW fly, NEW r, NEW I, NEW z,
         WroteNext(n, table, table2, fly, r, I, z), NEW L, NEW L2, \A x \in I : L2[x] = L[x],
         NEW exp, NEW f, Shown(k, table, fly, L, exp, I, f)
  PROVE  Shown(k, table2, fly, L2, exp, I, f)
<1> SUFFICES ASSUME NEW x \in I PROVE ArrivedIn(k, table2, fly[x], exp[f[x]], L2[x])
  BY Zenon DEF Shown
<1>1. ArrivedIn(k, table, fly[x], exp[f[x]], L[x]) /\ L2[x] = L[x]
  BY Zenon DEF Shown
<1>2. /\ Len(fly[x]) \in Nat \ {0}
      /\ \A j \in 1..Len(fly[x]) : table2[fly[x][j]] = table[fly[x][j]]
  BY Zenon DEF WroteNext
<1>3. ArrivedIn(k, table2, fly[x], exp[f[x]], L[x])
  BY <1>1, <1>2, ArrivedKept
<1> QED BY <1>1, <1>3

\* The device returns a chain of which it says that nothing was written.
LEMMA RxPass ==
  ASSUME NEW k, NEW n, NEW table, NEW fly, NEW r \in Nat, NEW I, NEW L, NEW rest, NEW exp,
         RxIs(k, n, table, fly, r, I, L, rest, exp), Len(fly) \in Nat, r < Len(fly), Apart(n, fly),
         NEW table2, ElsewhereSame(table, table2, fly[r + 1]),
         NEW L2, \A x \in I : L2[x] = L[x]
  PROVE  RxIs(k, n, table2, fly, r + 1, I, L2, rest, exp)
<1>1. PICK c, f : /\ Rests(rest, exp, c) /\ Numbers(I, 0, c, f)
                  /\ Shown(k, table, fly, L, exp, I, f)
  BY Zenon DEF RxIs
<1>2. Packets(k, exp) /\ I \subseteq 1..r
  BY Zenon DEF RxIs
<1>3. PICK z : z = r + 1
  OBVIOUS
<1>4. WroteNext(n, table, table2, fly, r, I, z)
  BY <1>3, RxWrites
<1>5. Shown(k, table2, fly, L2, exp, I, f)
  BY <1>1, <1>4, ShownKept
<1>6. I \subseteq 1..z
  BY <1>2, <1>3
<1>7. RxIs(k, n, table2, fly, z, I, L2, rest, exp)
  BY <1>1, <1>2, <1>4, <1>5, <1>6, Zenon DEF WroteNext, RxIs
<1> QED BY <1>3, <1>7

\* The device puts the next frame into the next chain.
LensAgree(L, L2, I) == \A x \in I : L2[x] = L[x]

LEMMA RxFill ==
  ASSUME NEW k, NEW n, NEW table, NEW fly, NEW r \in Nat, NEW I, NEW L, NEW rest, NEW exp,
         RxIs(k, n, table, fly, r, I, L, rest, exp), Len(fly) \in Nat, r < Len(fly), Apart(n, fly),
         rest # <<>>, NEW z, z = r + 1, NEW table2, ElsewhereSame(table, table2, fly[z]),
         NEW L2, LensAgree(L, L2, I),
         NEW fr, fr = Head(rest), ArrivedIn(k, table2, fly[z], fr, L2[z])
  PROVE  RxIs(k, n, table2, fly, z, I \cup {z}, L2, Tail(rest), exp)
<1>1. PICK c, f : /\ Rests(rest, exp, c) /\ Numbers(I, 0, c, f)
                  /\ Shown(k, table, fly, L, exp, I, f)
  BY Zenon DEF RxIs
<1>2. PICK S : rest \in Seq(S) /\ exp \in Seq(S)
  BY <1>1, Zenon DEF Rests
<1>3. c \in Nat /\ Len(exp) = c + Len(rest) /\ \A j \in 1..Len(rest) : exp[c + j] = rest[j]
  BY <1>1, Zenon DEF Rests
<1>4. Packets(k, exp) /\ I \subseteq 1..r
  BY Zenon DEF RxIs
<1>5. z \in Nat /\ z = r + 1
  OBVIOUS
<1>6. /\ I \cup {z} \subseteq 1..z /\ z \notin I /\ (\A y \in I : y < z)
  BY <1>4, <1>5
<1>7. WroteNext(n, table, table2, fly, r, I, z)
  BY <1>5, RxWrites
<1>8. Shown(k, table2, fly, L2, exp, I, f)
  <2>1. \A x \in I : L2[x] = L[x]
    BY Zenon DEF LensAgree
  <2> QED BY <1>1, <1>7, <2>1, ShownKept
<1>9. PICK J, g : J = I \cup {z} /\ g = [y \in I \cup {z} |-> IF y = z THEN c + 1 ELSE f[y]]
  BY Zenon
<1>10. Numbers(J, 0, c + 1, g)
  BY <1>1, <1>6, <1>9, NumbersMore
<1>11. g[z] = c + 1 /\ (\A y \in I : g[y] = f[y]) /\ \A y \in J : y = z \/ y \in I
  BY <1>6, <1>9
<1>12. Len(rest) \in Nat \ {0} /\ Len(exp) \in Nat
  BY <1>2
<1>13. PICK rest2 : rest2 = Tail(rest)
  OBVIOUS
<1>14. /\ rest2 \in Seq(S) /\ Len(rest2) = Len(rest) - 1
       /\ \A j \in 1..Len(rest2) : rest2[j] = rest[j + 1]
  BY <1>2, <1>13
<1>15. Rests(rest2, exp, c + 1)
  <2>1. Len(exp) = c + 1 + Len(rest2) /\ c + 1 \in Nat
    BY <1>3, <1>12, <1>14
  <2>2. ASSUME NEW j \in 1..Len(rest2) PROVE exp[c + 1 + j] = rest2[j]
    <3>1. PICK h \in 1..Len(rest) : h = j + 1 /\ c + 1 + j = c + h
      BY <1>3, <1>12, <1>14
    <3> QED BY <1>3, <1>14, <3>1
  <2> QED BY <1>2, <1>14, <2>1, <2>2, Zenon DEF Rests
<1>16. exp[c + 1] = fr
  <2>1. fr = rest[1] /\ 1 \in 1..Len(rest)
    BY <1>2, <1>12
  <2> QED BY <1>3, <2>1
<1>17. Shown(k, table2, fly, L2, exp, J, g)
  <2>1. ASSUME NEW x \in J PROVE ArrivedIn(k, table2, fly[x], exp[g[x]], L2[x])
    <3>1. CASE x = z
      <4>1. ArrivedIn(k, table2, fly[z], fr, L2[z])
        BY <1>5
      <4> QED BY <1>11, <1>16, <3>1, <4>1, Zenon
    <3>2. CASE x \in I
      BY <1>8, <1>11, <3>2, Zenon DEF Shown
    <3> QED BY <1>11, <3>1, <3>2
  <2> QED BY <2>1, Zenon DEF Shown
<1>18. J \subseteq 1..z
  BY <1>6, <1>9
<1>19. RxIs(k, n, table2, fly, z, J, L2, rest2, exp)
  BY <1>4, <1>7, <1>10, <1>15, <1>17, <1>18, Zenon DEF WroteNext, RxIs
<1> QED BY <1>5, <1>9, <1>13, <1>19, Zenon

\* The driver takes back the chain that was returned first, with its frame.
MovedUp(I, J) == J = {y \in Nat \ {0} : y + 1 \in I}

TakenFrom(exp, exp2, I) == exp2 = IF 1 \in I THEN Tail(exp) ELSE exp

LEMMA RxForget ==
  ASSUME NEW k, NEW n, NEW table, NEW fly, NEW r \in Nat \ {0}, NEW I, NEW L, NEW rest, NEW exp,
         RxIs(k, n, table, fly, r, I, L, rest, exp), Len(fly) \in Nat, r <= Len(fly), Apart(n, fly),
         NEW table2, Table(n, table2), Keeps(fly, 1, table, table2),
         NEW fly2, Shorter(fly, fly2), NEW J, MovedUp(I, J),
         NEW L2, \A y \in J : L2[y] = L[y + 1], NEW exp2, TakenFrom(exp, exp2, I)
  PROVE  RxIs(k, n, table2, fly2, r - 1, J, L2, rest, exp2)
<1>0. J = {y \in Nat \ {0} : y + 1 \in I} /\ exp2 = IF 1 \in I THEN Tail(exp) ELSE exp
  BY Zenon DEF MovedUp, TakenFrom
<1>1. PICK c, f : /\ Rests(rest, exp, c) /\ Numbers(I, 0, c, f)
                  /\ Shown(k, table, fly, L, exp, I, f)
  BY Zenon DEF RxIs
<1>2. PICK S : rest \in Seq(S) /\ exp \in Seq(S)
  BY <1>1, Zenon DEF Rests
<1>3. c \in Nat /\ Len(exp) = c + Len(rest) /\ \A j \in 1..Len(rest) : exp[c + j] = rest[j]
  BY <1>1, Zenon DEF Rests
<1>4. /\ Packets(k, exp) /\ I \subseteq 1..r
      /\ \A x \in (r + 1)..Len(fly) : Usable(n, table, fly[x])
  BY Zenon DEF RxIs
<1>5. J \subseteq 1..(r - 1)
  BY <1>0, <1>4
<1>6. ASSUME NEW x \in (r - 1 + 1)..Len(fly2) PROVE Usable(n, table2, fly2[x])
  <2>1. PICK y \in (r + 1)..Len(fly) : y = x + 1
    BY DEF Shorter
  <2>2. fly2[x] = fly[y] /\ y \in (1 + 1)..Len(fly)
    BY <2>1 DEF Shorter
  <2>3. \A j \in DOMAIN fly[y] : table2[fly[y][j]] = table[fly[y][j]]
    BY <2>2, Zenon DEF Keeps
  <2>4. Usable(n, table, fly[y])
    BY <1>4, Zenon
  <2> QED BY <2>2, <2>3, <2>4, UsableKept, Zenon
<1>7. ASSUME NEW x \in J
      PROVE  ArrivedIn(k, table2, fly2[x], exp[f[x + 1]], L2[x])
  <2>1. PICK y : y = x + 1
    OBVIOUS
  <2>2. y \in I /\ y \in (1 + 1)..Len(fly) /\ y \in 1..Len(fly) /\ x \in 1..(Len(fly) - 1)
    BY <1>0, <1>4, <2>1
  <2>3. fly2[x] = fly[y]
    BY <2>1, <2>2 DEF Shorter
  <2>4. DOMAIN fly[y] = 1..Len(fly[y]) /\ Len(fly[y]) \in Nat \ {0}
    BY <2>2, Zenon DEF Apart
  <2>5. \A j \in 1..Len(fly[y]) : table2[fly[y][j]] = table[fly[y][j]]
    BY <2>2, <2>4, Zenon DEF Keeps
  <2>6. ArrivedIn(k, table, fly[y], exp[f[y]], L[y])
    BY <1>1, <2>2, Zenon DEF Shown
  <2>7. ArrivedIn(k, table2, fly[y], exp[f[y]], L[y])
    BY <2>4, <2>5, <2>6, ArrivedKept
  <2>8. L2[x] = L[y]
    BY <2>1
  <2> QED BY <2>1, <2>3, <2>7, <2>8, Zenon
<1>8. CASE 1 \notin I
  <2>1. 0 \notin I /\ J = {y \in Nat : y + 1 \in I}
    BY <1>0, <1>4, <1>8
  <2>2. PICK g : g = [y \in J |-> f[y + 1]]
    OBVIOUS
  <2>3. Numbers(J, 0, c, g)
    BY <1>1, <2>1, <2>2, NumbersMoved
  <2>4. \A y \in J : g[y] = f[y + 1]
    BY <2>2
  <2>5. Shown(k, table2, fly2, L2, exp, J, g)
    BY <1>7, <2>4, Zenon DEF Shown
  <2>6. exp2 = exp
    BY <1>0, <1>8
  <2> QED BY <1>1, <1>4, <1>5, <1>6, <2>3, <2>5, <2>6, Zenon DEF RxIs
<1>9. CASE 1 \in I
  <2>1. PICK I1, f1 : I1 = I \ {1} /\ f1 = [y \in I1 |-> f[y]]
    BY Zenon
  <2>2. Less(0, c, f, 1, I1, f1)
    <3>1. IsFirst(I, 1)
      BY <1>4, <1>9 DEF IsFirst
    <3>2. Others(I, f, 1, I1, f1)
      BY <2>1, Zenon DEF Others
    <3> QED BY <1>1, <3>1, <3>2, NumbersLess
  <2>3. Numbers(I1, 1, c, f1) /\ 1 <= c
    <3>1. Numbers(I1, 0 + 1, c, f1) /\ 0 + 1 <= c
      BY <2>2, Zenon DEF Less
    <3>2. 0 + 1 = 1
      OBVIOUS
    <3> QED BY <3>1, <3>2, Zenon
  <2>4. 0 \notin I1 /\ J = {y \in Nat : y + 1 \in I1}
    BY <1>0, <1>4, <2>1
  <2>5. PICK f2 : f2 = [y \in J |-> f1[y + 1]]
    OBVIOUS
  <2>6. Numbers(J, 1, c, f2)
    BY <2>3, <2>4, <2>5, NumbersMoved
  <2>7. PICK g : g = [y \in J |-> f2[y] - 1]
    OBVIOUS
  <2>8. Numbers(J, 0, c - 1, g)
    <3>1. Numbers(J, 1 - 1, c - 1, g)
      BY <2>6, <2>7, NumbersLower
    <3>2. 1 - 1 = 0
      OBVIOUS
    <3> QED BY <3>1, <3>2, Zenon
  <2>9. Len(rest) \in Nat /\ Len(exp) \in Nat \ {0} /\ exp # <<>>
    BY <1>2, <1>3, <2>3
  <2>10. exp2 = Tail(exp)
    BY <1>0, <1>9
  <2>11. /\ exp2 \in Seq(S) /\ Len(exp2) = Len(exp) - 1
         /\ \A j \in 1..Len(exp2) : exp2[j] = exp[j + 1]
    BY <1>2, <2>9, <2>10
  <2>12. Rests(rest, exp2, c - 1)
    <3>1. Len(exp2) = c - 1 + Len(rest) /\ c - 1 \in Nat
      BY <1>3, <2>3, <2>9, <2>11
    <3>2. ASSUME NEW j \in 1..Len(rest) PROVE exp2[c - 1 + j] = rest[j]
      <4>1. PICK h \in 1..Len(exp2) : h = c - 1 + j /\ h + 1 = c + j
        BY <1>3, <2>3, <2>9, <2>11
      <4>2. exp2[h] = exp[c + j]
        BY <2>11, <4>1, Zenon
      <4> QED BY <1>3, <4>1, <4>2, Zenon
    <3> QED BY <1>2, <2>11, <3>1, <3>2, Zenon DEF Rests
  <2>13. Packets(k, exp2)
    <3>1. \A j \in 1..Len(exp2) : j + 1 \in 1..Len(exp)
      BY <2>9, <2>11
    <3> QED BY <1>4, <2>11, <3>1, Zenon DEF Packets
  <2>14. ASSUME NEW x \in J PROVE exp2[g[x]] = exp[f[x + 1]]
    <3>1. f2[x] = f[x + 1] /\ g[x] = f2[x] - 1
      BY <2>1, <2>4, <2>5, <2>7
    <3>2. f2[x] \in (1 + 1)..c
      BY <2>6 DEF Numbers
    <3>3. PICK a, l, y : a = f[x + 1] /\ l = Len(exp2) /\ y = g[x]
      BY Zenon
    <3>4. a \in 2..c /\ y = a - 1
      BY <3>1, <3>2, <3>3
    <3>5. l \in Nat /\ c <= l + 1
      BY <1>3, <2>9, <2>11, <3>3
    <3>6. y \in 1..l /\ y + 1 = a
      BY <1>3, <3>4, <3>5
    <3> QED BY <2>11, <3>3, <3>6, Zenon
  <2>15. Shown(k, table2, fly2, L2, exp2, J, g)
    BY <1>7, <2>14, Zenon DEF Shown
  <2> QED BY <1>5, <1>6, <2>8, <2>12, <2>13, <2>15, Zenon DEF RxIs
<1> QED BY <1>8, <1>9

\* What the frames to come are.
LEMMA RxFacts ==
  ASSUME NEW k, NEW n, NEW table, NEW fly, NEW r, NEW I, NEW L, NEW rest, NEW exp,
         RxIs(k, n, table, fly, r, I, L, rest, exp)
  PROVE  /\ Len(exp) = Cardinality(I) + Len(rest)
         /\ \A j \in I : ArrivedIn(k, table, fly[j], exp[Cardinality({h \in I : h <= j})], L[j])
         /\ \A j \in 1..Len(rest) : exp[Cardinality(I) + j] = rest[j]
<1>1. PICK c, f : /\ Rests(rest, exp, c) /\ Numbers(I, 0, c, f)
                  /\ Shown(k, table, fly, L, exp, I, f)
  BY Zenon DEF RxIs
<1>2. Cardinality(I) = c
  BY <1>1, NumbersCount
<1>3. \A j \in I : Cardinality({h \in I : h <= j}) = f[j]
  BY <1>1, NumbersUpto
<1> QED BY <1>1, <1>2, <1>3, Zenon DEF Rests, Shown

-----------------------------------------------------------------------------
(* What the host sends. *)

\* The entries of the used ring, not yet seen, that say a frame was written.
FilledOf(us, seen, n) == {j \in 1..Back(us, seen) : Entry(us, seen, n, j).len > 0}

Lens(us, seen, n) == [j \in 1..Back(us, seen) |-> Entry(us, seen, n, j).len]

RxOf(k, m, d, rest, exp) ==
  RxIs(k, QueueSize[k], m[DescAt(0)], d.inflight[0], Back(m[UsedAt(0)], d.seen[0]),
       FilledOf(m[UsedAt(0)], d.seen[0], QueueSize[k]),
       Lens(m[UsedAt(0)], d.seen[0], QueueSize[k]), rest, exp)

RxState(k, m, d, pending, chan, exp) ==
  k # "block" => /\ \E S : pending \in Seq(S) /\ chan \in Seq(S)
                 /\ RxOf(k, m, d, pending \o chan, exp)

RxInv == RxState(kind, mem, drv, rx_pending, rx_chan, rx_expect)

LEMMA RxSame ==
  ASSUME NEW k, NEW m, NEW d, NEW pending, NEW chan, NEW exp,
         RxState(k, m, d, pending, chan, exp), NEW m2, NEW d2, Same(m, d, m2, d2, 0)
  PROVE  RxState(k, m2, d2, pending, chan, exp)
<1>1. CASE k = "block"
  BY <1>1 DEF RxState
<1>2. CASE k # "block"
  BY <1>2, Zenon DEF RxState, RxOf, Same
<1> QED BY <1>1, <1>2

LEMMA HasRx ==
  ASSUME NEW k \in Kinds
  PROVE  0 \in QueuesOf(k) /\ (k # "block" => k \in {"net", "vsock"})
<1>1. k \in {"block", "net", "vsock"}
  BY Sizes
<1> QED BY <1>1 DEF QueuesOf, QueueCount

LEMMA FreshData ==
  ASSUME NEW k \in Kinds, NEW i \in QueuesOf(k)
  PROVE  Table(QueueSize[k], FreshMemory(k)[DescAt(i)])
<1>1. PICK n, qs : n = QueueSize[k] /\ qs = 0..(QueueCount(k) - 1)
  BY Zenon
<1>2. i \in qs
  BY <1>1 DEF QueuesOf
<1>3. DescAt(i)[2] = 1
  BY DEF DescAt
<1>4. PICK as : as = {DescAt(j) : j \in qs} \cup {AvailAt(j) : j \in qs} \cup {UsedAt(j) : j \in qs}
  OBVIOUS
<1>5. DescAt(i) \in as
  BY <1>2, <1>4, Zenon
<1>6. PICK m : m = FreshMemory(k)
  OBVIOUS
<1>7. m[DescAt(i)] = [j \in 0..(n - 1) |-> NoBuffer]
  BY <1>1, <1>3, <1>4, <1>5, <1>6 DEF FreshMemory
<1>8. {"writable", "mapped", "data"} \subseteq DOMAIN NoBuffer
  BY DEF NoBuffer
<1>9. PICK table : table = m[DescAt(i)]
  OBVIOUS
<1>10. DOMAIN table = 0..(n - 1) /\ \A z \in DOMAIN table : table[z] = NoBuffer
  BY <1>7, <1>9, Zenon
<1> QED BY <1>1, <1>6, <1>8, <1>9, <1>10, Zenon DEF Table, HasData

\* A driver that starts over.
LEMMA RxFresh ==
  ASSUME NEW k, NEW x, NEW m, NEW d, State(k, x, m, d), m = FreshMemory(k), d.step = 1,
         NEW S, NEW rest \in Seq(S), Packets(k, rest)
  PROVE  RxOf(k, m, d, rest, rest)
<1>1. k \in Kinds
  BY DEF State
<1>2. 0 \in QueuesOf(k)
  BY <1>1, HasRx
<1>3. Sees(k, QueueSize[k], x.queues[0].queue, m, d, 0)
  BY <1>2, StateSees
<1>4. ~(d.step > Len(SetupScript(k)))
  <2>1. QueueCount(k) \in 1..3 /\ Len(SetupScript(k)) = 8 + 9 * QueueCount(k)
    BY <1>1, Sizes
  <2> QED BY <2>1
<1>5. d.inflight[0] = <<>> /\ Back(m[UsedAt(0)], d.seen[0]) = 0
  BY <1>3, <1>4, Zenon DEF Sees
<1>6. Table(QueueSize[k], m[DescAt(0)])
  BY <1>1, <1>2, FreshData
<1>7. \A L : RxIs(k, QueueSize[k], m[DescAt(0)], <<>>, 0, {}, L, rest, rest)
  BY <1>6, RxNone
<1>8. FilledOf(m[UsedAt(0)], d.seen[0], QueueSize[k]) = {}
  <2>1. 1..0 = {}
    OBVIOUS
  <2> QED BY <1>5, <2>1, Zenon DEF FilledOf
<1> QED BY <1>5, <1>7, <1>8, Zenon DEF RxOf

LEMMA PutData ==
  ASSUME NEW n, NEW table, HasData(table), NEW ch, NEW s, NEW last,
         NEW table2, table2 = PutChain(n, table, ch, s, last)
  PROVE  HasData(table2)
<1>1. DOMAIN table2 = DOMAIN table
  BY Zenon DEF PutChain
<1>2. ASSUME NEW z \in DOMAIN table PROVE {"writable", "mapped", "data"} \subseteq DOMAIN table2[z]
  <2>1. CASE \E j \in DOMAIN ch : ch[j] = z
    <3>1. PICK h : h = CHOOSE g \in DOMAIN ch : ch[g] = z
      OBVIOUS
    <3>2. PICK w, p, y, a, c : /\ w = s[h].writable /\ p = s[h].mapped /\ y = s[h].data
                               /\ a = (h < Len(s) \/ last # "end")
                               /\ c = IF h < Len(s) THEN ch[h + 1] ELSE Beyond(n, ch, last)
      BY Zenon
    <3>3. table2[z] = [writable |-> w, mapped |-> p, data |-> y, has_next |-> a, next |-> c]
      BY <2>1, <3>1, <3>2, Zenon DEF PutChain
    <3> QED BY <3>3
  <2>2. CASE ~ \E j \in DOMAIN ch : ch[j] = z
    <3>1. table2[z] = table[z]
      BY <2>2, Zenon DEF PutChain
    <3> QED BY <3>1, Zenon DEF HasData
  <2> QED BY <2>1, <2>2
<1> QED BY <1>1, <1>2, Zenon DEF HasData

LEMMA ClearedData ==
  ASSUME NEW table, HasData(table), NEW ch, NEW table2, table2 = Cleared(table, ch)
  PROVE  HasData(table2)
<1>1. DOMAIN table2 = DOMAIN table
  BY Zenon DEF Cleared
<1>2. {"writable", "mapped", "data"} \subseteq DOMAIN NoBuffer
  BY DEF NoBuffer
<1>3. ASSUME NEW z \in DOMAIN table PROVE table2[z] = NoBuffer \/ table2[z] = table[z]
  BY Zenon DEF Cleared
<1> QED BY <1>1, <1>2, <1>3, Zenon DEF HasData

\* The driver puts a chain into the reception queue.
LEMMA RxSubmits ==
  ASSUME NEW k, NEW x, NEW m, NEW d, State(k, x, m, d), d.step > Len(SetupScript(k)),
         NEW n, n = QueueSize[k], NEW s, Len(s) \in Nat \ {0},
         Room(n, d.inflight[0], Len(s)), NEW ch, ch = ChainFrom(n, d.alloc[0], Len(s)),
         NEW last \in Tails, last = "round" => Len(s) = n,
         NEW table, table = PutChain(n, m[DescAt(0)], ch, s, last),
         NEW m2, PutAvail(m, m2, 0, n, table, ch[1]), NEW d2, Noted(d, d2, 0, n, ch, Len(s)),
         NEW rest, NEW exp, RxOf(k, m, d, rest, exp), RxShape(s)
  PROVE  RxOf(k, m2, d2, rest, exp)
<1>1. 0 \in QueuesOf(k)
  BY HasRx DEF State
<1>2. PICK fly, fly2, table0, r, I, L :
        /\ fly = d.inflight[0] /\ fly2 = d2.inflight[0]
        /\ table0 = m[DescAt(0)] /\ r = Back(m[UsedAt(0)], d.seen[0])
        /\ I = FilledOf(m[UsedAt(0)], d.seen[0], n) /\ L = Lens(m[UsedAt(0)], d.seen[0], n)
  BY Zenon
<1>3. RxIs(k, n, table0, fly, r, I, L, rest, exp)
  BY <1>2, Zenon DEF RxOf
<1>4. DOMAIN table0 = 0..(n - 1) /\ HasData(table0)
  BY <1>3 DEF RxIs, Table
<1>5. Built(n, table, ch, s) /\ DOMAIN table = 0..(n - 1) /\ Keeps(fly, 0, table0, table)
  <2>1. DOMAIN m[DescAt(0)] = 0..(n - 1)
    BY <1>2, <1>4
  <2>2. BuiltBeside(n, d.inflight[0], m[DescAt(0)], table, ch, s)
    BY <1>1, <2>1, SubmitTable
  <2> QED BY <1>2, <2>2, Zenon DEF BuiltBeside
<1>6. /\ m2[DescAt(0)] = table /\ m2[UsedAt(0)] = m[UsedAt(0)] /\ d2.seen[0] = d.seen[0]
      /\ Longer(fly, fly2, ch)
  <2>1. PICK len \in Nat \ {0} : len = Len(s)
    OBVIOUS
  <2>2. ch = ChainFrom(n, d.alloc[0], len) /\ Noted(d, d2, 0, n, ch, len)
    BY <2>1
  <2>3. SubmitSeen(k, m, d, m2, d2, 0, table, ch)
    BY <1>1, <2>2, SubmitSees
  <2> QED BY <1>2, <2>3, Zenon DEF SubmitSeen
<1>7. Len(fly) \in Nat /\ r \in 0..Len(fly) /\ Apart(n, fly)
  <2>1. Sees(k, n, x.queues[0].queue, m, d, 0)
    BY <1>1, StateSees
  <2> QED BY <1>2, <2>1, Zenon DEF Sees
<1>8. r \in Nat /\ r <= Len(fly)
  BY <1>7
<1>9. HasData(table)
  <2>1. table = PutChain(n, table0, ch, s, last)
    BY <1>2
  <2> QED BY <1>4, <2>1, PutData
<1>10. Table(n, table) /\ Usable(n, table, ch)
  BY <1>5, <1>9, Zenon DEF Table, Usable
<1>11. RxIs(k, n, table, fly2, r, I, L, rest, exp)
  BY <1>3, <1>5, <1>6, <1>7, <1>8, <1>10, RxSubmit, ZenonT(60)
<1> QED BY <1>2, <1>6, <1>11, Zenon DEF RxOf

\* It takes one back.
LEMMA RxConsumes ==
  ASSUME NEW k, NEW x, NEW m, NEW d, State(k, x, m, d), d.step > Len(SetupScript(k)),
         d.seen[0] # m[UsedAt(0)].idx, NEW n, n = QueueSize[k],
         NEW e, e = FirstUnseen(m[UsedAt(0)], d.seen[0], n),
         NEW table, table = Cleared(m[DescAt(0)], d.inflight[0][1]),
         NEW m2, PutTable(m, m2, 0, table), NEW d2, NotedBack(d, d2, 0, e.id),
         NEW rest, NEW exp, RxOf(k, m, d, rest, exp),
         NEW exp2, exp2 = IF e.len > 0 THEN Tail(exp) ELSE exp
  PROVE  RxOf(k, m2, d2, rest, exp2)
<1>1. 0 \in QueuesOf(k)
  BY HasRx DEF State
<1>2. PICK fly, fly2, table0, us, r, I, L :
        /\ fly = d.inflight[0] /\ fly2 = d2.inflight[0] /\ table0 = m[DescAt(0)]
        /\ us = m[UsedAt(0)] /\ r = Back(us, d.seen[0]) /\ I = FilledOf(us, d.seen[0], n)
        /\ L = Lens(us, d.seen[0], n)
  BY Zenon
<1>3. RxIs(k, n, table0, fly, r, I, L, rest, exp)
  BY <1>2, Zenon DEF RxOf
<1>4. DOMAIN table0 = 0..(n - 1) /\ HasData(table0)
  BY <1>3 DEF RxIs, Table
<1>5. /\ m2[DescAt(0)] = table /\ m2[UsedAt(0)] = us /\ e = Entry(us, d.seen[0], n, 1)
      /\ r \in Nat \ {0} /\ Back(us, d2.seen[0]) = r - 1
      /\ Shorter(fly, fly2)
      /\ \A j \in Nat \ {0} : Entry(us, d2.seen[0], n, j) = Entry(us, d.seen[0], n, j + 1)
  <2>0. m2 = [m EXCEPT ![DescAt(0)] = table]
    BY Zenon DEF PutTable
  <2>1. ConsumeSeen(k, n, m, d, m2, d2, 0, e, table)
    BY <1>1, <2>0, ConsumeSees
  <2> QED BY <1>2, <2>1, Zenon DEF ConsumeSeen
<1>6. Len(fly) \in Nat /\ r \in 0..Len(fly) /\ Apart(n, fly)
  <2>1. Sees(k, n, x.queues[0].queue, m, d, 0)
    BY <1>1, StateSees
  <2> QED BY <1>2, <2>1, Zenon DEF Sees
<1>7. Len(fly) \in Nat \ {0} /\ r <= Len(fly) /\ r \in Nat /\ 1 <= r
  BY <1>5, <1>6
<1>8. Table(n, table) /\ Keeps(fly, 1, table0, table)
  <2>1. table = Cleared(table0, fly[1])
    BY <1>2
  <2>2. DOMAIN table = 0..(n - 1) /\ Keeps(fly, 1, table0, table)
    BY <1>4, <1>6, <1>7, <2>1, ConsumeTable
  <2>3. HasData(table)
    BY <1>4, <2>1, ClearedData
  <2> QED BY <2>2, <2>3, Zenon DEF Table
<1>9. PICK J : J = {y \in Nat \ {0} : y + 1 \in I}
  OBVIOUS
<1>10. FilledOf(us, d2.seen[0], n) = J
  <2>1. PICK E, F : /\ E = [j \in Nat \ {0} |-> Entry(us, d.seen[0], n, j)]
                    /\ F = [j \in Nat \ {0} |-> Entry(us, d2.seen[0], n, j)]
    BY Zenon
  <2>2. \A j \in Nat \ {0} : F[j] = E[j + 1]
    <3>1. \A j \in Nat \ {0} : j + 1 \in Nat \ {0}
      OBVIOUS
    <3> QED BY <1>5, <2>1, <3>1, Zenon
  <2>3. I = {j \in 1..r : E[j].len > 0}
    <3>1. \A j \in 1..r : j \in Nat \ {0}
      BY <1>7
    <3> QED BY <1>2, <2>1, <3>1, Zenon DEF FilledOf
  <2>4. FilledOf(us, d2.seen[0], n) = {j \in 1..(r - 1) : F[j].len > 0}
    <3>1. \A j \in 1..(r - 1) : j \in Nat \ {0}
      BY <1>7
    <3>2. FilledOf(us, d2.seen[0], n) = {j \in 1..(r - 1) : Entry(us, d2.seen[0], n, j).len > 0}
      BY <1>5, Zenon DEF FilledOf
    <3> QED BY <2>1, <3>1, <3>2
  <2>5. {j \in 1..(r - 1) : F[j].len > 0} = J
    <3>1. ASSUME NEW j PROVE j \in 1..(r - 1) /\ F[j].len > 0 <=> j \in J
      <4>1. j \in 1..(r - 1) <=> j \in Nat \ {0} /\ j + 1 \in 1..r
        BY <1>7
      <4>2. ASSUME j \in Nat \ {0} PROVE F[j] = E[j + 1]
        BY <2>2, <4>2
      <4> QED BY <1>9, <2>3, <4>1, <4>2, Zenon
    <3> QED BY <3>1, Zenon
  <2> QED BY <2>4, <2>5, Zenon
<1>11. exp2 = IF 1 \in I THEN Tail(exp) ELSE exp
  <2>1. 1 \in 1..r
    BY <1>7
  <2>2. 1 \in I <=> e.len > 0
    BY <1>2, <1>5, <2>1, Zenon DEF FilledOf
  <2> QED BY <2>2, Zenon
<1>12. PICK L2 : L2 = Lens(us, d2.seen[0], n)
  OBVIOUS
<1>13. \A y \in J : L2[y] = L[y + 1]
  <2>1. \A y \in J : y \in Nat \ {0} /\ y + 1 \in 1..r
    BY <1>2, <1>9, Zenon DEF FilledOf
  <2>2. \A y \in J : y \in 1..(r - 1)
    BY <1>7, <2>1
  <2>3. \A y \in 1..(r - 1) : L2[y] = Entry(us, d2.seen[0], n, y).len
    BY <1>5, <1>12, Zenon DEF Lens
  <2>4. \A y \in 1..r : L[y] = Entry(us, d.seen[0], n, y).len
    BY <1>2, Zenon DEF Lens
  <2>5. ASSUME NEW y \in J PROVE L2[y] = L[y + 1]
    <3>1. Entry(us, d2.seen[0], n, y) = Entry(us, d.seen[0], n, y + 1)
      BY <1>5, <2>1, Zenon
    <3>2. L2[y] = Entry(us, d2.seen[0], n, y).len
      BY <2>2, <2>3, Zenon
    <3>3. PICK z : z = y + 1
      OBVIOUS
    <3>4. L[z] = Entry(us, d.seen[0], n, z).len
      BY <2>1, <2>4, <3>3, Zenon
    <3> QED BY <3>1, <3>2, <3>3, <3>4, Zenon
  <2> QED BY <2>5
<1>14. RxIs(k, n, table, fly2, r - 1, J, L2, rest, exp2)
  <2>1. MovedUp(I, J) /\ TakenFrom(exp, exp2, I)
    BY <1>9, <1>11, Zenon DEF MovedUp, TakenFrom
  <2> QED BY <1>3, <1>5, <1>6, <1>7, <1>8, <1>13, <2>1, RxForget
<1> QED BY <1>2, <1>5, <1>10, <1>12, <1>14, Zenon DEF RxOf

LEMMA RxHead ==
  ASSUME NEW k, NEW n, NEW table, NEW fly, NEW r, NEW I, NEW L, NEW rest, NEW exp,
         RxIs(k, n, table, fly, r, I, L, rest, exp), rest # <<>>
  PROVE  IsPacket(k, Head(rest))
<1>1. PICK c : Rests(rest, exp, c)
  BY Zenon DEF RxIs
<1>2. PICK S : rest \in Seq(S) /\ exp \in Seq(S)
  BY <1>1, Zenon DEF Rests
<1>3. c \in Nat /\ Len(exp) = c + Len(rest) /\ \A j \in 1..Len(rest) : exp[c + j] = rest[j]
  BY <1>1, Zenon DEF Rests
<1>4. Head(rest) = rest[1] /\ 1 \in 1..Len(rest) /\ Len(rest) \in Nat
  BY <1>2
<1>5. c + 1 \in 1..Len(exp) /\ exp[c + 1] = Head(rest)
  BY <1>3, <1>4
<1>6. Packets(k, exp)
  BY DEF RxIs
<1> QED BY <1>5, <1>6, Zenon DEF Packets

Receives(k, q, m, head, fr) == IF k = "net" THEN NetRx(q, m, head, fr) ELSE VsockRx(q, m, head, fr)

\* One round of deliver_rx, of either device.
Delivers(k, q, m, m2, pending, pending2, o) ==
  /\ pending # <<>> /\ HasChain(q, m)
  /\ o = Receives(k, q, m, HeadIndex(q, m), Head(pending))
  /\ m2 = PushUsed(q, o.mem, HeadIndex(q, m), o.written)
  /\ pending2 = IF o.written = 0 THEN pending ELSE Tail(pending)

\* The device puts the first frame into a chain, if it can, and returns the chain.
LEMMA RxReturns ==
  ASSUME NEW k, NEW x, NEW m, NEW d, State(k, x, m, d), k # "block",
         NEW q, q = x.queues[0].queue, NEW rest, NEW exp, RxOf(k, m, d, rest, exp),
         NEW m2, NEW rest2, NEW o, Delivers(k, q, m, m2, rest, rest2, o),
         SameBut(q.desc, m, o.mem)
  PROVE  RxOf(k, m2, d, rest2, exp)
<1>0. /\ HasChain(q, m) /\ rest # <<>>
      /\ o = Receives(k, q, m, HeadIndex(q, m), Head(rest))
      /\ m2 = PushUsed(q, o.mem, HeadIndex(q, m), o.written)
      /\ rest2 = IF o.written = 0 THEN rest ELSE Tail(rest)
  BY Zenon DEF Delivers
<1>1. 0 \in QueuesOf(k) /\ k \in {"net", "vsock"} /\ k \in Kinds /\ IsFcn(m)
  BY HasRx DEF State, Memory
<1>2. PICK n, fly, table, us, us2, r, I, L, L2, fr :
        /\ n = QueueSize[k] /\ fly = d.inflight[0] /\ table = m[DescAt(0)]
        /\ us = m[UsedAt(0)] /\ us2 = m2[UsedAt(0)] /\ r = Back(us, d.seen[0])
        /\ I = FilledOf(us, d.seen[0], n) /\ fr = Head(rest)
        /\ L = Lens(us, d.seen[0], n) /\ L2 = Lens(us2, d.seen[0], n)
  BY Zenon
<1>3. n \in Nat \ {0}
  BY <1>1, <1>2, Sizes
<1>4. RxIs(k, n, table, fly, r, I, L, rest, exp)
  BY <1>2, Zenon DEF RxOf
<1>5. /\ Len(fly) \in Nat /\ r \in 0..Len(fly) /\ r < Len(fly) /\ Apart(n, fly)
      /\ q.size = n /\ q.desc = DescAt(0) /\ DescAt(0) \in DOMAIN m
      /\ HeadIndex(q, m) = fly[r + 1][1]
  <2>1. Sees(k, n, q, m, d, 0)
    BY <1>1, <1>2, StateSees
  <2> QED BY <1>0, <1>2, <2>1, Zenon DEF Sees
<1>6. r \in Nat /\ r + 1 \in (r + 1)..Len(fly) /\ r + 1 \in 1..Len(fly)
  BY <1>5
<1>7. PICK ch, w, table2 : ch = fly[r + 1] /\ w = o.written /\ table2 = o.mem[q.desc]
  BY Zenon
<1>8. PICK s : Built(n, table, ch, s) /\ RxShape(s)
  <2>1. Usable(n, table, ch)
    BY <1>4, <1>6, <1>7, Zenon DEF RxIs
  <2> QED BY <2>1, Zenon DEF Usable
<1>9. IsPacket(k, fr)
  BY <1>0, <1>2, <1>4, RxHead
<1>10. /\ DOMAIN table = 0..(n - 1) /\ HasData(table) /\ table = m[q.desc] /\ q.desc \in DOMAIN m
  <2>1. Table(n, table)
    BY <1>4, Zenon DEF RxIs
  <2> QED BY <1>2, <1>5, <2>1, Zenon DEF Table
<1>11. \A i, h \in 1..Len(ch) : ch[i] = ch[h] => i = h
  <2>1. PICK z : z = r + 1
    OBVIOUS
  <2>2. z \in 1..Len(fly) /\ ch = fly[z]
    BY <1>6, <1>7, <2>1
  <2>3. \A i, h \in 1..Len(fly[z]) : fly[z][i] = fly[z][h] => i = h
    BY <1>5, <2>2 DEF Apart
  <2> QED BY <2>2, <2>3, Zenon
<1>12. Filled(k, table, table2, ch, fr, w)
  <2>1. CASE k = "net"
    <3>1. /\ o = NetRx(q, m, ch[1], fr) /\ RxShape(s) /\ IsPacket("net", fr)
      BY <1>0, <1>2, <1>5, <1>7, <1>8, <1>9, <2>1, Zenon DEF Receives
    <3>2. Filled("net", table, o.mem[q.desc], ch, fr, o.written)
      BY <1>1, <1>3, <1>5, <1>8, <1>10, <1>11, <3>1, NetFills
    <3> QED BY <1>7, <2>1, <3>2, Zenon
  <2>2. CASE k = "vsock"
    <3>1. "vsock" # "net"
      OBVIOUS
    <3>2. /\ o = VsockRx(q, m, ch[1], fr) /\ RxShape(s) /\ IsPacket("vsock", fr)
      BY <1>0, <1>2, <1>5, <1>7, <1>8, <1>9, <2>2, <3>1, Zenon DEF Receives
    <3>3. Filled("vsock", table, o.mem[q.desc], ch, fr, o.written)
      BY <1>1, <1>3, <1>5, <1>8, <1>10, <3>2, VsockFills
    <3> QED BY <1>7, <2>2, <3>3, Zenon
  <2> QED BY <1>1, <2>1, <2>2
<1>13. ReturnSeen(k, n, q, m, o.mem, d, m2, 0, w)
  <2>1. PICK m1 : m1 = o.mem
    OBVIOUS
  <2>2. SameBut(q.desc, m, m1) /\ m2 = PushUsed(q, m1, HeadIndex(q, m), w)
    BY <1>0, <1>7, <2>1, Zenon
  <2>3. ReturnSeen(k, n, q, m, m1, d, m2, 0, w)
    BY <1>0, <1>1, <1>2, <2>2, ReturnSees
  <2> QED BY <2>1, <2>3, Zenon
<1>14. /\ m2[DescAt(0)] = table2 /\ Back(us2, d.seen[0]) = r + 1
       /\ Entry(us2, d.seen[0], n, r + 1) = [id |-> HeadIndex(q, m), len |-> w]
       /\ \A j \in 1..r : Entry(us2, d.seen[0], n, j) = Entry(us, d.seen[0], n, j)
  BY <1>0, <1>2, <1>5, <1>7, <1>13, Zenon DEF ReturnSeen
<1>15. FilledOf(us2, d.seen[0], n) = IF w > 0 THEN I \cup {r + 1} ELSE I
  <2>1. PICK z \in Nat : z = r + 1 /\ \A j : j \in 1..z <=> j = z \/ j \in 1..r
    BY <1>6
  <2>2. Entry(us2, d.seen[0], n, z).len = w
    BY <1>14, <2>1
  <2>3. \A j : j \in FilledOf(us2, d.seen[0], n)
              <=> j \in 1..z /\ Entry(us2, d.seen[0], n, j).len > 0
    BY <1>14, <2>1, Zenon DEF FilledOf
  <2>4. \A j : j \in I <=> j \in 1..r /\ Entry(us, d.seen[0], n, j).len > 0
    BY <1>2, Zenon DEF FilledOf
  <2>5. z \notin 1..r
    BY <2>1, <1>6
  <2>6. ASSUME NEW j PROVE j \in FilledOf(us2, d.seen[0], n) <=> j \in I \/ (j = z /\ w > 0)
    BY <1>14, <2>1, <2>2, <2>3, <2>4, <2>5, Zenon
  <2>7. CASE w > 0
    <3>1. FilledOf(us2, d.seen[0], n) = I \cup {z}
      BY <2>6, <2>7, Zenon
    <3> QED BY <2>1, <2>7, <3>1, Zenon
  <2>8. CASE ~(w > 0)
    <3>1. FilledOf(us2, d.seen[0], n) = I
      BY <2>6, <2>8, Zenon
    <3> QED BY <2>8, <3>1, Zenon
  <2> QED BY <2>7, <2>8
<1>16. ElsewhereSame(table, table2, ch) /\ w \in Nat
  BY <1>12, Zenon DEF Filled
<1>17. L2[r + 1] = w /\ \A j \in I : L2[j] = L[j]
  <2>1. PICK z \in Nat : z = r + 1 /\ z \in 1..z /\ \A j \in 1..r : j \in 1..z
    <3>1. r + 1 \in Nat /\ r + 1 \in 1..(r + 1) /\ \A j \in 1..r : j \in 1..(r + 1)
      BY <1>6
    <3> QED BY <3>1, Zenon
  <2>2. \A j \in 1..z : L2[j] = Entry(us2, d.seen[0], n, j).len
    BY <1>2, <1>14, <2>1, Zenon DEF Lens
  <2>3. \A j \in 1..r : L[j] = Entry(us, d.seen[0], n, j).len
    BY <1>2, Zenon DEF Lens
  <2>4. \A j \in I : j \in 1..r
    BY <1>2, Zenon DEF FilledOf
  <2>5. Entry(us2, d.seen[0], n, z).len = w
    BY <1>14, <2>1
  <2>6. L2[z] = w
    BY <2>1, <2>2, <2>5, Zenon
  <2>7. ASSUME NEW j \in I PROVE L2[j] = L[j]
    <3>1. j \in 1..r /\ j \in 1..z
      BY <2>1, <2>4, Zenon
    <3> QED BY <1>14, <2>2, <2>3, <3>1, Zenon
  <2> QED BY <2>1, <2>6, <2>7
<1>18. ElsewhereSame(table, table2, fly[r + 1])
  BY <1>7, <1>16, Zenon
<1>19. CASE w = 0
  <2>1. RxIs(k, n, table2, fly, r + 1, I, L2, rest, exp)
    BY <1>4, <1>5, <1>6, <1>17, <1>18, RxPass
  <2>2. rest2 = rest
    BY <1>0, <1>7, <1>19
  <2>3. ~(w > 0)
    BY <1>19
  <2>4. FilledOf(us2, d.seen[0], n) = I
    BY <1>15, <2>3, Zenon
  <2> QED BY <1>2, <1>14, <2>1, <2>2, <2>4, Zenon DEF RxOf
<1>20. CASE w # 0
  <2>1. w > 0
    BY <1>16, <1>20
  <2>2. PICK z : z = r + 1
    OBVIOUS
  <2>3. /\ ArrivedIn(k, table2, fly[z], fr, L2[z]) /\ ElsewhereSame(table, table2, fly[z])
        /\ LensAgree(L, L2, I)
    <3>1. ArrivedIn(k, table2, ch, fr, w)
      BY <1>12, <2>1, Zenon DEF Filled
    <3> QED BY <1>7, <1>17, <1>18, <2>2, <3>1, Zenon DEF LensAgree
  <2>6. RxIs(k, n, table2, fly, z, I \cup {z}, L2, Tail(rest), exp)
    BY <1>0, <1>2, <1>4, <1>5, <1>6, <2>2, <2>3, RxFill
  <2>4. rest2 = Tail(rest)
    BY <1>0, <1>7, <1>20
  <2>5. FilledOf(us2, d.seen[0], n) = I \cup {r + 1}
    BY <1>15, <2>1, Zenon
  <2> QED BY <1>2, <1>14, <2>2, <2>4, <2>5, <2>6, Zenon DEF RxOf
<1> QED BY <1>19, <1>20

LEMMA RxRest ==
  ASSUME NEW k, NEW n, NEW table, NEW fly, NEW r, NEW I, NEW L, NEW rest, NEW exp,
         RxIs(k, n, table, fly, r, I, L, rest, exp)
  PROVE  Packets(k, rest)
<1>1. PICK c : Rests(rest, exp, c)
  BY Zenon DEF RxIs
<1>2. PICK S : rest \in Seq(S) /\ exp \in Seq(S)
  BY <1>1, Zenon DEF Rests
<1>3. c \in Nat /\ Len(exp) = c + Len(rest) /\ \A j \in 1..Len(rest) : exp[c + j] = rest[j]
  BY <1>1, Zenon DEF Rests
<1>4. \A j \in 1..Len(rest) : c + j \in 1..Len(exp)
  BY <1>2, <1>3
<1>5. Packets(k, exp)
  BY DEF RxIs
<1> QED BY <1>3, <1>4, <1>5, Zenon DEF Packets

\* Two sequences in a row.
LEMMA FrontOf ==
  ASSUME NEW S, NEW p \in Seq(S), NEW c \in Seq(S), p # <<>>
  PROVE  /\ p \o c # <<>> /\ Head(p \o c) = Head(p)
         /\ Tail(p) \in Seq(S) /\ Tail(p \o c) = Tail(p) \o c
<1>1. PICK x : x = p \o c
  OBVIOUS
<1>2. /\ x \in Seq(S) /\ Len(x) = Len(p) + Len(c)
      /\ \A j \in 1..(Len(p) + Len(c)) : x[j] = IF j <= Len(p) THEN p[j] ELSE c[j - Len(p)]
  BY <1>1, ConcatProperties
<1>3. Len(p) \in Nat \ {0} /\ Len(c) \in Nat
  OBVIOUS
<1>4. x # <<>> /\ Head(x) = x[1] /\ Head(p) = p[1] /\ x[1] = p[1]
  BY <1>2, <1>3
<1>5. PICK y, z : y = Tail(p) /\ z = Tail(x)
  BY Zenon
<1>6. y \in Seq(S) /\ Len(y) = Len(p) - 1 /\ \A j \in 1..Len(y) : y[j] = p[j + 1]
  BY <1>3, <1>5
<1>7. z \in Seq(S) /\ Len(z) = Len(x) - 1 /\ \A j \in 1..Len(z) : z[j] = x[j + 1]
  BY <1>2, <1>4, <1>5
<1>8. PICK u : u = y \o c
  OBVIOUS
<1>9. /\ u \in Seq(S) /\ Len(u) = Len(y) + Len(c)
      /\ \A j \in 1..(Len(y) + Len(c)) : u[j] = IF j <= Len(y) THEN y[j] ELSE c[j - Len(y)]
  BY <1>6, <1>8, ConcatProperties
<1>10. Len(z) = Len(u)
  BY <1>2, <1>3, <1>6, <1>7, <1>9
<1>11. ASSUME NEW j \in 1..Len(z) PROVE z[j] = u[j]
  <2>1. j \in 1..(Len(y) + Len(c)) /\ j + 1 \in 1..(Len(p) + Len(c))
    BY <1>2, <1>3, <1>6, <1>7
  <2>2. z[j] = IF j + 1 <= Len(p) THEN p[j + 1] ELSE c[j + 1 - Len(p)]
    BY <1>2, <1>7, <2>1
  <2>3. u[j] = IF j <= Len(y) THEN y[j] ELSE c[j - Len(y)]
    BY <1>9, <2>1
  <2>4. CASE j <= Len(y)
    <3>1. j + 1 <= Len(p) /\ j \in 1..Len(y)
      BY <1>3, <1>6, <2>4
    <3> QED BY <1>6, <2>2, <2>3, <2>4, <3>1
  <2>5. CASE ~(j <= Len(y))
    <3>1. ~(j + 1 <= Len(p)) /\ j + 1 - Len(p) = j - Len(y)
      BY <1>3, <1>6, <2>5
    <3> QED BY <2>2, <2>3, <2>5, <3>1, Zenon
  <2> QED BY <2>4, <2>5
<1>12. z = u
  BY <1>7, <1>9, <1>10, <1>11, SeqEqual
<1> QED BY <1>1, <1>4, <1>5, <1>6, <1>8, <1>12, Zenon

LEMMA AtTheEnd ==
  ASSUME NEW S, NEW p \in Seq(S), NEW c \in Seq(S), NEW v \in S
  PROVE  Append(c, v) \in Seq(S) /\ p \o Append(c, v) = Append(p \o c, v)
<1>1. PICK x : x = p \o c
  OBVIOUS
<1>2. x \in Seq(S)
  BY <1>1, ConcatProperties
<1>3. Append(x, v) = x \o <<v>> /\ Append(c, v) = c \o <<v>> /\ <<v>> \in Seq(S)
  BY <1>2, AppendIsConcat
<1>4. (p \o c) \o <<v>> = p \o (c \o <<v>>)
  BY <1>3, ConcatAssociative
<1>5. Append(c, v) \in Seq(S)
  BY AppendProperties
<1> QED BY <1>1, <1>3, <1>4, <1>5, Zenon

LEMMA InitRx ==
  ASSUME Init
  PROVE  RxInv
<1>1. State(kind, t, mem, drv)
  BY InitInv DEF Inv
<1>2. /\ mem = FreshMemory(kind) /\ drv.step = 1
      /\ rx_pending = <<>> /\ rx_chan = <<>> /\ rx_expect = <<>>
  BY DEF Init, FreshDriver
<1>3. PICK e : e = <<>>
  OBVIOUS
<1>4. e \in Seq({}) /\ e \o e = e /\ 1..Len(e) = {}
  BY <1>3
<1>5. Packets(kind, e)
  BY <1>4, Zenon DEF Packets
<1>6. RxOf(kind, mem, drv, e, e)
  BY <1>1, <1>2, <1>4, <1>5, RxFresh
<1>7. RxState(kind, mem, drv, e, e, e)
  BY <1>4, <1>6, Zenon DEF RxState
<1> QED BY <1>2, <1>3, <1>7 DEF RxInv

LEMMA OutIs ==
  ASSUME NEW n \in Nat, NEW d, d = Out(n) \/ d = Unmapped(Out(n))
  PROVE  d.writable \in BOOLEAN /\ d.mapped \in BOOLEAN /\ d.data \in Seq(Nat)
<1>1. PICK x : x = Zeros(n)
  OBVIOUS
<1>2. x \in Seq(Nat)
  BY <1>1, ZerosSeq
<1>3. PICK o : o = Out(n)
  OBVIOUS
<1>4. o = [writable |-> TRUE, mapped |-> TRUE, data |-> x]
  BY <1>1, <1>3, Zenon DEF Out
<1>5. Unmapped(o).writable = TRUE /\ Unmapped(o).mapped = FALSE /\ Unmapped(o).data = x
  BY <1>4 DEF Unmapped
<1>6. o.writable = TRUE /\ o.mapped = TRUE /\ o.data = x
  BY <1>4
<1> QED BY <1>2, <1>3, <1>5, <1>6

LEMMA RxShapeOne ==
  ASSUME NEW s, NEW d, s = <<d>>, d.writable \in BOOLEAN, d.mapped \in BOOLEAN, d.data \in Seq(Nat)
  PROVE  RxShape(s)
<1>1. Len(s) = 1 /\ s[1] = d
  OBVIOUS
<1>2. \A j \in 1..1 : j = 1
  OBVIOUS
<1> QED BY <1>1, <1>2, Zenon DEF RxShape

LEMMA RxShapeTwo ==
  ASSUME NEW s, NEW d, NEW e, s = <<d, e>>,
         d.writable \in BOOLEAN, d.mapped \in BOOLEAN, d.data \in Seq(Nat),
         e.writable \in BOOLEAN, e.mapped \in BOOLEAN, e.data \in Seq(Nat)
  PROVE  RxShape(s)
<1>1. Len(s) = 2 /\ s[1] = d /\ s[2] = e
  OBVIOUS
<1>2. \A j \in 1..2 : j = 1 \/ j = 2
  OBVIOUS
<1> QED BY <1>1, <1>2, Zenon DEF RxShape

LEMMA RxShapeOf ==
  ASSUME kind \in {"net", "vsock"}, NEW s \in Shapes(0)
  PROVE  RxShape(s)
<1>1. PICK h : h = NET_HDR_SIZE
  OBVIOUS
<1>2. /\ h \in Nat /\ h + 1 \in Nat /\ h + 2 \in Nat
      /\ 1 \in Nat /\ 2 \in Nat /\ 3 \in Nat
  BY <1>1, BackendAssumptions DEF BackendAssumptions
<1>3. s \in RxShapes
  <2>1. kind # "block"
    OBVIOUS
  <2> QED BY <2>1 DEF Shapes, RX_QUEUE, TX_QUEUE
<1>4. \/ s = <<Out(h), Out(2)>> \/ s = <<Out(h + 1)>> \/ s = <<Unmapped(Out(h + 2))>>
      \/ s = <<Out(3)>> \/ s = <<Out(2), Out(1)>> \/ s = <<Unmapped(Out(3))>> \/ s = <<In(<<0>>)>>
  <2>1. CASE kind = "net"
    <3>1. s \in {<<Out(h), Out(2)>>, <<Out(h + 1)>>, <<Unmapped(Out(h + 2))>>}
      BY <1>1, <1>3, <2>1, Zenon DEF RxShapes
    <3> QED BY <3>1, Zenon
  <2>2. CASE kind = "vsock"
    <3>1. kind # "net"
      BY <2>2
    <3>2. s \in {<<Out(3)>>, <<Out(2), Out(1)>>, <<Unmapped(Out(3))>>, <<In(<<0>>)>>}
      BY <1>3, <3>1, Zenon DEF RxShapes
    <3> QED BY <3>2, Zenon
  <2> QED BY <2>1, <2>2
<1>5. ASSUME NEW d, NEW e, NEW z \in Nat, NEW y \in Nat, s = <<d, e>>, d = Out(z), e = Out(y)
      PROVE  RxShape(s)
  <2>1. /\ d.writable \in BOOLEAN /\ d.mapped \in BOOLEAN /\ d.data \in Seq(Nat)
        /\ e.writable \in BOOLEAN /\ e.mapped \in BOOLEAN /\ e.data \in Seq(Nat)
    BY <1>5, OutIs, Zenon
  <2> QED BY <1>5, <2>1, RxShapeTwo, Zenon
<1>6. ASSUME NEW d, NEW z \in Nat, s = <<d>>, d = Out(z) \/ d = Unmapped(Out(z))
      PROVE  RxShape(s)
  <2>1. d.writable \in BOOLEAN /\ d.mapped \in BOOLEAN /\ d.data \in Seq(Nat)
    BY <1>6, OutIs, Zenon
  <2> QED BY <1>6, <2>1, RxShapeOne, Zenon
<1>7. CASE s = <<In(<<0>>)>>
  <2>1. PICK d, x : d = In(<<0>>) /\ x = <<0>>
    BY Zenon
  <2>2. d = [writable |-> FALSE, mapped |-> TRUE, data |-> x] /\ x \in Seq(Nat)
    BY <2>1 DEF In
  <2>3. d.writable \in BOOLEAN /\ d.mapped \in BOOLEAN /\ d.data \in Seq(Nat)
    BY <2>2
  <2> QED BY <1>7, <2>1, <2>3, RxShapeOne, Zenon
<1>8. CASE s = <<Out(h), Out(2)>>
  BY <1>2, <1>5, <1>8, Zenon
<1>9. CASE s = <<Out(2), Out(1)>>
  BY <1>2, <1>5, <1>9, Zenon
<1>10. CASE s = <<Out(h + 1)>>
  BY <1>2, <1>6, <1>10, Zenon
<1>11. CASE s = <<Unmapped(Out(h + 2))>>
  BY <1>2, <1>6, <1>11, Zenon
<1>12. CASE s = <<Out(3)>>
  BY <1>2, <1>6, <1>12, Zenon
<1>13. CASE s = <<Unmapped(Out(3))>>
  BY <1>2, <1>6, <1>13, Zenon
<1> QED BY <1>4, <1>7, <1>8, <1>9, <1>10, <1>11, <1>12, <1>13, Zenon

LEMMA SubmitRx ==
  ASSUME Inv, RxInv, NEW i \in QueuesOf(kind), Submit(i)
  PROVE  RxInv'
<1>1. /\ State(kind, t, mem, drv) /\ kind \in Kinds
      /\ RxState(kind, mem, drv, rx_pending, rx_chan, rx_expect)
  BY DEF Inv, RxInv, State
<1>2. PICK s \in Shapes(i), last \in Tails : Puts(i, s, last)
  BY SubmitPuts
<1>3. PICK n, len, ch, table :
        /\ n = QueueSize[kind] /\ len = Len(s) /\ ch = NextFree(i, Len(s))
        /\ table = PutChain(n, mem[DescAt(i)], ch, s, last)
  BY Zenon
<1>4. len \in Nat \ {0}
  BY <1>3, ShapeSizes
<1>5. Room(n, drv.inflight[i], len)
  BY <1>2, <1>3, Zenon DEF Puts, Room, Occupied, Held
<1>6. ch = ChainFrom(n, drv.alloc[i], len)
  BY <1>3, Zenon DEF NextFree, ChainFrom
<1>7. /\ PutAvail(mem, mem', i, n, table, ch[1]) /\ Noted(drv, drv', i, n, ch, len)
      /\ last = "round" => len = n
  BY <1>2, <1>3, Zenon DEF Puts
<1>8. /\ drv.step > Len(SetupScript(kind)) /\ kind' = kind
      /\ rx_pending' = rx_pending /\ rx_chan' = rx_chan /\ rx_expect' = rx_expect
  BY DEF Submit, Live
<1>9. PICK m2, d2 : m2 = mem' /\ d2 = drv'
  BY Zenon
<1>10. CASE kind = "block"
  BY <1>8, <1>10 DEF RxInv, RxState
<1>11. CASE kind # "block" /\ i # 0
  <2>1. SubmitSeen(kind, mem, drv, m2, d2, i, table, ch)
    BY <1>1, <1>3, <1>4, <1>6, <1>7, <1>9, SubmitSees
  <2>2. Same(mem, drv, m2, d2, 0)
    BY <1>1, <1>11, <2>1, HasRx, Zenon DEF SubmitSeen
  <2>3. RxState(kind, m2, d2, rx_pending, rx_chan, rx_expect)
    BY <1>1, <2>2, RxSame
  <2> QED BY <1>8, <1>9, <2>3 DEF RxInv
<1>12. CASE kind # "block" /\ i = 0
  <2>1. RxShape(s)
    BY <1>1, <1>12, HasRx, RxShapeOf
  <2>2. PICK rest : rest = rx_pending \o rx_chan
    OBVIOUS
  <2>3. RxOf(kind, mem, drv, rest, rx_expect)
    BY <1>1, <1>12, <2>2, Zenon DEF RxState
  <2>4. /\ Len(s) \in Nat \ {0} /\ Room(n, drv.inflight[0], Len(s))
        /\ ch = ChainFrom(n, drv.alloc[0], Len(s)) /\ (last = "round" => Len(s) = n)
        /\ table = PutChain(n, mem[DescAt(0)], ch, s, last)
        /\ PutAvail(mem, m2, 0, n, table, ch[1]) /\ Noted(drv, d2, 0, n, ch, Len(s))
    BY <1>3, <1>4, <1>5, <1>6, <1>7, <1>9, <1>12, Zenon
  <2>5. RxOf(kind, m2, d2, rest, rx_expect)
    BY <1>1, <1>3, <1>8, <2>1, <2>3, <2>4, RxSubmits
  <2>6. RxState(kind, m2, d2, rx_pending, rx_chan, rx_expect)
    BY <1>1, <2>2, <2>5, Zenon DEF RxState
  <2> QED BY <1>8, <1>9, <2>6 DEF RxInv
<1> QED BY <1>10, <1>11, <1>12

LEMMA ConsumeRx ==
  ASSUME Inv, RxInv, NEW i \in QueuesOf(kind), Consume(i)
  PROVE  RxInv'
<1>1. /\ State(kind, t, mem, drv) /\ kind \in Kinds
      /\ RxState(kind, mem, drv, rx_pending, rx_chan, rx_expect)
  BY DEF Inv, RxInv, State
<1>2. PICK n, e, table : /\ n = QueueSize[kind] /\ e = Unseen(i)[1]
                         /\ table = Cleared(mem[DescAt(i)], drv.inflight[i][1])
  BY Zenon
<1>3. e = FirstUnseen(mem[UsedAt(i)], drv.seen[i], n)
  BY <1>2, Zenon DEF Unseen, FirstUnseen
<1>4. PICK m2, d2, exp2 : m2 = mem' /\ d2 = drv' /\ exp2 = rx_expect'
  BY Zenon
<1>5. NotedBack(drv, d2, i, e.id)
  BY <1>2, <1>4, Zenon DEF Consume, NotedBack
<1>6. m2 = [mem EXCEPT ![DescAt(i)] = table]
  BY <1>2, <1>4, Zenon DEF Consume, Cleared
<1>7. /\ drv.step > Len(SetupScript(kind)) /\ drv.seen[i] # mem[UsedAt(i)].idx
      /\ kind' = kind /\ rx_pending' = rx_pending /\ rx_chan' = rx_chan
  BY DEF Consume, Live
<1>8. exp2 = IF i = 0 /\ kind # "block" /\ e.len > 0 THEN Tail(rx_expect) ELSE rx_expect
  BY <1>2, <1>4, Zenon DEF Consume, RX_QUEUE
<1>9. CASE kind = "block"
  BY <1>7, <1>9 DEF RxInv, RxState
<1>10. CASE kind # "block" /\ i # 0
  <2>1. ConsumeSeen(kind, n, mem, drv, m2, d2, i, e, table)
    BY <1>1, <1>2, <1>3, <1>5, <1>6, <1>7, ConsumeSees
  <2>2. Same(mem, drv, m2, d2, 0)
    BY <1>1, <1>10, <2>1, HasRx, Zenon DEF ConsumeSeen
  <2>3. RxState(kind, m2, d2, rx_pending, rx_chan, rx_expect)
    BY <1>1, <2>2, RxSame
  <2>4. exp2 = rx_expect
    BY <1>8, <1>10, Zenon
  <2> QED BY <1>4, <1>7, <2>3, <2>4 DEF RxInv
<1>11. CASE kind # "block" /\ i = 0
  <2>1. PICK rest : rest = rx_pending \o rx_chan
    OBVIOUS
  <2>2. RxOf(kind, mem, drv, rest, rx_expect)
    BY <1>1, <1>11, <2>1, Zenon DEF RxState
  <2>3. /\ drv.seen[0] # mem[UsedAt(0)].idx
        /\ e = FirstUnseen(mem[UsedAt(0)], drv.seen[0], n)
        /\ table = Cleared(mem[DescAt(0)], drv.inflight[0][1])
        /\ PutTable(mem, m2, 0, table) /\ NotedBack(drv, d2, 0, e.id)
        /\ exp2 = IF e.len > 0 THEN Tail(rx_expect) ELSE rx_expect
    BY <1>2, <1>3, <1>5, <1>6, <1>7, <1>8, <1>11, Zenon DEF PutTable
  <2>4. RxOf(kind, m2, d2, rest, exp2)
    BY <1>1, <1>2, <1>7, <2>2, <2>3, RxConsumes
  <2>5. RxState(kind, m2, d2, rx_pending, rx_chan, exp2)
    BY <1>1, <2>1, <2>4, Zenon DEF RxState
  <2> QED BY <1>4, <1>7, <2>5 DEF RxInv
<1> QED BY <1>9, <1>10, <1>11

LEMMA ProcessTxRx ==
  ASSUME Inv, RxInv, ProcessTx
  PROVE  RxInv'
<1>1. /\ State(kind, t, mem, drv) /\ kind \in Kinds
      /\ RxState(kind, mem, drv, rx_pending, rx_chan, rx_expect)
      /\ busy.queue \in QueuesOf(kind) /\ IsFcn(mem)
  BY DEF Inv, RxInv, State, Busies, Memory
<1>2. PICK i, q, n, m2 : i = busy.queue /\ q = t.queues[i].queue /\ n = QueueSize[kind] /\ m2 = mem'
  BY Zenon
<1>3. /\ i \in QueuesOf(kind) /\ i # 0 /\ kind' = kind /\ drv' = drv
      /\ rx_pending' = rx_pending /\ rx_chan' = rx_chan /\ rx_expect' = rx_expect
  BY <1>1, <1>2 DEF ProcessTx, RX_QUEUE
<1>4. HasChain(q, mem) /\ m2 = PushUsed(q, mem, HeadIndex(q, mem), 0)
  BY <1>2, Zenon DEF ProcessTx, Return, Q
<1>5. SameBut(q.desc, mem, mem)
  BY <1>1 DEF SameBut
<1>6. ReturnSeen(kind, n, q, mem, mem, drv, m2, i, 0)
  BY <1>1, <1>2, <1>3, <1>4, <1>5, ReturnSees
<1>7. Same(mem, drv, m2, drv, 0)
  BY <1>1, <1>3, <1>6, HasRx, Zenon DEF ReturnSeen
<1>8. RxState(kind, m2, drv, rx_pending, rx_chan, rx_expect)
  BY <1>1, <1>7, RxSame
<1> QED BY <1>2, <1>3, <1>8 DEF RxInv

LEMMA RxDelivers ==
  ASSUME NEW k, NEW x, NEW m, NEW d, State(k, x, m, d), k # "block",
         NEW pending, NEW chan, NEW exp, RxState(k, m, d, pending, chan, exp),
         NEW q, q = x.queues[0].queue, NEW m2, NEW pending2, NEW o,
         Delivers(k, q, m, m2, pending, pending2, o), SameBut(q.desc, m, o.mem)
  PROVE  RxState(k, m2, d, pending2, chan, exp)
<1>1. PICK S : pending \in Seq(S) /\ chan \in Seq(S)
  BY Zenon DEF RxState
<1>2. PICK rest : rest = pending \o chan
  OBVIOUS
<1>3. RxOf(k, m, d, rest, exp)
  BY <1>2, Zenon DEF RxState
<1>4. /\ rest # <<>> /\ Head(rest) = Head(pending)
      /\ Tail(pending) \in Seq(S) /\ Tail(rest) = Tail(pending) \o chan
  <2>1. pending # <<>>
    BY Zenon DEF Delivers
  <2> QED BY <1>1, <1>2, <2>1, FrontOf
<1>5. PICK rest2 : rest2 = IF o.written = 0 THEN rest ELSE Tail(rest)
  OBVIOUS
<1>6. Delivers(k, q, m, m2, rest, rest2, o)
  BY <1>4, <1>5, Zenon DEF Delivers
<1>7. RxOf(k, m2, d, rest2, exp)
  BY <1>3, <1>6, RxReturns
<1>8. pending2 = IF o.written = 0 THEN pending ELSE Tail(pending)
  BY Zenon DEF Delivers
<1>9. pending2 \in Seq(S) /\ rest2 = pending2 \o chan
  <2>1. CASE o.written = 0
    BY <1>1, <1>2, <1>5, <1>8, <2>1, Zenon
  <2>2. CASE o.written # 0
    BY <1>4, <1>5, <1>8, <2>2, Zenon
  <2> QED BY <2>1, <2>2
<1> QED BY <1>1, <1>7, <1>9, Zenon DEF RxState

LEMMA DeliverRx ==
  ASSUME Inv, RxInv, DeliverNet \/ DeliverVsock
  PROVE  RxInv'
<1>1. /\ State(kind, t, mem, drv) /\ kind \in Kinds
      /\ RxState(kind, mem, drv, rx_pending, rx_chan, rx_expect) /\ IsFcn(mem)
  BY DEF Inv, RxInv, State, Memory
<1>2. PICK q, o, m2, pending2 :
        /\ q = t.queues[0].queue /\ m2 = mem' /\ pending2 = rx_pending'
        /\ o = Receives(kind, q, mem, HeadIndex(q, mem), Head(rx_pending))
  BY Zenon
<1>3. q.size \in Nat
  BY <1>1, <1>2, HasRx DEF State, Transports, QueueStates, QueueRecords, QueuesOf
<1>4. /\ kind # "block" /\ kind' = kind /\ drv' = drv /\ rx_chan' = rx_chan /\ rx_expect' = rx_expect
  BY DEF DeliverNet, DeliverVsock, hostVars
<1>5. CASE DeliverNet
  <2>1. kind = "net"
    BY <1>5 DEF DeliverNet
  <2>2. o = NetRx(q, mem, HeadIndex(q, mem), Head(rx_pending))
    BY <1>2, <2>1, Zenon DEF Receives
  <2>3. Delivers(kind, q, mem, m2, rx_pending, pending2, o)
    BY <1>2, <1>5, <2>2, Zenon DEF DeliverNet, Delivers, Q, RX_QUEUE, KeepsFrame
  <2>4. SameBut(q.desc, mem, o.mem)
    BY <1>1, <1>3, <2>2, NetRxFrame
  <2>5. RxState(kind, m2, drv, pending2, rx_chan, rx_expect)
    BY <1>1, <1>2, <1>4, <2>3, <2>4, RxDelivers
  <2> QED BY <1>2, <1>4, <2>5 DEF RxInv
<1>6. CASE DeliverVsock
  <2>1. kind = "vsock" /\ kind # "net"
    BY <1>6 DEF DeliverVsock
  <2>2. o = VsockRx(q, mem, HeadIndex(q, mem), Head(rx_pending))
    BY <1>2, <2>1, Zenon DEF Receives
  <2>3. Delivers(kind, q, mem, m2, rx_pending, pending2, o)
    BY <1>2, <1>6, <2>2, Zenon DEF DeliverVsock, Delivers, Q, RX_QUEUE, KeepsFrame
  <2>4. SameBut(q.desc, mem, o.mem)
    BY <1>1, <2>2, VsockRxFrame
  <2>5. RxState(kind, m2, drv, pending2, rx_chan, rx_expect)
    BY <1>1, <1>2, <1>4, <2>3, <2>4, RxDelivers
  <2> QED BY <1>2, <1>4, <2>5 DEF RxInv
<1> QED BY <1>5, <1>6

LEMMA HostSendsRx ==
  ASSUME Inv, RxInv, HostSends
  PROVE  RxInv'
<1>1. RxState(kind, mem, drv, rx_pending, rx_chan, rx_expect) /\ kind \in Kinds
  BY DEF Inv, RxInv, State
<1>2. PICK v, fr : /\ v = Fresh(rx_expect)
                   /\ fr = IF kind = "net" THEN <<v, v + 2>> ELSE [op |-> 5, len |-> 1, payload |-> <<v>>]
  BY Zenon
<1>3. /\ kind # "block" /\ kind' = kind /\ mem' = mem /\ drv' = drv /\ rx_pending' = rx_pending
  BY DEF HostSends
<1>4. rx_chan' = Append(rx_chan, fr) /\ rx_expect' = Append(rx_expect, fr)
  BY <1>2, Zenon DEF HostSends
<1>5. IsPacket(kind, fr)
  <2>1. CASE kind = "net"
    <3>1. PICK w : w = v + 2
      OBVIOUS
    <3>2. fr = <<v, w>>
      BY <1>2, <2>1, <3>1, Zenon
    <3>3. fr \in Seq({v, w})
      BY <3>2
    <3> QED BY <2>1, <3>3, Zenon DEF IsPacket
  <2>2. CASE kind = "vsock" /\ kind # "net"
    BY <1>2, <2>2, Zenon DEF IsPacket
  <2>3. kind = "net" \/ (kind = "vsock" /\ kind # "net")
    BY <1>1, <1>3, HasRx
  <2> QED BY <2>1, <2>2, <2>3
<1>6. PICK S : rx_pending \in Seq(S) /\ rx_chan \in Seq(S)
  BY <1>1, <1>3, Zenon DEF RxState
<1>7. PICK T : T = S \cup {fr}
  OBVIOUS
<1>8. rx_pending \in Seq(T) /\ rx_chan \in Seq(T) /\ fr \in T
  <2>1. S \subseteq T /\ fr \in T
    BY <1>7
  <2> QED BY <1>6, <2>1
<1>9. PICK rest, chan2, exp2 : /\ rest = rx_pending \o rx_chan /\ chan2 = Append(rx_chan, fr)
                               /\ exp2 = Append(rx_expect, fr)
  BY Zenon
<1>10. chan2 \in Seq(T) /\ rx_pending \o chan2 = Append(rest, fr)
  BY <1>8, <1>9, AtTheEnd
<1>11. RxOf(kind, mem, drv, rest, rx_expect)
  BY <1>1, <1>3, <1>9, Zenon DEF RxState
<1>12. RxOf(kind, mem, drv, Append(rest, fr), exp2)
  <2>1. PICK n, table, fly, r, I, L :
          /\ n = QueueSize[kind] /\ table = mem[DescAt(0)] /\ fly = drv.inflight[0]
          /\ r = Back(mem[UsedAt(0)], drv.seen[0])
          /\ I = FilledOf(mem[UsedAt(0)], drv.seen[0], QueueSize[kind])
          /\ L = Lens(mem[UsedAt(0)], drv.seen[0], QueueSize[kind])
    BY Zenon
  <2>2. RxIs(kind, n, table, fly, r, I, L, rest, rx_expect)
    BY <1>11, <2>1, Zenon DEF RxOf
  <2>3. RxIs(kind, n, table, fly, r, I, L, Append(rest, fr), Append(rx_expect, fr))
    BY <1>5, <2>2, RxSend
  <2> QED BY <1>9, <2>1, <2>3, Zenon DEF RxOf
<1>13. RxState(kind, mem, drv, rx_pending, chan2, exp2)
  BY <1>8, <1>10, <1>12, Zenon DEF RxState
<1> QED BY <1>3, <1>4, <1>9, <1>13 DEF RxInv

LEMMA StepRx ==
  ASSUME Inv, Inv', RxInv, [Next]_vars
  PROVE  RxInv'
<1>1. /\ State(kind, t, mem, drv) /\ kind \in Kinds
      /\ RxState(kind, mem, drv, rx_pending, rx_chan, rx_expect) /\ drv \in Drivers(kind)
  BY DEF Inv, RxInv, State
<1>2. drv.uses \subseteq QueuesOf(kind)
  BY <1>1 DEF Drivers
<1>3. ASSUME kind' = kind, mem' = mem, drv'.inflight = drv.inflight, drv'.seen = drv.seen,
             rx_pending' = rx_pending, rx_chan' = rx_chan, rx_expect' = rx_expect
      PROVE  RxInv'
  <2>1. PICK d2 : d2 = drv'
    OBVIOUS
  <2>2. Same(mem, drv, mem, d2, 0)
    BY <1>3, <2>1, Zenon DEF Same
  <2>3. RxState(kind, mem, d2, rx_pending, rx_chan, rx_expect)
    BY <1>1, <2>2, RxSame
  <2> QED BY <1>3, <2>1, <2>3 DEF RxInv
<1>4. ASSUME kind # "block", NEW rest, rest = rx_pending \o rx_chan
      PROVE  /\ RxOf(kind, mem, drv, rest, rx_expect) /\ Packets(kind, rest)
             /\ \E S : rest \in Seq(S) /\ rx_pending \in Seq(S) /\ rx_chan \in Seq(S)
  <2>1. PICK S : rx_pending \in Seq(S) /\ rx_chan \in Seq(S)
    BY <1>1, <1>4, Zenon DEF RxState
  <2>2. rest \in Seq(S)
    BY <1>4, <2>1, ConcatProperties
  <2>3. RxOf(kind, mem, drv, rest, rx_expect)
    BY <1>1, <1>4, Zenon DEF RxState
  <2>4. Packets(kind, rest)
    BY <2>3, RxRest DEF RxOf
  <2> QED BY <2>1, <2>2, <2>3, <2>4, Zenon
<1>5. CASE SetupWrite
  <2>1. drv'.inflight = drv.inflight /\ drv'.seen = drv.seen
    BY <1>1, <1>5 DEF SetupWrite, Drivers
  <2> QED BY <1>3, <1>5, <2>1 DEF SetupWrite, hostVars
<1>6. CASE StartOver
  <2>1. PICK x, m2, d2, rest : x = t' /\ m2 = mem' /\ d2 = drv' /\ rest = rx_pending \o rx_chan
    BY Zenon
  <2>2. /\ kind' = kind /\ m2 = FreshMemory(kind) /\ d2.step = 1
        /\ rx_expect' = rest /\ rx_pending' = rx_pending /\ rx_chan' = rx_chan
    BY <1>6, <2>1 DEF StartOver, FreshDriver
  <2>3. State(kind, x, m2, d2)
    BY <2>1, <2>2 DEF Inv
  <2>4. CASE kind = "block"
    BY <2>2, <2>4 DEF RxInv, RxState
  <2>5. CASE kind # "block"
    <3>1. PICK S : /\ rest \in Seq(S) /\ rx_pending \in Seq(S) /\ rx_chan \in Seq(S)
                   /\ Packets(kind, rest)
      BY <1>4, <2>1, <2>5
    <3>2. RxOf(kind, m2, d2, rest, rest)
      BY <2>2, <2>3, <3>1, RxFresh
    <3>3. RxState(kind, m2, d2, rx_pending, rx_chan, rest)
      BY <2>1, <3>1, <3>2, Zenon DEF RxState
    <3> QED BY <2>1, <2>2, <3>3 DEF RxInv
  <2> QED BY <2>4, <2>5
<1>7. ASSUME NEW i \in drv.uses, Submit(i) PROVE RxInv'
  BY <1>2, <1>7, SubmitRx
<1>8. ASSUME NEW i \in drv.uses, Consume(i) PROVE RxInv'
  BY <1>2, <1>8, ConsumeRx
<1>9. ASSUME NEW i \in drv.uses, Notify(i) PROVE RxInv'
  BY <1>3, <1>9 DEF Notify, hostVars
<1>10. CASE ProcessBlock
  BY <1>10 DEF ProcessBlock, RxInv, RxState
<1>11. CASE ProcessTx
  BY <1>11, ProcessTxRx
<1>12. CASE DeliverNet \/ DeliverVsock
  BY <1>12, DeliverRx
<1>13. CASE PollStart
  <2>1. PICK rest : rest = rx_pending \o rx_chan
    OBVIOUS
  <2>2. /\ kind # "block" /\ kind' = kind /\ mem' = mem /\ drv' = drv
        /\ rx_pending' = rest /\ rx_chan' = <<>> /\ rx_expect' = rx_expect
    BY <1>13, <2>1 DEF PollStart
  <2>3. PICK S : rest \in Seq(S) /\ RxOf(kind, mem, drv, rest, rx_expect)
    BY <1>4, <2>1, <2>2
  <2>4. PICK e : e = <<>>
    OBVIOUS
  <2>5. e \in Seq(S) /\ rest \o e = rest
    BY <2>3, <2>4, ConcatEmptySeq
  <2>6. RxState(kind, mem, drv, rest, e, rx_expect)
    BY <2>3, <2>5, Zenon DEF RxState
  <2> QED BY <2>2, <2>4, <2>6 DEF RxInv
<1>14. CASE HostSends
  BY <1>14, HostSendsRx
<1>15. CASE Ack \/ NotifyEnds \/ PollEnds \/ HostReceives \/ UNCHANGED vars
  <2>1. /\ kind' = kind /\ mem' = mem /\ drv' = drv
        /\ rx_pending' = rx_pending /\ rx_chan' = rx_chan /\ rx_expect' = rx_expect
    BY <1>15 DEF Ack, NotifyEnds, PollEnds, HostReceives, vars, hostVars
  <2> QED BY <1>3, <2>1
<1> QED BY <1>5, <1>6, <1>7, <1>8, <1>9, <1>10, <1>11, <1>12, <1>13, <1>14, <1>15
        DEF Next, Driver, Device

\* The filled buffers, then the rest.
Expects(exp, fly, back, filled, rest) ==
  /\ Len(exp) = Cardinality(filled) + Len(rest)
  /\ \A j \in filled :
       Arrived(exp[Cardinality({h \in filled : h <= j})], fly[j], back[j].len)
  /\ \A j \in 1..Len(rest) : exp[Cardinality(filled) + j] = rest[j]

LEMMA RxAgrees == Inv /\ RxInv => RxInOrder
<1> SUFFICES ASSUME Inv, RxInv, kind # "block" PROVE RxInOrder
  BY DEF RxInOrder
<1>1. /\ State(kind, t, mem, drv) /\ kind \in Kinds
      /\ RxState(kind, mem, drv, rx_pending, rx_chan, rx_expect)
  BY DEF Inv, RxInv, State
<1>2. 0 \in QueuesOf(kind) /\ kind \in {"net", "vsock"}
  BY <1>1, HasRx
<1>3. PICK n, q, table, fly, us, seen, r, I, L, rest :
        /\ n = QueueSize[kind] /\ q = t.queues[0].queue /\ table = mem[DescAt(0)]
        /\ fly = drv.inflight[0] /\ us = mem[UsedAt(0)] /\ seen = drv.seen[0]
        /\ r = Back(us, seen) /\ I = FilledOf(us, seen, n) /\ L = Lens(us, seen, n)
        /\ rest = rx_pending \o rx_chan
  BY Zenon
<1>4. RxIs(kind, n, table, fly, r, I, L, rest, rx_expect)
  BY <1>1, <1>3, Zenon DEF RxState, RxOf
<1>5. /\ Len(rx_expect) = Cardinality(I) + Len(rest)
      /\ \A j \in I : ArrivedIn(kind, table, fly[j], rx_expect[Cardinality({h \in I : h <= j})], L[j])
      /\ \A j \in 1..Len(rest) : rx_expect[Cardinality(I) + j] = rest[j]
  BY <1>4, RxFacts
<1>6. ~Live => r = 0
  <2>1. Sees(kind, n, q, mem, drv, 0)
    BY <1>1, <1>2, <1>3, StateSees
  <2> QED BY <1>3, <2>1, Zenon DEF Sees, Live
<1>7. PICK back : back = IF Live THEN Unseen(0) ELSE <<>>
  OBVIOUS
<1>8. \A fr, ch, len : Arrived(fr, ch, len) <=> ArrivedIn(kind, table, ch, fr, len)
  BY <1>3, Zenon DEF Arrived, ArrivedIn, RX_QUEUE
<1>9. {j \in DOMAIN back : back[j].len > 0} = I /\ \A j \in I : back[j].len = L[j]
  <2>1. CASE ~Live
    <3>1. back = <<>> /\ DOMAIN back = {}
      BY <1>7, <2>1
    <3>2. 1..r = {}
      BY <1>6, <2>1
    <3>3. I = {}
      BY <1>3, <3>2, Zenon DEF FilledOf
    <3> QED BY <3>1, <3>3, Zenon
  <2>2. CASE Live
    <3>1. back = [j \in 1..r |-> Entry(us, seen, n, j)]
      BY <1>3, <1>7, <2>2, Zenon DEF Unseen, Back, Entry
    <3>2. DOMAIN back = 1..r /\ \A j \in 1..r : back[j] = Entry(us, seen, n, j)
      BY <3>1, Zenon
    <3>3. {j \in DOMAIN back : back[j].len > 0} = I
      BY <1>3, <3>2, Zenon DEF FilledOf
    <3>4. \A j \in I : j \in 1..r
      BY <1>3, Zenon DEF FilledOf
    <3>5. \A j \in 1..r : L[j] = Entry(us, seen, n, j).len
      BY <1>3, Zenon DEF Lens
    <3> QED BY <3>2, <3>3, <3>4, <3>5, Zenon
  <2> QED BY <2>1, <2>2
<1>10. Expects(rx_expect, fly, back, I, rest)
  BY <1>5, <1>8, <1>9, Zenon DEF Expects
<1>11. Expects(rx_expect, drv.inflight[0], back, {j \in DOMAIN back : back[j].len > 0},
               rx_pending \o rx_chan)
  BY <1>3, <1>9, <1>10, Zenon
<1>12. Expects(rx_expect, drv.inflight[0], IF Live THEN Unseen(0) ELSE <<>>,
               {j \in DOMAIN (IF Live THEN Unseen(0) ELSE <<>>) :
                  (IF Live THEN Unseen(0) ELSE <<>>)[j].len > 0}, rx_pending \o rx_chan)
  BY <1>7, <1>11, Zenon
<1> QED BY <1>12, Zenon DEF Expects, RxInOrder, RX_QUEUE

\* Whatever the host sends and however the driver provides buffers (too short, in the
\* wrong direction, not mapped, in chains that do not end, or none at all) and with
\* resets: the chains that the driver has got back as used but not looked at, the
\* frames pending and those in the channel are what the host has sent and the guest
\* not seen, each once and in order.  A used chain of the network device holds its
\* frame as far as its buffers reach, and the length tells how far; one of the vsock
\* device holds it whole, unless its first buffer is not mapped (net.rs,
\* deliver_rx; vsock.rs, poll_rx).
THEOREM RxInOrderHolds == Spec => []RxInOrder
<1>1. Init => Inv /\ RxInv
  BY InitInv, InitRx
<1>2. Inv /\ RxInv /\ [Next]_vars => Inv' /\ RxInv'
  BY StepInv, StepRx
<1>3. Inv /\ RxInv => RxInOrder
  BY RxAgrees
<1> QED BY <1>1, <1>2, <1>3, PTL DEF Spec
=============================================================================
