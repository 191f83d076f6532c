-------------------------- MODULE RelayDriverProofs --------------------------
(***************************************************************************)
(* Proofs about RelayDriver: its types, and its queue under backpressure.  *)
(* The bytes of the queue are counted, the queue waits only for room, and  *)
(* it keeps messages of one size in the order of their sends.              *)
(***************************************************************************)
EXTENDS RelayDriver, FiniteSetTheorems, WellFoundedInduction, TLAPS

-----------------------------------------------------------------------------
(* The bytes of a queue.                                                   *)

LEMMA LeastExists ==
    ASSUME NEW S, S \subseteq Nat, S # {}
    PROVE  \E m \in S : \A k \in S : m <= k
<1>1. \E m \in S : \A k \in S : <<k, m>> \notin OpToRel(<, Nat)
  BY NatLessThanWellFounded, WFMin
<1>2. PICK m \in S : \A k \in S : <<k, m>> \notin OpToRel(<, Nat)
  BY <1>1
<1>3. ASSUME NEW k \in S PROVE m <= k
  <2>1. k \in Nat /\ m \in Nat
    BY <1>2
  <2>2. ~(k < m)
    BY <1>2, <2>1, Zenon DEF OpToRel
  <2> QED BY <2>1, <2>2
<1> QED BY <1>2, <1>3

\* f[i] is the length of the first i messages of q.
Sums(f, q) ==
    /\ f \in [0..Len(q) -> Nat] /\ f[0] = 0
    /\ \A i \in 1..Len(q) : f[i] = f[i - 1] + q[i].len

LEMMA SumsExist ==
    ASSUME NEW q \in Seq(OutMessage)
    PROVE  \E f : Sums(f, q) /\ f = [i \in 0..Len(q) |-> IF i = 0 THEN 0 ELSE f[i - 1] + q[i].len]
<1> DEFINE Upto(n, f) == /\ f \in [0..n -> Nat]
                         /\ f = [i \in 0..n |-> IF i = 0 THEN 0 ELSE f[i - 1] + q[i].len]
           Bad == {n \in 0..Len(q) : ~\E f : Upto(n, f)}
<1> HIDE DEF Upto
<1>1. Bad = {}
  <2> SUFFICES ASSUME Bad # {} PROVE FALSE
    OBVIOUS
  <2>1. PICK n \in Bad : \A k \in Bad : n <= k
    <3>1. Bad \subseteq Nat
      OBVIOUS
    <3> HIDE DEF Bad
    <3> QED BY <3>1, LeastExists
  <2>2. n # 0
    <3> SUFFICES ASSUME n = 0 PROVE \E f : Upto(0, f)
      BY <2>1
    <3> WITNESS [i \in 0..0 |-> 0]
    <3> QED BY DEF Upto
  <2>3. n - 1 \in 0..Len(q) /\ n - 1 \notin Bad /\ n \in 1..Len(q)
    BY <2>1, <2>2
  <2>4. PICK g : Upto(n - 1, g)
    BY <2>3
  <2>5. q[n].len \in Nat
    <3>1. q[n] \in OutMessage
      BY <2>3
    <3> QED BY <3>1 DEF OutMessage
  <2> DEFINE h == [i \in 0..n |-> IF i = n THEN g[n - 1] + q[n].len ELSE g[i]]
  <2>6. h \in [0..n -> Nat]
    <3>1. g \in [0..(n - 1) -> Nat] /\ n - 1 \in 0..(n - 1)
      BY <2>3, <2>4 DEF Upto
    <3>2. g[n - 1] + q[n].len \in Nat
      BY <2>5, <3>1
    <3>3. \A i \in 0..n : i # n => i \in 0..(n - 1)
      BY <2>3
    <3> QED BY <3>1, <3>2, <3>3
  <2>7. ASSUME NEW i \in 0..n PROVE h[i] = IF i = 0 THEN 0 ELSE h[i - 1] + q[i].len
    BY <2>3, <2>4, SMTT(30) DEF Upto
  <2>8. Upto(n, h)
    <3> HIDE DEF h
    <3> QED BY <2>6, <2>7 DEF Upto
  <2> QED BY <2>1, <2>8
<1>2. PICK f : Upto(Len(q), f)
  <2>1. Len(q) \in 0..Len(q)
    OBVIOUS
  <2> QED BY <1>1, <2>1
<1>3. f[0] = 0 /\ \A i \in 1..Len(q) : f[i] = f[i - 1] + q[i].len
  <2>1. f = [i \in 0..Len(q) |-> IF i = 0 THEN 0 ELSE f[i - 1] + q[i].len]
    BY <1>2 DEF Upto
  <2>2. Len(q) \in Nat
    OBVIOUS
  <2>3. 0 \in 0..Len(q) /\ \A i \in 1..Len(q) : i \in 0..Len(q) /\ i # 0
    BY <2>2
  <2> QED BY <2>1, <2>3
<1> QED BY <1>2, <1>3 DEF Sums, Upto

LEMMA BytesSum ==
    ASSUME NEW q \in Seq(OutMessage)
    PROVE  \E f : Sums(f, q) /\ Bytes(q) = f[Len(q)]
<1> DEFINE f == CHOOSE f : f = [i \in 0..Len(q) |-> IF i = 0 THEN 0 ELSE f[i - 1] + q[i].len]
<1>1. f = [i \in 0..Len(q) |-> IF i = 0 THEN 0 ELSE f[i - 1] + q[i].len]
  BY SumsExist
<1>2. Bytes(q) = f[Len(q)]
  BY DEF Bytes
<1> HIDE DEF f
<1>3. f[0] = 0 /\ \A i \in 1..Len(q) : f[i] = f[i - 1] + q[i].len
  BY <1>1
<1> DEFINE Bad == {i \in 0..Len(q) : f[i] \notin Nat}
<1>4. Bad = {}
  <2> SUFFICES ASSUME Bad # {} PROVE FALSE
    OBVIOUS
  <2>1. PICK n \in Bad : \A k \in Bad : n <= k
    <3>1. Bad \subseteq Nat
      OBVIOUS
    <3> HIDE DEF Bad
    <3> QED BY <3>1, LeastExists
  <2>2. n # 0
    BY <1>3, <2>1
  <2>3. n - 1 \in 0..Len(q) /\ n - 1 \notin Bad /\ n \in 1..Len(q)
    BY <2>1, <2>2
  <2>5. q[n].len \in Nat
    <3>1. q[n] \in OutMessage
      BY <2>3
    <3> QED BY <3>1 DEF OutMessage
  <2> QED BY <1>3, <2>3, <2>5
<1> QED BY <1>1, <1>2, <1>3, <1>4 DEF Sums

\* q holds the first n messages of r behind its own first a.
Holds(q, a, r, n) ==
    /\ a \in Nat /\ n \in Nat /\ a + n <= Len(q) /\ n <= Len(r)
    /\ \A i \in 1..n : r[i] = q[a + i]

LEMMA SumsAgree ==
    ASSUME NEW q \in Seq(OutMessage), NEW r \in Seq(OutMessage), NEW f, NEW g,
           Sums(f, q), Sums(g, r), NEW a, NEW n, Holds(q, a, r, n)
    PROVE  f[a + n] = f[a] + g[n]
<1> USE DEF Holds
<1> DEFINE Bad == {i \in 0..n : f[a + i] # f[a] + g[i]}
<1>1. /\ \A i \in 0..Len(q) : f[i] \in Nat
      /\ \A i \in 0..Len(r) : g[i] \in Nat
      /\ g[0] = 0 /\ Len(q) \in Nat /\ Len(r) \in Nat
  <2>1. f \in [0..Len(q) -> Nat] /\ g \in [0..Len(r) -> Nat] /\ g[0] = 0
    BY DEF Sums
  <2>2. Len(q) \in Nat /\ Len(r) \in Nat
    OBVIOUS
  <2> QED BY <2>1, <2>2
<1>2. Bad = {}
  <2> SUFFICES ASSUME Bad # {} PROVE FALSE
    OBVIOUS
  <2>1. PICK m \in Bad : \A k \in Bad : m <= k
    <3>1. Bad \subseteq Nat
      OBVIOUS
    <3> HIDE DEF Bad
    <3> QED BY <3>1, LeastExists
  <2>2. m # 0
    <3>1. f[a] \in Nat
      BY <1>1
    <3> QED BY <1>1, <2>1, <3>1
  <2>3. m \in 1..n /\ m - 1 \in 0..n /\ m - 1 \notin Bad
    BY <2>1, <2>2
  <2>4. m \in 1..Len(r) /\ a + m \in 1..Len(q) /\ (a + m) - 1 = a + (m - 1)
    BY <1>1, <2>3
  <2>5. f[a + m] = f[a + (m - 1)] + q[a + m].len /\ g[m] = g[m - 1] + r[m].len
    BY <2>4 DEF Sums
  <2>6. q[a + m].len = r[m].len /\ r[m].len \in Nat
    <3>1. r[m] \in OutMessage
      BY <2>4
    <3> QED BY <2>3, <3>1 DEF OutMessage
  <2>7. f[a + (m - 1)] = f[a] + g[m - 1]
    BY <2>3
  <2>8. f[a] \in Nat /\ g[m - 1] \in Nat
    BY <1>1, <2>3
  <2>9. f[a + m] # f[a] + g[m]
    BY <2>1
  <2> HIDE DEF Bad
  <2> QED BY <2>5, <2>6, <2>7, <2>8, <2>9, SMTT(30)
<1>3. n \in 0..n
  OBVIOUS
<1> QED BY <1>2, <1>3

\* What the first k messages of a queue hold, and what is left behind them.
LEMMA BytesSplit ==
    ASSUME NEW q \in Seq(OutMessage), NEW f, Sums(f, q), NEW k \in 0..Len(q)
    PROVE  /\ SubSeq(q, 1, k) \in Seq(OutMessage)
           /\ SubSeq(q, k + 1, Len(q)) \in Seq(OutMessage)
           /\ Bytes(SubSeq(q, 1, k)) = f[k]
           /\ f[Len(q)] = f[k] + Bytes(SubSeq(q, k + 1, Len(q)))
<1> DEFINE x == SubSeq(q, 1, k)
           y == SubSeq(q, k + 1, Len(q))
<1>1. x \in Seq(OutMessage) /\ Len(x) = k /\ \A i \in 1..k : x[i] = q[0 + i]
  OBVIOUS
<1>2. y \in Seq(OutMessage) /\ Len(y) = Len(q) - k /\ \A i \in 1..Len(y) : y[i] = q[k + i]
  OBVIOUS
<1>3. Len(q) \in Nat /\ k \in Nat /\ k <= Len(q) /\ 0 \in Nat
  OBVIOUS
<1> HIDE DEF x, y
<1>4. PICK g : Sums(g, x) /\ Bytes(x) = g[Len(x)]
  BY <1>1, BytesSum
<1>5. PICK h : Sums(h, y) /\ Bytes(y) = h[Len(y)]
  BY <1>2, BytesSum
<1>6. f[0 + k] = f[0] + g[k]
  <2>1. Holds(q, 0, x, k)
    BY <1>1, <1>3 DEF Holds
  <2> QED BY <1>1, <1>3, <1>4, <2>1, SumsAgree
<1>7. f[k + Len(y)] = f[k] + h[Len(y)]
  <2>1. Holds(q, k, y, Len(y))
    BY <1>2, <1>3 DEF Holds
  <2> QED BY <1>2, <1>3, <1>5, <2>1, SumsAgree
<1>8. f[0] = 0 /\ f[k] \in Nat /\ g[k] \in Nat
  <2>1. f \in [0..Len(q) -> Nat] /\ f[0] = 0 /\ g \in [0..k -> Nat]
    BY <1>1, <1>4 DEF Sums
  <2>2. k \in 0..Len(q) /\ k \in 0..k
    BY <1>3
  <2> QED BY <2>1, <2>2
<1>9. Bytes(x) = f[k]
  BY <1>1, <1>3, <1>4, <1>6, <1>8
<1>10. f[Len(q)] = f[k] + Bytes(y)
  <2>1. k + Len(y) = Len(q)
    BY <1>2, <1>3
  <2> QED BY <1>5, <1>7, <2>1
<1> QED BY <1>1, <1>2, <1>9, <1>10 DEF x, y

LEMMA BytesFacts ==
    ASSUME NEW q \in Seq(OutMessage), NEW m \in OutMessage
    PROVE  /\ Bytes(q) \in Nat
           /\ Bytes(<<>>) = 0
           /\ Bytes(<<m>>) = m.len
           /\ Bytes(Append(q, m)) = Bytes(q) + m.len
<1>1. Bytes(q) \in Nat
  BY BytesSum DEF Sums
<1>2. Bytes(<<>>) = 0
  <2>1. <<>> \in Seq(OutMessage) /\ Len(<<>>) = 0
    OBVIOUS
  <2> QED BY <2>1, BytesSum DEF Sums
<1>3. m.len \in Nat
  BY DEF OutMessage
<1>4. Bytes(<<m>>) = m.len
  <2> DEFINE x == <<m>>
  <2>1. x \in Seq(OutMessage) /\ Len(x) = 1 /\ x[1] = m
    OBVIOUS
  <2> HIDE DEF x
  <2>2. PICK f : Sums(f, x) /\ Bytes(x) = f[Len(x)]
    BY <2>1, BytesSum
  <2>3. 1 \in 1..Len(x) /\ 1 - 1 = 0
    BY <2>1
  <2>4. f[1] = f[1 - 1] + x[1].len /\ f[0] = 0
    BY <2>2, <2>3 DEF Sums
  <2>5. Bytes(x) = m.len
    BY <1>3, <2>1, <2>2, <2>3, <2>4
  <2> QED BY <2>5 DEF x
<1>5. Bytes(Append(q, m)) = Bytes(q) + m.len
  <2> DEFINE x == Append(q, m)
  <2>1. /\ x \in Seq(OutMessage) /\ Len(x) = Len(q) + 1 /\ x[Len(q) + 1] = m
        /\ Len(q) \in Nat /\ \A i \in 1..Len(q) : q[i] = x[0 + i]
    OBVIOUS
  <2> HIDE DEF x
  <2>2. PICK f : Sums(f, x) /\ Bytes(x) = f[Len(x)]
    BY <2>1, BytesSum
  <2>3. PICK g : Sums(g, q) /\ Bytes(q) = g[Len(q)]
    BY BytesSum
  <2>4. Len(x) \in 1..Len(x) /\ Len(x) - 1 = Len(q) /\ 0 + Len(q) = Len(q) /\ 0 \in Nat
        /\ Len(q) <= Len(x)
    BY <2>1
  <2>5. f[Len(x)] = f[Len(q)] + m.len
    <3>1. f[Len(x)] = f[Len(x) - 1] + x[Len(x)].len
      BY <2>2, <2>4 DEF Sums
    <3> QED BY <2>1, <2>4, <3>1
  <2>6. f[0 + Len(q)] = f[0] + g[Len(q)]
    <3>1. Holds(x, 0, q, Len(q))
      BY <2>1, <2>4 DEF Holds
    <3> QED BY <2>1, <2>2, <2>3, <3>1, SumsAgree
  <2>7. f[0] = 0 /\ g[Len(q)] \in Nat
    BY <2>2, <2>3, <2>1 DEF Sums
  <2>8. Bytes(x) = Bytes(q) + m.len
    BY <2>2, <2>3, <2>4, <2>5, <2>6, <2>7
  <2> QED BY <2>8 DEF x
<1> QED BY <1>1, <1>2, <1>4, <1>5

\* A set of positions that holds all positions below its own is an interval.
LEMMA DownwardClosed ==
    ASSUME NEW n \in Nat, NEW R, R \subseteq 1..n, \A k \in R : \A j \in 1..k : j \in R
    PROVE  Cardinality(R) \in 0..n /\ R = 1..Cardinality(R)
<1> DEFINE m == Cardinality(R)
<1>1. IsFiniteSet(1..n) /\ Cardinality(1..n) = n
  <2>1. 1 \in Int /\ n \in Int /\ (1 > n => n = 0) /\ n - 1 + 1 = n
    OBVIOUS
  <2> QED BY <2>1, FS_Interval
<1>2. IsFiniteSet(R) /\ m <= n
  <2>1. R \in SUBSET (1..n)
    OBVIOUS
  <2>2. IsFiniteSet(R) /\ m <= Cardinality(1..n)
    BY <1>1, <2>1, FS_Subset
  <2> QED BY <1>1, <2>2
<1>3. m \in Nat
  BY <1>2, FS_CardinalityType
<1>4. m + 1 \notin R
  <2> SUFFICES ASSUME m + 1 \in R PROVE FALSE
    OBVIOUS
  <2>1. 1..(m + 1) \subseteq R
    OBVIOUS
  <2>2. Cardinality(1..(m + 1)) <= m
    BY <1>2, <2>1, FS_Subset
  <2>3. Cardinality(1..(m + 1)) = m + 1
    <3>1. m + 1 \in Int /\ 1 <= m + 1
      BY <1>3
    <3> HIDE DEF m
    <3> QED BY <3>1, FS_Interval
  <2> HIDE DEF m
  <2> QED BY <1>3, <2>2, <2>3
<1>5. R \subseteq 1..m
  <2> SUFFICES ASSUME NEW k \in R, k \notin 1..m PROVE FALSE
    OBVIOUS
  <2>1. k \in 1..n /\ m + 1 \in 1..k
    <3> HIDE DEF m
    <3> QED BY <1>3
  <2> QED BY <1>4, <2>1
<1>6. IsFiniteSet(1..m) /\ Cardinality(1..m) = m
  <2> HIDE DEF m
  <2> QED BY <1>3, FS_Interval
<1>7. R = 1..m
  BY <1>5, <1>6, FS_Subset
<1> HIDE DEF m
<1> QED BY <1>2, <1>3, <1>7 DEF m

\* flushQueue takes as many messages as the engine has room for, and stops
\* at one it has no room for.
LEMMA FlushStops ==
    ASSUME NEW c, c.queue \in Seq(OutMessage), c.free \in Nat
    PROVE  LET k == Cardinality(Fitting(c)) IN
           /\ k \in 0..Len(c.queue)
           /\ Bytes(SubSeq(c.queue, 1, k)) <= c.free
           /\ k < Len(c.queue) =>
                  c.queue[k + 1].len > c.free - Bytes(SubSeq(c.queue, 1, k))
<1> DEFINE q == c.queue
           R == Fitting(c)
           k == Cardinality(R)
<1>1. PICK f : Sums(f, q) /\ Bytes(q) = f[Len(q)]
  BY BytesSum
<1>2. Len(q) \in Nat /\ (\A i \in 0..Len(q) : f[i] \in Nat) /\ f[0] = 0
  <2>1. Len(q) \in Nat /\ f \in [0..Len(q) -> Nat] /\ f[0] = 0
    BY <1>1 DEF Sums
  <2> QED BY <2>1
<1>3. \A i \in 0..Len(q) : Bytes(SubSeq(q, 1, i)) = f[i]
  BY <1>1, BytesSplit
<1>4. ASSUME NEW i \in 0..Len(q), NEW j \in 0..i PROVE f[j] <= f[i]
  <2> DEFINE y == SubSeq(q, j + 1, i)
  <2>1. y \in Seq(OutMessage) /\ Len(y) = i - j /\ \A l \in 1..Len(y) : y[l] = q[j + l]
    <3>1. /\ q \in Seq(OutMessage) /\ i \in Nat /\ j \in Nat /\ j <= i /\ i <= Len(q)
          /\ Len(q) \in Nat
      BY <1>2
    <3> HIDE DEF q
    <3>2. CASE j = i
      BY <3>1, <3>2
    <3>3. CASE j < i
      BY <3>1, <3>3
    <3> QED BY <3>1, <3>2, <3>3
  <2> HIDE DEF y
  <2>2. PICK g : Sums(g, y)
    BY <2>1, BytesSum
  <2>3. Holds(q, j, y, i - j)
    BY <1>2, <2>1 DEF Holds
  <2>4. f[j + (i - j)] = f[j] + g[i - j]
    BY <1>1, <2>1, <2>2, <2>3, SumsAgree
  <2>5. g[i - j] \in Nat
    <3>1. i - j \in 0..Len(y) /\ g \in [0..Len(y) -> Nat]
      BY <1>2, <2>1, <2>2 DEF Sums
    <3> QED BY <3>1
  <2>6. j + (i - j) = i /\ f[j] \in Nat
    BY <1>2
  <2> QED BY <2>4, <2>5, <2>6
<1>5. R = {i \in 1..Len(q) : f[i] <= c.free}
  BY <1>2, <1>3 DEF Fitting
<1>6. R \subseteq 1..Len(q)
  BY <1>5
<1>7. ASSUME NEW i \in R, NEW j \in 1..i PROVE j \in R
  <2>1. i \in 0..Len(q) /\ j \in 0..i /\ j \in 1..Len(q) /\ f[i] <= c.free
    BY <1>2, <1>5
  <2>2. f[j] <= f[i] /\ f[j] \in Nat /\ f[i] \in Nat
    BY <1>2, <1>4, <2>1
  <2> QED BY <1>5, <2>1, <2>2
<1> HIDE DEF R
<1>8. k \in 0..Len(q) /\ R = 1..k
  BY <1>2, <1>6, <1>7, DownwardClosed
<1> HIDE DEF k
<1>9. f[k] <= c.free
  <2>1. CASE k = 0
    BY <1>2, <2>1
  <2>2. CASE k # 0
    <3>1. k \in R
      BY <1>2, <1>8, <2>2
    <3> QED BY <1>5, <3>1
  <2> QED BY <2>1, <2>2
<1>10. ASSUME k < Len(q) PROVE q[k + 1].len > c.free - f[k]
  <2>1. k + 1 \in 1..Len(q) /\ k + 1 \notin R /\ (k + 1) - 1 = k
    BY <1>2, <1>8, <1>10
  <2>2. ~(f[k + 1] <= c.free) /\ f[k + 1] \in Nat /\ f[k] \in Nat
    BY <1>2, <1>5, <1>8, <2>1
  <2>3. f[k + 1] = f[k] + q[k + 1].len
    BY <1>1, <2>1 DEF Sums
  <2>4. q[k + 1].len \in Nat
    <3>1. q[k + 1] \in OutMessage
      BY <2>1
    <3> QED BY <3>1 DEF OutMessage
  <2> QED BY <2>2, <2>3, <2>4
<1>11. Bytes(SubSeq(q, 1, k)) = f[k]
  BY <1>3, <1>8
<1> QED BY <1>8, <1>9, <1>10, <1>11 DEF k, R

-----------------------------------------------------------------------------
(* What the operations do to the queue.                                    *)

\* The connection is well typed and the queue is accounted for.
Accounts(c) ==
    /\ c \in Connection
    /\ c.queuedBytes = Bytes(c.queue) /\ c.queuedBytes <= MaxQueuedBytes
    /\ c.queue # <<>> => Policy = "queue" /\ ~c.closed

\* The first message of the queue does not fit.
Waits(c) == c.queue # <<>> => Head(c.queue).len > c.free

Sound(c) == Accounts(c) /\ Waits(c)

LEMMA MessagesInType ==
    ASSUME NEW kinds, NEW k \in Nat
    PROVE  MessagesIn(kinds, k) \in Nat
<1> DEFINE S == {j \in 1..k : kinds[j] = "Message"}
<1>1. IsFiniteSet(1..k) /\ S \in SUBSET (1..k)
  <2>1. 1 \in Int /\ k \in Int
    OBVIOUS
  <2> QED BY <2>1, FS_Interval
<1>2. IsFiniteSet(S)
  BY <1>1, FS_Subset
<1> QED BY <1>2, FS_CardinalityType DEF MessagesIn

LEMMA NumberedType ==
    ASSUME NEW kinds \in Seq(Kinds), NEW n \in Nat
    PROVE  Numbered(kinds, n) \in Seq(Event) /\ Len(Numbered(kinds, n)) = Len(kinds)
<1>1. DOMAIN kinds = 1..Len(kinds) /\ Len(kinds) \in Nat
  OBVIOUS
<1>2. ASSUME NEW i \in 1..Len(kinds)
      PROVE  [kind |-> kinds[i], id |-> IF kinds[i] = "Message" THEN n + MessagesIn(kinds, i) ELSE 0]
                 \in Event
  <2>1. i \in Nat /\ kinds[i] \in Kinds
    OBVIOUS
  <2>2. n + MessagesIn(kinds, i) \in Nat
    BY <2>1, MessagesInType
  <2> QED BY <2>1, <2>2 DEF Event
<1> QED BY <1>1, <1>2 DEF Numbered

LEMMA EngineTyped ==
    ASSUME NEW c \in Connection, NEW ev \in Seq(Event), NEW produced \in Nat,
           NEW up \in BOOLEAN, NEW done \in BOOLEAN, NEW free \in Nat,
           NEW lib \in Nat \cup {NoTime}
    PROVE  [c EXCEPT !.ev = ev, !.produced = produced, !.up = up, !.done = done,
                     !.free = free, !.lib = lib] \in Connection
BY ZenonT(60) DEF Connection

LEMMA ReactAccounts ==
    ASSUME NEW c, Accounts(c), NEW r \in Reaction, now \in Nat
    PROVE  Accounts(React(c, r))
<1>0. c \in Connection
  BY DEF Accounts
<1> CASE c.done
  BY DEF React
<1> CASE ~c.done
  <2>1. r.events \in Seq(Kinds) /\ r.ack \in BOOLEAN /\ r.delay \in Nat
    BY DEF Reaction
  <2>2. c.ev \in Seq(Event) /\ c.produced \in Nat /\ c.up \in BOOLEAN /\ c.free \in Nat
    BY <1>0 DEF Connection
  <2>3. c.ev \o Numbered(r.events, c.produced) \in Seq(Event)
    BY <2>1, <2>2, NumberedType
  <2>4. c.produced + MessagesIn(r.events, Len(r.events)) \in Nat
    BY <2>1, <2>2, MessagesInType
  <2> DEFINE ev == c.ev \o Numbered(r.events, c.produced)
             produced == c.produced + MessagesIn(r.events, Len(r.events))
             up == c.up \/ Has(r, "Opened")
             done == Has(r, "Closed")
             free == IF r.ack THEN Cap ELSE c.free
             lib == now + r.delay
             d == React(c, r)
  <2>5. up \in BOOLEAN /\ done \in BOOLEAN
    BY DEF Has
  <2>6. free \in Nat /\ lib \in Nat \cup {NoTime}
    BY <2>1, <2>2, DriverAssumption, SMTT(30)
  <2>7. d = [c EXCEPT !.ev = ev, !.produced = produced, !.up = up, !.done = done,
                      !.free = free, !.lib = lib]
    BY DEF React
  <2> HIDE DEF d, ev, produced, up, done, free, lib
  <2>8. d \in Connection
    <3>1. ev \in Seq(Event) /\ produced \in Nat
      BY <2>3, <2>4 DEF ev, produced
    <3> QED BY <1>0, <2>5, <2>6, <2>7, <3>1, EngineTyped, ZenonT(60)
  <2>9. d.queue = c.queue /\ d.queuedBytes = c.queuedBytes /\ d.closed = c.closed
    BY <1>0, <2>7 DEF Connection
  <2> QED BY <2>8, <2>9 DEF Accounts, d
<1> QED OBVIOUS

LEMMA EndSound ==
    ASSUME NEW c, Accounts(c)
    PROVE  Accounts(End(c)) /\ (Waits(c) => Waits(End(c)))
<1> DEFINE d == End(c)
<1>0. c \in Connection
  BY DEF Accounts
<1>1. Append(c.ev, [kind |-> "Closed", id |-> 0]) \in Seq(Event)
  <2>1. [kind |-> "Closed", id |-> 0] \in Event /\ c.ev \in Seq(Event)
    BY <1>0 DEF Event, Kinds, Connection
  <2> QED BY <2>1
<1>2. /\ d \in Connection /\ d.queue = c.queue /\ d.queuedBytes = c.queuedBytes
      /\ d.closed = c.closed /\ d.free = c.free
  <2>1. CASE c.done
    BY <1>0, <2>1 DEF End
  <2>2. CASE ~c.done
    <3> DEFINE ev == Append(c.ev, [kind |-> "Closed", id |-> 0])
    <3>1. d = [c EXCEPT !.ev = ev, !.done = TRUE]
      BY <2>2 DEF End
    <3> HIDE DEF ev, d
    <3>2. d \in Connection
      BY <1>0, <1>1, <3>1, ZenonT(60) DEF Connection, ev
    <3> QED BY <1>0, <3>1, <3>2, ZenonT(60) DEF Connection
  <2> QED BY <2>1, <2>2
<1> HIDE DEF d
<1>4. Accounts(d)
  BY <1>2 DEF Accounts
<1>5. Waits(c) => Waits(d)
  BY <1>2 DEF Waits
<1> QED BY <1>4, <1>5 DEF d

LEMMA TickAccounts ==
    ASSUME NEW c, Accounts(c), NEW r \in Reaction, now \in Nat
    PROVE  Accounts(EngineTick(c, r))
<1> DEFINE q == [r EXCEPT !.ack = FALSE]
<1>1. q \in Reaction
  BY DEF Reaction
<1> HIDE DEF q
<1>2. Accounts(React(c, q))
  BY <1>1, ReactAccounts
<1>3. Accounts(End(React(c, q)))
  BY <1>2, EndSound
<1> QED BY <1>2, <1>3 DEF EngineTick, q

\* Messages the engine has room for are taken, and room is all they cost.
LEMMA EngineSendAccounts ==
    ASSUME NEW c, Accounts(c), NEW q \in Seq(OutMessage), Bytes(q) <= c.free, now \in Nat
    PROVE  LET d == EngineSend(c, q) IN
           /\ Accounts(d) /\ (Waits(c) => Waits(d))
           /\ d.queue = c.queue /\ d.queuedBytes = c.queuedBytes /\ d.free = c.free - Bytes(q)
<1> CASE q = <<>>
  <2>1. EngineSend(c, q) = c
    BY DEF EngineSend
  <2>2. Bytes(q) = 0 /\ c.free \in Nat
    <3>1. [id |-> 0, len |-> 0] \in OutMessage
      BY DEF OutMessage
    <3> QED BY <3>1, BytesFacts DEF Accounts, Connection
  <2> QED BY <2>1, <2>2
<1> CASE q # <<>>
  <2> DEFINE datagrams == [i \in DOMAIN q |-> [kind |-> "Datagram", id |-> 0]]
             ids == [i \in DOMAIN q |-> q[i].id]
             d == EngineSend(c, q)
  <2>1. DOMAIN q = 1..Len(q) /\ Len(q) \in Nat
    OBVIOUS
  <2>2. datagrams \in Seq(Event)
    <3>1. [kind |-> "Datagram", id |-> 0] \in Event
      BY DEF Event, Kinds
    <3> QED BY <2>1, <3>1
  <2>3. ids \in Seq(Nat)
    <3>1. \A i \in 1..Len(q) : q[i] \in OutMessage
      OBVIOUS
    <3>2. \A i \in 1..Len(q) : q[i].id \in Nat
      BY <3>1 DEF OutMessage
    <3> QED BY <2>1, <3>2
  <2>4. /\ c.ev \in Seq(Event) /\ c.accepted \in Seq(Nat) /\ c.free \in Nat
        /\ c.lib \in Nat \cup {NoTime}
    BY DEF Accounts, Connection
  <2>5. Bytes(q) \in Nat /\ c.free - Bytes(q) \in Nat
    <3>1. [id |-> 0, len |-> 0] \in OutMessage
      BY DEF OutMessage
    <3>2. Bytes(q) \in Nat
      BY <3>1, BytesFacts
    <3> QED BY <2>4, <3>2
  <2>6. Earlier(c.lib, now + Rto) \in Nat \cup {NoTime}
    BY <2>4, DriverAssumption DEF Earlier, NoTime
  <2>7. d = [c EXCEPT !.free = c.free - Bytes(q), !.ev = c.ev \o datagrams,
                      !.accepted = c.accepted \o ids, !.lib = Earlier(c.lib, now + Rto)]
    BY DEF EngineSend
  <2> HIDE DEF datagrams, ids, d
  <2>8. c.ev \o datagrams \in Seq(Event) /\ c.accepted \o ids \in Seq(Nat)
    BY <2>2, <2>3, <2>4
  <2>9. d \in Connection
    BY <2>5, <2>6, <2>7, <2>8, ZenonT(60) DEF Accounts, Connection
  <2>10. /\ d.queue = c.queue /\ d.queuedBytes = c.queuedBytes /\ d.closed = c.closed
         /\ d.free = c.free - Bytes(q)
    BY <2>7 DEF Accounts, Connection
  <2>11. Accounts(d)
    BY <2>9, <2>10 DEF Accounts
  <2>12. Waits(c) => Waits(d)
    <3>1. c.queue # <<>> => Head(c.queue).len \in Nat
      <4>1. c.queue \in Seq(OutMessage)
        BY DEF Accounts, Connection
      <4>2. c.queue # <<>> => Head(c.queue) \in OutMessage
        BY <4>1
      <4> QED BY <4>2 DEF OutMessage
    <3> QED BY <2>4, <2>5, <2>10, <3>1 DEF Waits
  <2> QED BY <2>10, <2>11, <2>12 DEF d
<1> QED OBVIOUS

-----------------------------------------------------------------------------
(* finish, schedule, flushQueue and pump.                                  *)

LEMMA QueueTyped ==
    ASSUME NEW c \in Connection, NEW q \in Seq(OutMessage), NEW n \in Nat, NEW d,
           d = [c EXCEPT !.queue = q, !.queuedBytes = n]
    PROVE  d \in Connection
BY ZenonT(60) DEF Connection

LEMMA EmptyQueue ==
    ASSUME NEW c, c.queue = <<>>, c.queuedBytes = 0, c \in Connection
    PROVE  Sound(c)
<1>1. Bytes(<<>>) = 0
  <2>1. [id |-> 0, len |-> 0] \in OutMessage /\ <<>> \in Seq(OutMessage)
    BY DEF OutMessage
  <2> QED BY <2>1, BytesFacts
<1>2. 0 <= MaxQueuedBytes
  BY DriverAssumption
<1> QED BY <1>1, <1>2 DEF Sound, Accounts, Waits

LEMMA FinishSound ==
    ASSUME NEW c, Sound(c)
    PROVE  Sound(Finish(c))
<1>0. c \in Connection
  BY DEF Sound, Accounts
<1> DEFINE r == [c EXCEPT !.closed = TRUE, !.timer = NoTime, !.queue = <<>>,
                          !.queuedBytes = 0, !.socket = "closed", !.disposes = @ + 1]
           told == [r EXCEPT !.onCloses = @ + 1]
           refused == [r EXCEPT !.promise = Settle(@, "rejected")]
<1>1. r \in Connection /\ r.queue = <<>> /\ r.queuedBytes = 0
  <2>1. c.disposes + 1 \in Nat
    BY <1>0, SMTT(30) DEF Connection
  <2> DEFINE n == c.disposes + 1
  <2>2. r = [c EXCEPT !.closed = TRUE, !.timer = NoTime, !.queue = <<>>,
                      !.queuedBytes = 0, !.socket = "closed", !.disposes = n]
    OBVIOUS
  <2>3. /\ <<>> \in Seq(OutMessage) /\ TRUE \in BOOLEAN /\ NoTime \in Nat \cup {NoTime}
        /\ 0 \in Nat /\ "closed" \in {"none", "open", "closed"} /\ n \in Nat
    BY <2>1
  <2> HIDE DEF r, n
  <2>4. r \in Connection
    BY <1>0, <2>2, <2>3, ZenonT(60) DEF Connection
  <2> QED BY <1>0, <2>2, <2>4, ZenonT(60) DEF Connection
<1> HIDE DEF r
<1>2. told \in Connection /\ told.queue = <<>> /\ told.queuedBytes = 0
  <2>1. r.onCloses + 1 \in Nat
    BY <1>1 DEF Connection
  <2> QED BY <1>1, <2>1, ZenonT(60) DEF Connection
<1>3. refused \in Connection /\ refused.queue = <<>> /\ refused.queuedBytes = 0
  <2>1. Settle(r.promise, "rejected") \in {"pending", "resolved", "rejected"}
    BY <1>1 DEF Connection, Settle
  <2> QED BY <1>1, <2>1 DEF Connection
<1>4. Sound(told) /\ Sound(refused)
  BY <1>2, <1>3, EmptyQueue
<1>5. Finish(c) = IF c.closed THEN c ELSE IF c.opened THEN told ELSE refused
  BY DEF Finish, r
<1> HIDE DEF told, refused
<1> QED BY <1>4, <1>5

LEMMA ScheduleAccounts ==
    ASSUME NEW c, Accounts(c)
    PROVE  /\ Accounts(Schedule(c))
           /\ Schedule(c).queue = c.queue /\ Schedule(c).closed = c.closed
<1>0. c \in Connection
  BY DEF Accounts
<1>1. NextDeadline(c) \in Nat \cup {NoTime}
  BY <1>0, DriverAssumption DEF NextDeadline, Earlier, NoTime, Connection
<1> DEFINE d == [c EXCEPT !.timer = NextDeadline(c)]
<1>2. d \in Connection
  BY <1>0, <1>1 DEF Connection
<1>3. d.queue = c.queue /\ d.queuedBytes = c.queuedBytes /\ d.closed = c.closed
  BY <1>0 DEF Connection
<1> HIDE DEF d
<1>4. Accounts(d)
  BY <1>2, <1>3 DEF Accounts
<1>5. Schedule(c) = d \/ Schedule(c) = c
  BY DEF Schedule, d
<1> QED BY <1>3, <1>4, <1>5

\* After a flush the first message of the queue does not fit.
LEMMA FlushQueueSound ==
    ASSUME NEW c, Accounts(c), now \in Nat
    PROVE  Sound(FlushQueue(c))
<1>0. c \in Connection /\ c.queue \in Seq(OutMessage) /\ c.free \in Nat /\ c.queuedBytes \in Nat
  BY DEF Accounts, Connection
<1> DEFINE k == Cardinality(Fitting(c))
           flushed == SubSeq(c.queue, 1, k)
           rest == SubSeq(c.queue, k + 1, Len(c.queue))
           e == EngineSend(c, flushed)
<1>1. CASE c.done \/ ~c.up
  <2> DEFINE d == [c EXCEPT !.queue = <<>>, !.queuedBytes = 0]
  <2>1. FlushQueue(c) = d
    BY <1>1 DEF FlushQueue
  <2>2. d \in Connection /\ d.queue = <<>> /\ d.queuedBytes = 0
    <3>1. <<>> \in Seq(OutMessage) /\ 0 \in Nat
      OBVIOUS
    <3>2. d = [c EXCEPT !.queue = <<>>, !.queuedBytes = 0]
      OBVIOUS
    <3> HIDE DEF d
    <3>3. d \in Connection
      BY <1>0, <3>1, <3>2, QueueTyped
    <3> QED BY <1>0, <3>2, <3>3 DEF Connection
  <2> HIDE DEF d
  <2> QED BY <2>1, <2>2, EmptyQueue
<1>2. CASE ~(c.done \/ ~c.up)
  <2>1. /\ k \in 0..Len(c.queue) /\ Bytes(flushed) <= c.free
        /\ k < Len(c.queue) => c.queue[k + 1].len > c.free - Bytes(flushed)
    BY <1>0, FlushStops
  <2>2. PICK f : Sums(f, c.queue) /\ Bytes(c.queue) = f[Len(c.queue)]
    BY <1>0, BytesSum
  <2>3. /\ flushed \in Seq(OutMessage) /\ rest \in Seq(OutMessage)
        /\ Bytes(c.queue) = Bytes(flushed) + Bytes(rest)
    <3> HIDE DEF k
    <3> QED BY <1>0, <2>1, <2>2, BytesSplit
  <2>4. Bytes(flushed) \in Nat /\ Bytes(rest) \in Nat
    <3>1. [id |-> 0, len |-> 0] \in OutMessage
      BY DEF OutMessage
    <3> HIDE DEF flushed, rest
    <3> QED BY <2>3, <3>1, BytesFacts
  <2>5. /\ Accounts(e) /\ e.queue = c.queue /\ e.queuedBytes = c.queuedBytes
        /\ e.free = c.free - Bytes(flushed)
    <3> HIDE DEF flushed
    <3> QED BY <2>1, <2>3, EngineSendAccounts
  <2> DEFINE n == c.queuedBytes - Bytes(flushed)
             d == [e EXCEPT !.queue = rest, !.queuedBytes = n]
  <2>6. FlushQueue(c) = d
    <3>1. FlushQueue(c) = [e EXCEPT !.queue = SubSeq(@, k + 1, Len(@)),
                                    !.queuedBytes = @ - Bytes(flushed)]
      BY <1>2 DEF FlushQueue
    <3> QED BY <2>5, <3>1
  <2>7. n \in Nat /\ n = Bytes(rest) /\ n <= MaxQueuedBytes
    <3>1. c.queuedBytes = Bytes(flushed) + Bytes(rest) /\ c.queuedBytes <= MaxQueuedBytes
      BY <2>3 DEF Accounts
    <3> HIDE DEF flushed, rest
    <3> QED BY <2>4, <3>1, DriverAssumption
  <2> HIDE DEF n, e
  <2>8. d \in Connection /\ d.queue = rest /\ d.queuedBytes = n /\ d.closed = e.closed /\ d.free = e.free
    <3>1. e \in Connection
      BY <2>5 DEF Accounts
    <3>2. rest \in Seq(OutMessage) /\ n \in Nat
      BY <2>3, <2>7
    <3> HIDE DEF rest
    <3>3. d = [e EXCEPT !.queue = rest, !.queuedBytes = n]
      OBVIOUS
    <3> HIDE DEF d
    <3>4. d \in Connection
      BY <3>1, <3>2, <3>3, QueueTyped
    <3> QED BY <3>1, <3>3, <3>4 DEF Connection
  <2>9. rest # <<>> => c.queue # <<>> /\ k < Len(c.queue) /\ Head(rest) = c.queue[k + 1]
    <3> HIDE DEF k
    <3>1. CASE k = Len(c.queue)
      BY <1>0, <3>1
    <3>2. CASE k # Len(c.queue)
      <4>1. k \in Nat /\ k < Len(c.queue) /\ Len(c.queue) \in Nat
        BY <1>0, <2>1, <3>2
      <4>2. Len(rest) = Len(c.queue) - k /\ rest[1] = c.queue[k + 1]
        BY <1>0, <4>1
      <4>3. c.queue # <<>>
        BY <1>0, <4>1
      <4> HIDE DEF rest
      <4> QED BY <2>3, <4>1, <4>2, <4>3
    <3> QED BY <3>1, <3>2
  <2> HIDE DEF d, rest, flushed, k
  <2>10. Accounts(d)
    BY <2>5, <2>7, <2>8, <2>9 DEF Accounts
  <2>11. Waits(d)
    BY <2>1, <2>5, <2>8, <2>9 DEF Waits
  <2> QED BY <2>6, <2>10, <2>11 DEF Sound
<1> QED BY <1>1, <1>2

LEMMA FramesTyped ==
    ASSUME NEW c, Accounts(c), NEW f \in Seq(Frame)
    PROVE  LET d == [c EXCEPT !.frames = f] IN
           Accounts(d) /\ (Waits(c) => Waits(d)) /\ d.frames = f
<1> DEFINE d == [c EXCEPT !.frames = f]
<1>0. c \in Connection
  BY DEF Accounts
<1>1. d \in Connection /\ d.frames = f
  BY <1>0 DEF Connection
<1>2. d.queue = c.queue /\ d.queuedBytes = c.queuedBytes /\ d.closed = c.closed /\ d.free = c.free
  BY <1>0 DEF Connection
<1> HIDE DEF d
<1>3. Accounts(d)
  BY <1>1, <1>2 DEF Accounts
<1>4. Waits(c) => Waits(d)
  BY <1>2 DEF Waits
<1> QED BY <1>1, <1>3, <1>4 DEF d

\* pump leaves nothing in the queue that would fit.
LEMMA PumpSound ==
    ASSUME NEW c, Accounts(c), NEW after \in {"none", "settle", "close"}, now \in Nat
    PROVE  Sound(Pump(c, after))
<1> DEFINE flushed == IF Policy = "queue" THEN FlushQueue(Schedule(c)) ELSE Schedule(c)
           frame == [batch |-> <<>>, more |-> TRUE, after |-> after]
<1>1. CASE c.closed
  <2>1. Pump(c, after) = c
    BY <1>1 DEF Pump
  <2>2. Waits(c)
    BY <1>1 DEF Accounts, Waits
  <2> QED BY <2>1, <2>2 DEF Sound
<1>2. CASE ~c.closed
  <2>1. Accounts(Schedule(c))
    BY ScheduleAccounts
  <2>2. Sound(flushed)
    <3>1. CASE Policy = "queue"
      BY <2>1, <3>1, FlushQueueSound
    <3>2. CASE Policy # "queue"
      <4>1. Waits(Schedule(c))
        BY <2>1, <3>2 DEF Accounts, Waits
      <4> QED BY <2>1, <3>2, <4>1 DEF Sound
    <3> QED BY <3>1, <3>2
  <2>3. Pump(c, after) = [flushed EXCEPT !.frames = <<frame>> \o flushed.frames]
    BY <1>2 DEF Pump
  <2> HIDE DEF flushed
  <2>4. <<frame>> \o flushed.frames \in Seq(Frame)
    <3>1. frame \in Frame
      BY DEF Frame
    <3>2. flushed.frames \in Seq(Frame)
      BY <2>2 DEF Sound, Accounts, Connection
    <3> HIDE DEF frame
    <3> QED BY <3>1, <3>2
  <2> QED BY <2>2, <2>3, <2>4, FramesTyped, ZenonT(60) DEF Sound
<1> QED BY <1>1, <1>2

LEMMA Carried ==
    ASSUME NEW c, NEW d, d \in Connection, d.queue = c.queue, d.queuedBytes = c.queuedBytes,
           d.closed = c.closed, d.free = c.free
    PROVE  (Accounts(c) => Accounts(d)) /\ (Sound(c) => Sound(d))
BY DEF Sound, Accounts, Waits

LEMMA SettleTyped ==
    ASSUME NEW c, Sound(c), NEW how \in {"resolved", "rejected"}
    PROVE  Sound([c EXCEPT !.promise = Settle(@, how)])
<1> DEFINE d == [c EXCEPT !.promise = Settle(@, how)]
<1>0. c \in Connection
  BY DEF Sound, Accounts
<1>1. Settle(c.promise, how) \in {"pending", "resolved", "rejected"}
  BY <1>0 DEF Connection, Settle
<1>2. d \in Connection
  BY <1>0, <1>1 DEF Connection
<1>3. d.queue = c.queue /\ d.queuedBytes = c.queuedBytes /\ d.closed = c.closed /\ d.free = c.free
  BY <1>0 DEF Connection
<1> HIDE DEF d
<1>4. Sound(d)
  BY <1>2, <1>3, Carried
<1> QED BY <1>4 DEF d

LEMMA ReturnSound ==
    ASSUME NEW c, Sound(c), c.frames # <<>>
    PROVE  Sound(Return(c))
<1> DEFINE popped == [c EXCEPT !.frames = Tail(@)]
<1>0. c \in Connection /\ Accounts(c)
  BY DEF Sound, Accounts
<1>1. Tail(c.frames) \in Seq(Frame)
  BY <1>0 DEF Connection
<1>2. Sound(popped)
  BY <1>0, <1>1, FramesTyped DEF Sound
<1> HIDE DEF popped
<1>3. /\ Sound(Finish(popped))
      /\ Sound([popped EXCEPT !.promise = Settle(@, "resolved")])
      /\ Sound([popped EXCEPT !.promise = Settle(@, "rejected")])
  BY <1>2, FinishSound, SettleTyped
<1> QED BY <1>2, <1>3 DEF Return, popped

-----------------------------------------------------------------------------
(* The handle.                                                             *)

LEMMA SchedulePumpSound ==
    ASSUME NEW c, Sound(c), now \in Nat
    PROVE  Sound(SchedulePump(c))
<1> DEFINE d == [c EXCEPT !.outboundScheduled = TRUE, !.tasks = @ \cup {"send"}]
<1>0. c \in Connection
  BY DEF Sound, Accounts
<1>1. Sound(Pump(c, "none"))
  BY PumpSound DEF Sound
<1>2. c.tasks \cup {"send"} \in SUBSET {"input", "send"} /\ TRUE \in BOOLEAN
  BY <1>0 DEF Connection
<1>3. d \in Connection
  <2> DEFINE tasks == c.tasks \cup {"send"}
  <2>1. d = [c EXCEPT !.outboundScheduled = TRUE, !.tasks = tasks]
    OBVIOUS
  <2>2. tasks \in SUBSET {"input", "send"}
    BY <1>2
  <2> HIDE DEF tasks, d
  <2> QED BY <1>0, <1>2, <2>1, <2>2, ZenonT(60) DEF Connection
<1>4. d.queue = c.queue /\ d.queuedBytes = c.queuedBytes /\ d.closed = c.closed /\ d.free = c.free
  BY <1>0 DEF Connection
<1> HIDE DEF d
<1>5. Sound(d)
  BY <1>3, <1>4, Carried
<1> QED BY <1>1, <1>5 DEF SchedulePump, d

LEMMA HandleSendSound ==
    ASSUME NEW c, Sound(c), NEW len \in Sizes, now \in Nat
    PROVE  Sound(HandleSend(c, len))
<1> DEFINE m == [id |-> c.sends + 1, len |-> len]
           called == [c EXCEPT !.sends = @ + 1]
<1>0. c \in Connection /\ Accounts(c) /\ len \in Nat
  BY DriverAssumption DEF Sound, Accounts
<1>1. c.sends + 1 \in Nat /\ c.refusedSends + 1 \in Nat /\ c.free \in Nat
      /\ c.queuedBytes \in Nat /\ c.queue \in Seq(OutMessage)
  BY <1>0, SMTT(30) DEF Connection
<1>2. m \in OutMessage /\ m.len = len
  BY <1>0, <1>1 DEF OutMessage
<1>3. called \in Connection
  BY <1>0, <1>1 DEF Connection
<1>4. /\ called.queue = c.queue /\ called.queuedBytes = c.queuedBytes
      /\ called.closed = c.closed /\ called.free = c.free /\ called.refusedSends = c.refusedSends
  BY <1>0 DEF Connection
<1> HIDE DEF called, m
<1>5. Sound(called)
  BY <1>3, <1>4, Carried
<1>6. ASSUME SendResult(c, len) = "Accepted"
      PROVE  Sound(SchedulePump(EngineSend(called, <<m>>)))
  <2>1. len <= c.free
    BY <1>0, <1>1, <1>6 DEF SendResult
  <2>2. Bytes(<<m>>) = len
    BY <1>1, <1>2, BytesFacts
  <2>3. <<m>> \in Seq(OutMessage) /\ Bytes(<<m>>) <= called.free
    BY <1>2, <1>4, <2>1, <2>2
  <2>4. Sound(EngineSend(called, <<m>>))
    BY <1>5, <2>3, EngineSendAccounts DEF Sound
  <2> QED BY <2>4, SchedulePumpSound
<1>7. ASSUME ~c.closed, SendResult(c, len) = "Backpressure",
             Policy = "queue", c.queuedBytes + len <= MaxQueuedBytes
      PROVE  Sound(Enqueue(called, m))
  <2> DEFINE q == Append(c.queue, m)
             n == c.queuedBytes + len
             d == Enqueue(called, m)
  <2>1. d = [called EXCEPT !.queue = q, !.queuedBytes = n]
    BY <1>2, <1>4 DEF Enqueue
  <2>2. q \in Seq(OutMessage) /\ n \in Nat
    BY <1>0, <1>1, <1>2
  <2>3. n = Bytes(q)
    <3>1. Bytes(q) = Bytes(c.queue) + m.len
      BY <1>1, <1>2, BytesFacts
    <3> QED BY <1>0, <1>2, <3>1 DEF Accounts
  <2>4. len > c.free
    BY <1>0, <1>1, <1>7 DEF SendResult
  <2>5. Head(q).len > c.free
    <3>1. CASE c.queue = <<>>
      <4>1. Head(q) = m
        BY <1>1, <1>2, <3>1
      <4> QED BY <1>2, <2>4, <4>1
    <3>2. CASE c.queue # <<>>
      <4>1. Head(q) = Head(c.queue)
        BY <1>1, <1>2, <3>2
      <4> QED BY <3>2, <4>1 DEF Sound, Waits
    <3> QED BY <3>1, <3>2
  <2> HIDE DEF d, q, n
  <2>6. d \in Connection
    BY <1>3, <2>1, <2>2, QueueTyped
  <2>7. d.queue = q /\ d.queuedBytes = n /\ d.closed = c.closed /\ d.free = c.free
    <3>1. d.queue = q /\ d.queuedBytes = n /\ d.closed = called.closed /\ d.free = called.free
      BY <1>3, <2>1 DEF Connection
    <3> QED BY <1>4, <3>1
  <2>8. Accounts(d)
    <3>1. n <= MaxQueuedBytes
      BY <1>7 DEF n
    <3> QED BY <1>7, <2>3, <2>6, <2>7, <3>1 DEF Accounts
  <2>9. Waits(d)
    BY <2>5, <2>7 DEF Waits
  <2> QED BY <2>8, <2>9 DEF Sound, d
<1>8. Sound([called EXCEPT !.refusedSends = @ + 1])
  <2> DEFINE d == [called EXCEPT !.refusedSends = @ + 1]
  <2>1. d \in Connection
    BY <1>1, <1>3, <1>4 DEF Connection
  <2>2. d.queue = called.queue /\ d.queuedBytes = called.queuedBytes
        /\ d.closed = called.closed /\ d.free = called.free
    BY <1>3 DEF Connection
  <2> HIDE DEF d
  <2>3. Sound(d)
    BY <1>5, <2>1, <2>2, Carried
  <2> QED BY <2>3 DEF d
<1> QED BY <1>5, <1>6, <1>7, <1>8 DEF HandleSend, called, m

LEMMA HandleCloseSound ==
    ASSUME NEW c, Sound(c), now \in Nat
    PROVE  Sound(HandleClose(c))
<1>1. Accounts(End(c))
  BY EndSound DEF Sound
<1>2. Sound(Pump(End(c), "close"))
  BY <1>1, PumpSound
<1> QED BY <1>2 DEF HandleClose

-----------------------------------------------------------------------------
(* The steps.                                                              *)

Inv == Sound(s) /\ now \in Nat /\ inputs \in Nat

LEMMA TopTyped ==
    ASSUME Inv, Running
    PROVE  /\ s \in Connection /\ Accounts(s) /\ s.frames \in Seq(Frame) /\ 1 \in 1..Len(s.frames)
           /\ Top = s.frames[1] /\ Top \in Frame /\ Top.batch \in Seq(Event)
<1>1. s \in Connection /\ Accounts(s)
  BY DEF Inv, Sound, Accounts
<1>2. s.frames \in Seq(Frame) /\ s.frames # <<>>
  BY <1>1 DEF Connection, Running
<1>3. 1 \in 1..Len(s.frames) /\ Top = s.frames[1] /\ Top \in Frame
  BY <1>2 DEF Top
<1>4. Top.batch \in Seq(Event)
  BY <1>3 DEF Frame
<1> QED BY <1>1, <1>2, <1>3, <1>4

LEMMA TakenSound ==
    ASSUME Inv, Running, Top.batch # <<>>
    PROVE  /\ Sound(Taken)
           /\ Taken = [s EXCEPT !.frames = [@ EXCEPT ![1] = [Top EXCEPT !.batch = Tail(Top.batch)]]]
<1> DEFINE f == [Top EXCEPT !.batch = Tail(Top.batch)]
           fs == [s.frames EXCEPT ![1] = f]
<1>1. f \in Frame
  <2>1. Tail(Top.batch) \in Seq(Event)
    BY TopTyped
  <2> QED BY TopTyped, <2>1 DEF Frame
<1>2. fs \in Seq(Frame)
  <2> HIDE DEF f
  <2> QED BY <1>1, TopTyped
<1>3. Taken = [s EXCEPT !.frames = fs]
  BY TopTyped DEF Taken
<1>4. Sound([s EXCEPT !.frames = fs])
  <2> HIDE DEF fs
  <2> QED BY <1>2, TopTyped, FramesTyped DEF Inv, Sound
<1> QED BY <1>3, <1>4

LEMMA ApplyEventSound ==
    ASSUME Inv, ApplyEvent
    PROVE  Sound(s')
<1> DEFINE e == Head(Top.batch)
           T == Taken
<1>1. Running /\ Top.batch # <<>>
  BY DEF ApplyEvent
<1>2. Sound(T) /\ T \in Connection /\ e \in Event
  <2>1. e \in Event
    BY <1>1, TopTyped
  <2> QED BY <1>1, <2>1, TakenSound DEF Sound, Accounts
<1>3. e.kind \in Kinds /\ e.id \in Nat
  BY <1>2 DEF Event
<1> HIDE DEF T, e
<1>4. Sound(Finish(s)) /\ Finish(s).frames # <<>>
  <2>1. Sound(Finish(s))
    BY FinishSound DEF Inv
  <2>2. Finish(s).frames = s.frames
    BY <1>1, TopTyped DEF Finish, Connection
  <2> QED BY <1>1, <2>1, <2>2 DEF Running
<1>5. Sound(ApplyClosed(s))
  BY <1>4, ReturnSound DEF ApplyClosed
<1>6. Sound([T EXCEPT !.opened = TRUE, !.onOpens = @ + 1, !.promise = Settle(@, "resolved")])
  <2> DEFINE n == T.onOpens + 1
             p == Settle(T.promise, "resolved")
             d == [T EXCEPT !.opened = TRUE, !.onOpens = n, !.promise = p]
  <2>1. n \in Nat /\ p \in {"pending", "resolved", "rejected"} /\ TRUE \in BOOLEAN
    BY <1>2 DEF Connection, Settle
  <2> HIDE DEF n, p
  <2>2. d \in Connection
    BY <1>2, <2>1, ZenonT(60) DEF Connection
  <2>3. d.queue = T.queue /\ d.queuedBytes = T.queuedBytes /\ d.closed = T.closed /\ d.free = T.free
    BY <1>2 DEF Connection
  <2> HIDE DEF d
  <2>4. Sound(d)
    BY <1>2, <2>2, <2>3, Carried
  <2> QED BY <2>4 DEF d, n, p
<1> DEFINE P == [T EXCEPT !.packets = Append(@, e.id)]
<1>7. Sound(P)
  <2>1. Append(T.packets, e.id) \in Seq(Nat)
    <3>1. T.packets \in Seq(Nat)
      BY <1>2 DEF Connection
    <3> QED BY <1>3, <3>1
  <2>2. P \in Connection
    BY <1>2, <2>1 DEF Connection
  <2>3. P.queue = T.queue /\ P.queuedBytes = T.queuedBytes /\ P.closed = T.closed /\ P.free = T.free
    BY <1>2 DEF Connection
  <2> HIDE DEF P
  <2> QED BY <1>2, <2>2, <2>3, Carried
<1> HIDE DEF P
<1>8. \A d \in AfterPacket(P) : Sound(d)
  BY <1>7, HandleSendSound, HandleCloseSound DEF AfterPacket, Inv
<1>9. CASE e.kind = "Datagram"
  BY <1>2, <1>9 DEF ApplyEvent, e, T
<1>10. CASE e.kind = "Opened"
  BY <1>2, <1>6, <1>10 DEF ApplyEvent, e, T
<1>11. CASE e.kind = "Message"
  BY <1>8, <1>11 DEF ApplyEvent, e, T, P
<1>12. CASE e.kind = "Closed"
  BY <1>5, <1>12 DEF ApplyEvent, e
<1> QED BY <1>3, <1>9, <1>10, <1>11, <1>12 DEF Kinds

LEMMA DrainEventsSound ==
    ASSUME Inv, DrainEvents
    PROVE  Sound(s')
<1> DEFINE n == IF BatchMode THEN EventBatchSize ELSE 1
           taken == IF s.closed THEN <<>>
                    ELSE SubSeq(s.ev, 1, IF n < Len(s.ev) THEN n ELSE Len(s.ev))
           ev == SubSeq(s.ev, Len(taken) + 1, Len(s.ev))
           misused == IF s.closed THEN s.misused \cup {"pollEvent"} ELSE s.misused
           drained == [s EXCEPT !.ev = ev, !.misused = misused]
           f == [Top EXCEPT !.batch = taken, !.more = FullBatch(taken, n)]
<1>1. Running /\ s \in Connection
  BY TopTyped DEF DrainEvents
<1>2. s.ev \in Seq(Event) /\ n \in Nat
  BY <1>1, DriverAssumption DEF Connection
<1>3. taken \in Seq(Event)
  <2> HIDE DEF n
  <2> QED BY <1>2
<1>4. ev \in Seq(Event)
  <2> HIDE DEF taken
  <2> QED BY <1>2, <1>3
<1>5. misused \in SUBSET {"stats", "pollEvent"}
  BY <1>1 DEF Connection
<1>6. /\ s' = IF taken = <<>> THEN Return(drained)
             ELSE [drained EXCEPT !.frames[1] = [@ EXCEPT !.batch = taken, !.more = FullBatch(taken, n)]]
  BY DEF DrainEvents
<1> HIDE DEF ev, misused, n, taken
<1>7. drained \in Connection /\ drained.frames = s.frames /\ drained.closed = s.closed
      /\ drained.queue = s.queue /\ drained.queuedBytes = s.queuedBytes /\ drained.free = s.free
  BY <1>1, <1>4, <1>5 DEF Connection
<1> HIDE DEF drained
<1>8. Sound(drained)
  BY <1>7, Carried DEF Inv
<1>9. Sound(Return(drained))
  BY <1>1, <1>7, <1>8, ReturnSound DEF Running
<1>10. f \in Frame
  <2>1. Top \in Frame /\ FullBatch(taken, n) \in BOOLEAN
    BY <1>1, TopTyped DEF FullBatch
  <2> DEFINE full == FullBatch(taken, n)
  <2>2. f = [Top EXCEPT !.batch = taken, !.more = full]
    OBVIOUS
  <2> HIDE DEF full, f
  <2> QED BY <1>3, <2>1, <2>2 DEF Frame, full
<1> DEFINE fs == [s.frames EXCEPT ![1] = f]
<1>11. fs \in Seq(Frame)
  <2> HIDE DEF f
  <2> QED BY <1>1, <1>10, TopTyped
<1>12. [drained EXCEPT !.frames[1] = [@ EXCEPT !.batch = taken, !.more = FullBatch(taken, n)]]
       = [drained EXCEPT !.frames = fs]
  BY <1>1, <1>7, TopTyped
<1>13. Sound([drained EXCEPT !.frames = fs])
  <2> HIDE DEF fs
  <2> QED BY <1>8, <1>11, FramesTyped DEF Sound
<1> QED BY <1>6, <1>9, <1>12, <1>13

LEMMA SetUpSound ==
    ASSUME Inv, NEW ok \in BOOLEAN, Bind(ok) \/ CreateEngine(ok)
    PROVE  Sound(s')
<1>0. s \in Connection /\ Accounts(s) /\ now \in Nat
  BY DEF Inv, Sound, Accounts
<1>1. CASE Bind(ok)
  <2> DEFINE d == [s EXCEPT !.phase = "create", !.socket = "open"]
             x == [s EXCEPT !.phase = "failed", !.promise = "rejected"]
  <2>1. d \in Connection /\ x \in Connection
    BY <1>0, ZenonT(60) DEF Connection
  <2>2. d.queue = s.queue /\ d.queuedBytes = s.queuedBytes /\ d.closed = s.closed /\ d.free = s.free
    BY <1>0 DEF Connection
  <2>3. x.queue = s.queue /\ x.queuedBytes = s.queuedBytes /\ x.closed = s.closed /\ x.free = s.free
    BY <1>0 DEF Connection
  <2>4. s' = d \/ s' = x
    BY <1>1 DEF Bind
  <2> HIDE DEF d, x
  <2> QED BY <2>1, <2>2, <2>3, <2>4, Carried DEF Inv
<1>2. CASE CreateEngine(ok)
  <2> DEFINE d == [s EXCEPT !.phase = "running", !.lib = now]
             x == [s EXCEPT !.phase = "failed", !.socket = "closed", !.promise = "rejected"]
  <2>1. d \in Connection /\ x \in Connection
    BY <1>0, ZenonT(60) DEF Connection
  <2>2. d.queue = s.queue /\ d.queuedBytes = s.queuedBytes /\ d.closed = s.closed /\ d.free = s.free
    BY <1>0 DEF Connection
  <2>3. x.queue = s.queue /\ x.queuedBytes = s.queuedBytes /\ x.closed = s.closed /\ x.free = s.free
    BY <1>0 DEF Connection
  <2>4. s' = IF ok THEN Pump(d, "settle") ELSE x
    BY <1>2 DEF CreateEngine
  <2> HIDE DEF d, x
  <2>5. Accounts(d) /\ Sound(x)
    BY <1>0, <2>1, <2>2, <2>3, Carried DEF Inv
  <2>6. Sound(Pump(d, "settle"))
    BY <1>0, <2>5, PumpSound
  <2> QED BY <2>4, <2>5, <2>6
<1> QED BY <1>1, <1>2

LEMMA InputSound ==
    ASSUME Inv, NEW r \in Reactions, OnMessage(r) \/ InputFlush(r)
    PROVE  Sound(s')
<1>0. s \in Connection /\ Accounts(s) /\ now \in Nat /\ r \in Reaction
  BY DriverAssumption DEF Inv, Sound, Accounts
<1>1. CASE OnMessage(r)
  <2> DEFINE n == s.inbound + 1
             tasks == s.tasks \cup {"input"}
             later == [s EXCEPT !.inbound = n]
             first == [s EXCEPT !.inbound = n, !.inboundScheduled = TRUE, !.tasks = tasks]
  <2>1. n \in Nat /\ tasks \in SUBSET {"input", "send"}
    BY <1>0 DEF Connection
  <2>2. s' = IF s.closed THEN s ELSE IF ~InputBatch THEN Pump(React(s, r), "none")
             ELSE IF s.inboundScheduled THEN later ELSE first
    BY <1>1 DEF OnMessage
  <2> HIDE DEF n, tasks
  <2>3. later \in Connection
    BY <1>0, <2>1 DEF Connection
  <2>4. first \in Connection
    BY <1>0, <2>1, Zenon DEF Connection
  <2>5. /\ later.queue = s.queue /\ later.queuedBytes = s.queuedBytes
        /\ later.closed = s.closed /\ later.free = s.free
    BY <1>0 DEF Connection
  <2>6. /\ first.queue = s.queue /\ first.queuedBytes = s.queuedBytes
        /\ first.closed = s.closed /\ first.free = s.free
    BY <1>0 DEF Connection
  <2> HIDE DEF later, first
  <2>7. Sound(later) /\ Sound(first)
    BY <2>3, <2>4, <2>5, <2>6, Carried DEF Inv
  <2>8. Sound(Pump(React(s, r), "none"))
    BY <1>0, ReactAccounts, PumpSound
  <2> QED BY <2>2, <2>7, <2>8 DEF Inv
<1>2. CASE InputFlush(r)
  <2> DEFINE tasks == s.tasks \ {"input"}
             started == [s EXCEPT !.inboundScheduled = FALSE, !.tasks = tasks]
             fed == [started EXCEPT !.inbound = 0]
  <2>1. tasks \in SUBSET {"input", "send"}
    BY <1>0 DEF Connection
  <2>2. s' = IF s.closed \/ s.inbound = 0 THEN started ELSE Pump(React(fed, r), "none")
    BY <1>2 DEF InputFlush
  <2> HIDE DEF tasks
  <2>3. started \in Connection
    BY <1>0, <2>1, Zenon DEF Connection
  <2>4. /\ started.queue = s.queue /\ started.queuedBytes = s.queuedBytes
        /\ started.closed = s.closed /\ started.free = s.free
    BY <1>0 DEF Connection
  <2> HIDE DEF started
  <2>5. fed \in Connection
    BY <2>3 DEF Connection
  <2>6. /\ fed.queue = started.queue /\ fed.queuedBytes = started.queuedBytes
        /\ fed.closed = started.closed /\ fed.free = started.free
    BY <2>3 DEF Connection
  <2> HIDE DEF fed
  <2>7. Sound(started) /\ Accounts(started)
    BY <2>3, <2>4, <1>0, Carried DEF Inv
  <2>8. Accounts(fed)
    BY <2>5, <2>6, <2>7, Carried
  <2>9. Sound(Pump(React(fed, r), "none"))
    BY <1>0, <2>8, ReactAccounts, PumpSound
  <2> QED BY <2>2, <2>7, <2>9
<1> QED BY <1>1, <1>2

LEMMA SendFlushSound ==
    ASSUME Inv, SendFlush
    PROVE  Sound(s')
<1> DEFINE tasks == s.tasks \ {"send"}
           d == [s EXCEPT !.outboundScheduled = FALSE, !.tasks = tasks]
<1>0. s \in Connection /\ Accounts(s) /\ now \in Nat
  BY DEF Inv, Sound, Accounts
<1>1. tasks \in SUBSET {"input", "send"}
  BY <1>0 DEF Connection
<1>2. s' = Pump(d, "none")
  BY DEF SendFlush
<1> HIDE DEF tasks
<1>3. d \in Connection
  BY <1>0, <1>1, Zenon DEF Connection
<1>4. d.queue = s.queue /\ d.queuedBytes = s.queuedBytes /\ d.closed = s.closed /\ d.free = s.free
  BY <1>0 DEF Connection
<1> HIDE DEF d
<1>5. Accounts(d)
  BY <1>0, <1>3, <1>4, Carried
<1> QED BY <1>0, <1>2, <1>5, PumpSound

LEMMA TimerFireSound ==
    ASSUME Inv, NEW r \in Reactions, TimerFire(r)
    PROVE  Sound(s')
<1> DEFINE d == [s EXCEPT !.timer = NoTime]
<1>0. s \in Connection /\ Accounts(s) /\ now \in Nat /\ r \in Reaction
  BY DriverAssumption DEF Inv, Sound, Accounts
<1>1. d \in Connection
  BY <1>0 DEF Connection
<1>2. d.queue = s.queue /\ d.queuedBytes = s.queuedBytes /\ d.closed = s.closed /\ d.free = s.free
  BY <1>0 DEF Connection
<1>3. s' = Pump(EngineTick(d, r), "none")
  BY DEF TimerFire
<1> HIDE DEF d
<1>4. Accounts(d)
  BY <1>0, <1>1, <1>2, Carried
<1> QED BY <1>0, <1>3, <1>4, TickAccounts, PumpSound

LEMMA HostSound ==
    ASSUME Inv, OnError \/ Awaken \/ (\E len \in Sizes : Send(len)) \/ Close \/ Stats \/ Advance
    PROVE  Sound(s')
<1>0. s \in Connection /\ Accounts(s) /\ Sound(s) /\ now \in Nat
  BY DEF Inv, Sound, Accounts
<1>1. CASE OnError
  BY <1>0, <1>1, FinishSound DEF OnError
<1>2. CASE Awaken
  <2>1. s' = [s EXCEPT !.handle = TRUE]
    BY <1>2 DEF Awaken
  <2>2. s' \in Connection
    BY <1>0, <2>1, TRUE \in BOOLEAN, ZenonT(60) DEF Connection
  <2>3. s'.queue = s.queue /\ s'.queuedBytes = s.queuedBytes /\ s'.closed = s.closed /\ s'.free = s.free
    BY <1>0, <2>1 DEF Connection
  <2> QED BY <1>0, <2>2, <2>3, Carried
<1>3. CASE \E len \in Sizes : Send(len)
  BY <1>0, <1>3, HandleSendSound DEF Send
<1>4. CASE Close
  BY <1>0, <1>4, HandleCloseSound DEF Close
<1>5. CASE Stats
  <2> DEFINE m == IF s.disposes > 0 THEN s.misused \cup {"stats"} ELSE s.misused
  <2>1. s' = [s EXCEPT !.misused = m]
    BY <1>5 DEF Stats
  <2>2. m \in SUBSET {"stats", "pollEvent"}
    BY <1>0 DEF Connection
  <2> HIDE DEF m
  <2>3. s' \in Connection
    BY <1>0, <2>1, <2>2, ZenonT(60) DEF Connection
  <2>4. s'.queue = s.queue /\ s'.queuedBytes = s.queuedBytes /\ s'.closed = s.closed /\ s'.free = s.free
    BY <1>0, <2>1 DEF Connection
  <2> QED BY <1>0, <2>3, <2>4, Carried
<1>6. CASE Advance
  BY <1>0, <1>6 DEF Advance
<1> QED BY <1>1, <1>2, <1>3, <1>4, <1>5, <1>6

LEMMA NextSound ==
    ASSUME Inv, Next
    PROVE  Inv'
<1>1. Sound(s')
  <2>1. CASE ApplyEvent
    BY <2>1, ApplyEventSound
  <2>2. CASE DrainEvents
    BY <2>2, DrainEventsSound
  <2>3. CASE PumpReturns
    BY <2>3, ReturnSound DEF PumpReturns, Running, Inv
  <2>4. CASE \E ok \in BOOLEAN : Bind(ok) \/ CreateEngine(ok)
    BY <2>4, SetUpSound
  <2>5. CASE \E r \in Reactions : OnMessage(r) \/ InputFlush(r)
    BY <2>5, InputSound
  <2>6. CASE SendFlush
    BY <2>6, SendFlushSound
  <2>7. CASE \E r \in Reactions : TimerFire(r)
    BY <2>7, TimerFireSound
  <2>8. CASE OnError \/ Awaken \/ (\E len \in Sizes : Send(len)) \/ Close \/ Stats \/ Advance
    BY <2>8, HostSound
  <2> QED BY <2>1, <2>2, <2>3, <2>4, <2>5, <2>6, <2>7, <2>8 DEF Next
<1>2. now' \in Nat /\ inputs' \in Nat
  <2>1. now \in Nat /\ inputs \in Nat
    BY DEF Inv
  <2>2. now' = now \/ now' = now + 1
    BY DEF Next, ApplyEvent, DrainEvents, PumpReturns, Bind, CreateEngine, OnMessage, InputFlush,
           SendFlush, TimerFire, OnError, Awaken, Send, Close, Stats, Advance, Task
  <2>3. inputs' = inputs \/ inputs' = inputs + 1
    BY DEF Next, ApplyEvent, DrainEvents, PumpReturns, Bind, CreateEngine, OnMessage, InputFlush,
           SendFlush, TimerFire, OnError, Awaken, Send, Close, Stats, Advance, Task
  <2> QED BY <2>1, <2>2, <2>3
<1> QED BY <1>1, <1>2 DEF Inv

LEMMA InitSound ==
    ASSUME Init
    PROVE  Inv
<1>1. s \in Connection /\ s.queue = <<>> /\ s.queuedBytes = 0
  BY DriverAssumption DEF Init, Connection
<1> QED BY <1>1, EmptyQueue DEF Inv, Init

LEMMA Invariant == Spec => []Inv
<1>1. Inv /\ UNCHANGED vars => Inv'
  BY DEF Inv, vars
<1> QED BY InitSound, NextSound, <1>1, PTL DEF Spec

-----------------------------------------------------------------------------
(* The order of the messages.                                              *)

\* What the engine has accepted, then what waits in the queue.
Ids(q) == [i \in DOMAIN q |-> q[i].id]
Line(c) == c.accepted \o Ids(c.queue)

\* The line is in the order of the calls of send, and all its messages have
\* one size: none can overtake another at a full engine.
Ordered(c) ==
    /\ Increasing(Line(c))
    /\ \A i \in DOMAIN Line(c) : Line(c)[i] <= c.sends
    /\ \A i \in DOMAIN c.queue : c.queue[i].len \in Sizes

Joined(w, a, q) == a \in Seq(Nat) /\ q \in Seq(OutMessage) /\ w = a \o Ids(q)

LEMMA LineFacts ==
    ASSUME NEW a, NEW q, NEW w, Joined(w, a, q)
    PROVE  /\ w \in Seq(Nat) /\ Len(w) = Len(a) + Len(q) /\ DOMAIN w = 1..(Len(a) + Len(q))
           /\ \A i \in 1..Len(a) : w[i] = a[i]
           /\ \A i \in 1..Len(q) : w[Len(a) + i] = q[i].id
<1> USE DEF Joined
<1>1. DOMAIN q = 1..Len(q) /\ Len(q) \in Nat /\ Len(a) \in Nat
  OBVIOUS
<1>2. \A i \in 1..Len(q) : q[i].id \in Nat
  <2>1. \A i \in 1..Len(q) : q[i] \in OutMessage
    OBVIOUS
  <2> QED BY <2>1 DEF OutMessage
<1> DEFINE ids == Ids(q)
<1>3. ids \in Seq(Nat) /\ Len(ids) = Len(q) /\ \A i \in 1..Len(q) : ids[i] = q[i].id
  BY <1>1, <1>2 DEF Ids
<1>0. w = a \o ids /\ a \in Seq(Nat)
  OBVIOUS
<1> HIDE DEF ids, Joined
<1>4. w \in Seq(Nat) /\ Len(w) = Len(a) + Len(q)
  <2>1. ids \in Seq(Nat)
    BY <1>3
  <2>2. w \in Seq(Nat)
    BY <1>0, <2>1
  <2>3. Len(w) = Len(a) + Len(ids)
    BY <1>0, <2>1
  <2> QED BY <1>3, <2>2, <2>3
<1>5. DOMAIN w = 1..(Len(a) + Len(q))
  BY <1>4
<1>6. \A i \in 1..Len(a) : w[i] = a[i]
  BY <1>0, <1>1, <1>3
<1>7. ASSUME NEW i \in 1..Len(q) PROVE w[Len(a) + i] = ids[i]
  BY <1>0, <1>1, <1>3
<1> QED BY <1>3, <1>4, <1>5, <1>6, <1>7

Alike(c, d) == d.accepted = c.accepted /\ d.queue = c.queue /\ d.sends = c.sends

LEMMA SameOrdered ==
    ASSUME NEW c, NEW d, Ordered(c), Alike(c, d)
    PROVE  Ordered(d)
BY DEF Ordered, Line, Alike

LEMMA EmptiedOrdered ==
    ASSUME NEW c \in Connection, NEW d, Ordered(c),
           d.accepted = c.accepted, d.queue = <<>>, d.sends = c.sends
    PROVE  Ordered(d)
<1>1. c.accepted \in Seq(Nat) /\ c.queue \in Seq(OutMessage)
  BY DEF Connection
<1> DEFINE a == c.accepted
           v == Line(c)
           w == Line(d)
<1>2. /\ Len(a) \in Nat /\ Len(c.queue) \in Nat /\ DOMAIN v = 1..(Len(a) + Len(c.queue))
      /\ \A i \in 1..Len(a) : v[i] = a[i]
  <2>1. Joined(v, a, c.queue) /\ Len(a) \in Nat /\ Len(c.queue) \in Nat
    BY <1>1 DEF Line, Joined
  <2> HIDE DEF v, a
  <2> QED BY <2>1, LineFacts
<1>3. DOMAIN w = 1..Len(a) /\ \A i \in 1..Len(a) : w[i] = a[i]
  <2>1. <<>> \in Seq(OutMessage) /\ Len(<<>>) = 0
    OBVIOUS
  <2>2. Joined(w, a, <<>>)
    BY <1>1, <2>1 DEF Line, Joined
  <2> HIDE DEF w, a
  <2>3. DOMAIN w = 1..(Len(a) + 0) /\ \A i \in 1..Len(a) : w[i] = a[i]
    BY <2>1, <2>2, LineFacts
  <2> QED BY <1>2, <2>3
<1> HIDE DEF v, w, a
<1>4. DOMAIN w \subseteq DOMAIN v /\ \A i \in DOMAIN w : w[i] = v[i]
  BY <1>2, <1>3
<1>5. Increasing(w)
  BY <1>4 DEF Ordered, Increasing, v
<1>6. \A i \in DOMAIN w : w[i] <= d.sends
  BY <1>4 DEF Ordered, v
<1>7. \A i \in DOMAIN d.queue : d.queue[i].len \in Sizes
  OBVIOUS
<1> QED BY <1>5, <1>6, <1>7 DEF Ordered, w

LEMMA EngineSendOrder ==
    ASSUME NEW c \in Connection, NEW q \in Seq(OutMessage)
    PROVE  LET d == EngineSend(c, q) IN
           d.accepted = c.accepted \o Ids(q) /\ d.queue = c.queue /\ d.sends = c.sends
<1>0. c.accepted \in Seq(Nat)
  BY DEF Connection
<1>1. CASE q = <<>>
  <2>1. Ids(q) = <<>>
    BY <1>1 DEF Ids
  <2> QED BY <1>0, <1>1, <2>1 DEF EngineSend
<1>2. CASE q # <<>>
  <2> DEFINE free == c.free - Bytes(q)
             ev == c.ev \o [i \in DOMAIN q |-> [kind |-> "Datagram", id |-> 0]]
             accepted == c.accepted \o Ids(q)
             lib == Earlier(c.lib, now + Rto)
             d == EngineSend(c, q)
  <2>1. d = [c EXCEPT !.free = free, !.ev = ev, !.accepted = accepted, !.lib = lib]
    BY <1>2 DEF EngineSend, Ids
  <2> HIDE DEF d, ev, accepted, free, lib
  <2>2. d.accepted = accepted /\ d.queue = c.queue /\ d.sends = c.sends
    BY <2>1 DEF Connection
  <2> QED BY <2>2 DEF d, accepted
<1> QED BY <1>1, <1>2

\* A flush moves the front of the queue to the end of what was accepted.
LEMMA FlushQueueOrdered ==
    ASSUME NEW c, Accounts(c), now \in Nat, Ordered(c)
    PROVE  Ordered(FlushQueue(c))
<1>0. /\ c \in Connection /\ c.queue \in Seq(OutMessage) /\ c.free \in Nat
      /\ c.accepted \in Seq(Nat)
  BY DEF Accounts, Connection
<1> DEFINE k == Cardinality(Fitting(c))
           flushed == SubSeq(c.queue, 1, k)
           rest == SubSeq(c.queue, k + 1, Len(c.queue))
           e == EngineSend(c, flushed)
<1>1. CASE c.done \/ ~c.up
  <2> DEFINE d == [c EXCEPT !.queue = <<>>, !.queuedBytes = 0]
  <2>1. FlushQueue(c) = d
    BY <1>1 DEF FlushQueue
  <2>2. d.queue = <<>> /\ d.accepted = c.accepted /\ d.sends = c.sends
    BY <1>0 DEF Connection
  <2> HIDE DEF d
  <2> QED BY <1>0, <2>1, <2>2, EmptiedOrdered
<1>2. CASE ~(c.done \/ ~c.up)
  <2>1. k \in 0..Len(c.queue) /\ Bytes(flushed) <= c.free
    BY <1>0, FlushStops
  <2> HIDE DEF k
  <2>2. /\ flushed \in Seq(OutMessage) /\ Len(flushed) = k
        /\ \A i \in 1..k : flushed[i] = c.queue[i]
    BY <1>0, <2>1
  <2>3. /\ rest \in Seq(OutMessage) /\ Len(rest) = Len(c.queue) - k
        /\ \A i \in 1..(Len(c.queue) - k) : rest[i] = c.queue[k + i]
    BY <1>0, <2>1
  <2>4. /\ e.accepted = c.accepted \o Ids(flushed) /\ e.queue = c.queue /\ e.sends = c.sends
        /\ e \in Connection
    <3> HIDE DEF flushed
    <3>1. e \in Connection
      BY <2>1, <2>2, EngineSendAccounts DEF Accounts
    <3> QED BY <1>0, <2>2, <3>1, EngineSendOrder
  <2> DEFINE n == e.queuedBytes - Bytes(flushed)
             d == [e EXCEPT !.queue = rest, !.queuedBytes = n]
  <2>5. FlushQueue(c) = d
    BY <1>2, <2>4 DEF FlushQueue, k
  <2> HIDE DEF e, n, rest, flushed
  <2>6. d.queue = rest /\ d.accepted = e.accepted /\ d.sends = e.sends
    BY <2>4 DEF Connection
  <2> HIDE DEF d
  <2> DEFINE a == c.accepted
             b == a \o Ids(flushed)
             v == Line(c)
             w == Line(d)
  <2>7. /\ Len(a) \in Nat /\ Len(c.queue) \in Nat /\ DOMAIN v = 1..(Len(a) + Len(c.queue))
        /\ \A i \in 1..Len(a) : v[i] = a[i]
        /\ \A i \in 1..Len(c.queue) : v[Len(a) + i] = c.queue[i].id
    <3>1. Joined(v, a, c.queue) /\ Len(a) \in Nat /\ Len(c.queue) \in Nat
      BY <1>0 DEF Line, Joined
    <3> HIDE DEF v, a
    <3> QED BY <3>1, LineFacts, SMTT(30)
  <2> HIDE DEF v, w
  <2>8. /\ b \in Seq(Nat) /\ Len(b) = Len(a) + k
        /\ \A i \in 1..Len(a) : b[i] = a[i]
        /\ \A i \in 1..k : b[Len(a) + i] = flushed[i].id
    <3>1. Joined(b, a, flushed)
      BY <1>0, <2>2 DEF Joined
    <3> HIDE DEF b, a
    <3> QED BY <2>2, <3>1, LineFacts
  <2> HIDE DEF b, a
  <2>9. /\ DOMAIN w = 1..(Len(b) + (Len(c.queue) - k))
        /\ \A i \in 1..Len(b) : w[i] = b[i]
        /\ \A i \in 1..(Len(c.queue) - k) : w[Len(b) + i] = rest[i].id
    <3>1. Joined(w, b, rest)
      BY <2>3, <2>4, <2>6, <2>8 DEF Line, b, a, w, Joined
    <3> QED BY <2>3, <3>1, LineFacts
  <2>10. DOMAIN w = DOMAIN v
    <3>1. /\ DOMAIN w = 1..(Len(b) + (Len(c.queue) - k))
          /\ DOMAIN v = 1..(Len(a) + Len(c.queue))
      BY <2>7, <2>9
    <3>2. Len(b) = Len(a) + k /\ Len(a) \in Nat /\ Len(c.queue) \in Nat /\ k \in Nat
      BY <2>1, <2>7, <2>8
    <3>3. Len(b) + (Len(c.queue) - k) = Len(a) + Len(c.queue)
      <4> DEFINE x == Len(a)
                 y == Len(c.queue)
                 z == Len(b)
      <4>1. z = x + k /\ x \in Nat /\ y \in Nat /\ k \in Nat
        BY <3>2
      <4> HIDE DEF x, y, z
      <4>2. z + (y - k) = x + y
        BY <4>1
      <4> QED BY <4>2 DEF x, y, z
    <3> QED BY <3>1, <3>3
  <2>11. ASSUME NEW i \in DOMAIN w PROVE w[i] = v[i]
    <3>1. CASE i \in 1..Len(a)
      <4>1. i \in 1..Len(b)
        BY <2>1, <2>7, <2>8, <3>1
      <4> QED BY <2>7, <2>8, <2>9, <3>1, <4>1
    <3>2. CASE i \in (Len(a) + 1)..(Len(a) + k)
      <4> DEFINE j == i - Len(a)
      <4>1. j \in 1..k /\ i = Len(a) + j /\ i \in 1..Len(b) /\ j \in 1..Len(c.queue)
        BY <2>1, <2>7, <2>8, <3>2, SMTT(30)
      <4> HIDE DEF j
      <4>2. w[i] = c.queue[j].id
        BY <2>2, <2>8, <2>9, <4>1
      <4> QED BY <2>7, <4>1, <4>2
    <3>3. CASE i \in (Len(a) + k + 1)..(Len(a) + Len(c.queue))
      <4> DEFINE j == i - Len(b)
      <4>1. j \in 1..(Len(c.queue) - k) /\ i = Len(b) + j /\ i = Len(a) + (k + j)
            /\ k + j \in 1..Len(c.queue)
        <5>1. Len(b) = Len(a) + k /\ Len(a) \in Nat /\ Len(c.queue) \in Nat /\ k \in Nat
          BY <2>1, <2>7, <2>8
        <5> QED BY <3>3, <5>1, SMTT(30)
      <4> HIDE DEF j
      <4>2. w[i] = c.queue[k + j].id
        BY <2>3, <2>9, <4>1
      <4> QED BY <2>7, <4>1, <4>2
    <3> QED BY <2>1, <2>7, <2>10, <3>1, <3>2, <3>3
  <2>12. Increasing(w)
    BY <2>10, <2>11 DEF Ordered, Increasing, v
  <2>13. \A i \in DOMAIN w : w[i] <= d.sends
    BY <2>4, <2>6, <2>10, <2>11 DEF Ordered, v
  <2>14. \A i \in DOMAIN d.queue : d.queue[i].len \in Sizes
    <3>1. DOMAIN rest = 1..(Len(c.queue) - k) /\ DOMAIN c.queue = 1..Len(c.queue)
      BY <1>0, <2>3
    <3>2. ASSUME NEW i \in 1..(Len(c.queue) - k) PROVE rest[i].len \in Sizes
      <4>1. k + i \in DOMAIN c.queue
        BY <2>1, <2>7, <3>1
      <4> QED BY <2>3, <4>1 DEF Ordered
    <3> QED BY <2>6, <3>1, <3>2
  <2> QED BY <2>5, <2>12, <2>13, <2>14 DEF Ordered, w
<1> QED BY <1>1, <1>2

LEMMA EngineAlike ==
    ASSUME NEW c, Accounts(c), NEW r \in Reaction, now \in Nat
    PROVE  Alike(c, React(c, r)) /\ Alike(c, End(c)) /\ Alike(c, EngineTick(c, r))
<1>1. ASSUME NEW d \in Connection, NEW q
      PROVE  Alike(d, React(d, q))
  <2>1. CASE d.done
    BY <2>1 DEF React, Alike
  <2>2. CASE ~d.done
    <3> DEFINE ev == d.ev \o Numbered(q.events, d.produced)
               produced == d.produced + MessagesIn(q.events, Len(q.events))
               up == d.up \/ Has(q, "Opened")
               done == Has(q, "Closed")
               free == IF q.ack THEN Cap ELSE d.free
               lib == now + q.delay
               e == React(d, q)
    <3>1. e = [d EXCEPT !.ev = ev, !.produced = produced, !.up = up, !.done = done,
                        !.free = free, !.lib = lib]
      BY <2>2 DEF React
    <3> HIDE DEF e, ev, produced, up, done, free, lib
    <3>2. Alike(d, e)
      BY <1>1, <3>1 DEF Connection, Alike
    <3> QED BY <3>2 DEF e
  <2> QED BY <2>1, <2>2
<1>2. ASSUME NEW d \in Connection
      PROVE  Alike(d, End(d))
  <2> DEFINE ev == Append(d.ev, [kind |-> "Closed", id |-> 0])
             e == End(d)
  <2>1. e = d \/ e = [d EXCEPT !.ev = ev, !.done = TRUE]
    BY DEF End
  <2> HIDE DEF e, ev
  <2>2. Alike(d, e)
    BY <1>2, <2>1 DEF Connection, Alike
  <2> QED BY <2>2 DEF e
<1> DEFINE q == [r EXCEPT !.ack = FALSE]
           d == React(c, q)
<1>3. q \in Reaction /\ (EngineTick(c, r) = d \/ EngineTick(c, r) = End(d))
  BY DEF Reaction, EngineTick
<1> HIDE DEF q
<1>4. c \in Connection /\ d \in Connection
  BY <1>3, ReactAccounts DEF Accounts
<1>5. Alike(c, d) /\ Alike(d, End(d)) /\ Alike(c, React(c, r)) /\ Alike(c, End(c))
  BY <1>1, <1>2, <1>4
<1> HIDE DEF d
<1> QED BY <1>3, <1>5 DEF Alike

LEMMA PumpOrdered ==
    ASSUME NEW c, Accounts(c), now \in Nat, Ordered(c), NEW after \in {"none", "settle", "close"}
    PROVE  Ordered(Pump(c, after))
<1> DEFINE sched == Schedule(c)
           flushed == IF Policy = "queue" THEN FlushQueue(sched) ELSE sched
           fs == <<[batch |-> <<>>, more |-> TRUE, after |-> after]>> \o flushed.frames
           d == [flushed EXCEPT !.frames = fs]
<1>0. c \in Connection /\ Accounts(sched)
  BY ScheduleAccounts DEF Accounts
<1>1. Pump(c, after) = c \/ Pump(c, after) = d
  BY DEF Pump
<1>2. Ordered(sched)
  <2> DEFINE deadline == NextDeadline(c)
             e == [c EXCEPT !.timer = deadline]
  <2>1. sched = c \/ sched = e
    BY DEF Schedule
  <2> HIDE DEF deadline
  <2>2. Alike(c, e)
    BY <1>0 DEF Connection, Alike
  <2> HIDE DEF e, sched
  <2> QED BY <2>1, <2>2, SameOrdered
<1> HIDE DEF sched
<1>3. Ordered(flushed) /\ flushed \in Connection
  BY <1>0, <1>2, FlushQueueOrdered, FlushQueueSound DEF Sound, Accounts
<1> HIDE DEF flushed, fs
<1>4. Alike(flushed, d)
  BY <1>3 DEF Connection, Alike
<1> HIDE DEF d
<1> QED BY <1>1, <1>3, <1>4, SameOrdered

LEMMA FinishOrdered ==
    ASSUME NEW c \in Connection, Ordered(c)
    PROVE  Ordered(Finish(c))
<1> DEFINE n == c.disposes + 1
           r == [c EXCEPT !.closed = TRUE, !.timer = NoTime, !.queue = <<>>,
                          !.queuedBytes = 0, !.socket = "closed", !.disposes = n]
           m == r.onCloses + 1
           p == Settle(r.promise, "rejected")
           told == [r EXCEPT !.onCloses = m]
           refused == [r EXCEPT !.promise = p]
<1>1. Finish(c) = c \/ Finish(c) = told \/ Finish(c) = refused
  BY DEF Finish
<1> HIDE DEF n, m, p
<1>2. r.queue = <<>> /\ r.accepted = c.accepted /\ r.sends = c.sends
  BY DEF Connection
<1>3. DOMAIN r = DOMAIN c
  OBVIOUS
<1> HIDE DEF r
<1>4. told.queue = <<>> /\ told.accepted = c.accepted /\ told.sends = c.sends
  BY <1>2, <1>3 DEF Connection
<1>5. refused.queue = <<>> /\ refused.accepted = c.accepted /\ refused.sends = c.sends
  BY <1>2, <1>3 DEF Connection
<1> HIDE DEF told, refused
<1> QED BY <1>1, <1>4, <1>5, EmptiedOrdered

LEMMA ReturnOrdered ==
    ASSUME NEW c, Accounts(c), Ordered(c), c.frames # <<>>
    PROVE  Ordered(Return(c))
<1> DEFINE fs == Tail(c.frames)
           popped == [c EXCEPT !.frames = fs]
           x == Settle(popped.promise, "resolved")
           y == Settle(popped.promise, "rejected")
           resolved == [popped EXCEPT !.promise = x]
           rejected == [popped EXCEPT !.promise = y]
<1>1. \/ Return(c) = popped \/ Return(c) = Finish(popped)
      \/ Return(c) = resolved \/ Return(c) = rejected
  BY DEF Return
<1>2. fs \in Seq(Frame)
  BY DEF Accounts, Connection
<1> HIDE DEF x, y, fs
<1>3. popped \in Connection /\ Alike(c, popped)
  BY <1>2 DEF Accounts, Connection, Alike
<1> HIDE DEF popped
<1>4. Alike(popped, resolved) /\ Alike(popped, rejected)
  BY <1>3 DEF Connection, Alike
<1>5. Ordered(popped)
  BY <1>3, SameOrdered
<1> HIDE DEF resolved, rejected
<1> QED BY <1>1, <1>3, <1>4, <1>5, SameOrdered, FinishOrdered

LEMMA SchedulePumpOrdered ==
    ASSUME NEW c, Accounts(c), now \in Nat, Ordered(c)
    PROVE  Ordered(SchedulePump(c))
<1> DEFINE tasks == c.tasks \cup {"send"}
           d == [c EXCEPT !.outboundScheduled = TRUE, !.tasks = tasks]
<1>1. SchedulePump(c) = Pump(c, "none") \/ SchedulePump(c) = c \/ SchedulePump(c) = d
  BY DEF SchedulePump
<1> HIDE DEF tasks
<1>2. Alike(c, d)
  BY DEF Accounts, Connection, Alike
<1> HIDE DEF d
<1>3. Ordered(Pump(c, "none")) /\ Ordered(d)
  BY <1>2, PumpOrdered, SameOrdered
<1> QED BY <1>1, <1>3

\* A new message goes to the end of the line.
Grown(v, w, n) ==
    /\ v \in Seq(Nat) /\ n \in Nat /\ Increasing(v) /\ \A i \in DOMAIN v : v[i] <= n
    /\ DOMAIN w = 1..(Len(v) + 1) /\ \A i \in 1..Len(v) : w[i] = v[i]
    /\ w[Len(v) + 1] = n + 1

LEMMA GrownInOrder ==
    ASSUME NEW v, NEW w, NEW n, Grown(v, w, n)
    PROVE  Increasing(w) /\ \A i \in DOMAIN w : w[i] <= n + 1
<1>1. /\ DOMAIN v = 1..Len(v) /\ Len(v) \in Nat /\ n \in Nat
      /\ \A i \in 1..Len(v) : v[i] \in Nat /\ v[i] <= n /\ w[i] = v[i]
  BY DEF Grown
<1>2. DOMAIN w = 1..(Len(v) + 1) /\ w[Len(v) + 1] = n + 1
  BY DEF Grown
<1>3. ASSUME NEW i \in DOMAIN w
      PROVE  i \in 1..Len(v) \/ i = Len(v) + 1
  BY <1>1, <1>2
<1>4. ASSUME NEW i \in DOMAIN w, NEW j \in DOMAIN w, i < j
      PROVE  w[i] < w[j]
  <2>1. i \in 1..Len(v)
    BY <1>1, <1>2, <1>4
  <2>2. CASE j \in 1..Len(v)
    BY <1>1, <1>4, <2>1, <2>2 DEF Grown, Increasing
  <2>3. CASE j = Len(v) + 1
    BY <1>1, <1>2, <2>1, <2>3
  <2> QED BY <1>3, <2>2, <2>3
<1>5. ASSUME NEW i \in DOMAIN w PROVE w[i] <= n + 1
  BY <1>1, <1>2, <1>3
<1> QED BY <1>4, <1>5 DEF Increasing

OneSize == \A a, b \in Sizes : a = b

\* A message the engine accepts at once finds the queue empty: the first of
\* the queue, no larger, did not fit.
LEMMA HandleSendOrdered ==
    ASSUME NEW c, Sound(c), now \in Nat, NEW len \in Sizes, Ordered(c), OneSize
    PROVE  Ordered(HandleSend(c, len))
<1> DEFINE n == c.sends + 1
           m == [id |-> n, len |-> len]
           called == [c EXCEPT !.sends = n]
           a == c.accepted
           q == c.queue
           v == Line(c)
<1>0. /\ c \in Connection /\ Accounts(c) /\ len \in Nat /\ c.sends \in Nat /\ n \in Nat
      /\ c.free \in Nat /\ c.queuedBytes \in Nat
  <2>1. c \in Connection /\ Accounts(c)
    BY DEF Sound, Accounts
  <2>2. c.sends \in Nat /\ c.free \in Nat /\ c.queuedBytes \in Nat
    BY <2>1 DEF Connection
  <2>3. len \in Nat
    BY DriverAssumption
  <2> QED BY <2>1, <2>2, <2>3
<1>1. a \in Seq(Nat) /\ q \in Seq(OutMessage) /\ Len(a) \in Nat /\ Len(q) \in Nat
  BY <1>0, SMTT(30) DEF Connection
<1>2. m \in OutMessage /\ m.id = n /\ m.len = len
  BY <1>0 DEF OutMessage
<1>3. Joined(v, a, q)
  BY <1>1 DEF Joined, Line
<1> HIDE DEF v, m
<1>4. called \in Connection
  <2> HIDE DEF n
  <2> QED BY <1>0 DEF Connection
<1>5. /\ called.queue = q /\ called.accepted = a /\ called.sends = n
      /\ called.queuedBytes = c.queuedBytes /\ called.closed = c.closed /\ called.free = c.free
  <2> HIDE DEF n
  <2> QED BY <1>0 DEF Connection
<1> HIDE DEF called
<1>6. /\ v \in Seq(Nat) /\ Len(v) = Len(a) + Len(q)
      /\ \A i \in 1..Len(a) : v[i] = a[i]
      /\ \A j \in 1..Len(q) : v[Len(a) + j] = q[j].id
      /\ Increasing(v) /\ \A i \in DOMAIN v : v[i] <= c.sends
  <2>1. Increasing(v) /\ \A i \in DOMAIN v : v[i] <= c.sends
    BY DEF Ordered, v
  <2> HIDE DEF a, q
  <2> QED BY <1>3, <2>1, LineFacts
<1>7. Ordered(called) /\ Accounts(called)
  <2>1. Line(called) = v
    BY <1>5 DEF Line, v
  <2>2. ASSUME NEW i \in DOMAIN v PROVE v[i] <= n
    <3>1. v \in Seq(Nat) /\ v[i] <= c.sends
      BY <1>6
    <3>2. v[i] \in Nat
      BY <3>1
    <3> QED BY <1>0, <3>1, <3>2
  <2>3. Accounts(called)
    BY <1>0, <1>4, <1>5, Carried
  <2> QED BY <1>5, <1>6, <2>1, <2>2, <2>3 DEF Ordered
<1>8. ASSUME SendResult(c, len) = "Accepted"
      PROVE  Ordered(SchedulePump(EngineSend(called, <<m>>)))
  <2> DEFINE e == EngineSend(called, <<m>>)
             b == a \o Ids(<<m>>)
             w == Line(e)
  <2>1. len <= c.free
    BY <1>0, <1>8 DEF SendResult
  <2>2. q = <<>>
    <3>1. ASSUME q # <<>> PROVE FALSE
      <4>1. 1 \in DOMAIN q /\ Head(q) = q[1]
        BY <1>1, <3>1
      <4>2. Head(q).len = len
        BY <4>1 DEF Ordered, OneSize
      <4>3. len > c.free
        BY <3>1, <4>2 DEF Sound, Waits
      <4> QED BY <1>0, <2>1, <4>3
    <3> QED BY <3>1
  <2>3. <<m>> \in Seq(OutMessage) /\ Len(<<m>>) = 1 /\ <<m>>[1] = m
    BY <1>2
  <2>4. e.accepted = b /\ e.queue = <<>> /\ e.sends = n
    BY <1>4, <1>5, <2>2, <2>3, EngineSendOrder
  <2>5. Accounts(e)
    <3>1. Bytes(<<m>>) = len
      BY <1>1, <1>2, BytesFacts
    <3> QED BY <1>0, <1>5, <1>7, <2>1, <2>3, <3>1, EngineSendAccounts
  <2>6. Joined(b, a, <<m>>)
    BY <1>1, <2>3 DEF Joined
  <2> HIDE DEF e, b, a
  <2>7. /\ b \in Seq(Nat) /\ Len(b) = Len(a) + 1
        /\ \A i \in 1..Len(a) : b[i] = a[i]
        /\ b[Len(a) + 1] = m.id
    <3> DEFINE one == <<m>>
    <3>1. Joined(b, a, one) /\ Len(one) = 1 /\ one[1] = m
      BY <2>3, <2>6
    <3> HIDE DEF one
    <3>2. /\ b \in Seq(Nat) /\ Len(b) = Len(a) + Len(one)
          /\ \A i \in 1..Len(a) : b[i] = a[i]
          /\ \A j \in 1..Len(one) : b[Len(a) + j] = one[j].id
      BY <3>1, LineFacts, SMTT(30)
    <3>3. 1 \in 1..Len(one)
      BY <3>1
    <3> QED BY <3>1, <3>2, <3>3
  <2>8. Joined(w, b, <<>>) /\ Len(<<>>) = 0
    BY <2>4, <2>7 DEF Joined, Line
  <2> HIDE DEF w
  <2>9. DOMAIN w = 1..(Len(b) + 0) /\ \A i \in 1..Len(b) : w[i] = b[i]
    BY <2>8, LineFacts
  <2>10. Grown(v, w, c.sends)
    <3>1. Len(v) = Len(a)
      BY <1>1, <1>6, <2>2 DEF a
    <3>2. DOMAIN w = 1..(Len(v) + 1)
      <4>1. Len(a) \in Nat
        BY <1>1 DEF a
      <4> QED BY <2>7, <2>9, <3>1, <4>1
    <3>3. \A i \in 1..Len(v) : w[i] = v[i]
      <4>1. Len(a) \in Nat
        BY <1>1 DEF a
      <4>2. ASSUME NEW i \in 1..Len(a) PROVE w[i] = v[i]
        <5>1. i \in 1..Len(b)
          BY <2>7, <4>1
        <5>2. w[i] = b[i] /\ b[i] = a[i] /\ v[i] = a[i]
          BY <1>6, <2>7, <2>9, <5>1
        <5> QED BY <5>2
      <4> QED BY <3>1, <4>2
    <3>4. w[Len(v) + 1] = n
      <4>1. Len(a) \in Nat
        BY <1>1 DEF a
      <4>2. b[Len(a) + 1] = m.id
        BY <2>7
      <4>3. w[Len(a) + 1] = b[Len(a) + 1]
        BY <2>7, <2>9, <4>1
      <4> QED BY <1>2, <3>1, <4>2, <4>3
    <3> QED BY <1>0, <1>6, <3>2, <3>3, <3>4 DEF Grown
  <2>11. Ordered(e)
    <3>1. Increasing(w) /\ \A i \in DOMAIN w : w[i] <= n
      BY <2>10, GrownInOrder
    <3> QED BY <2>4, <3>1 DEF Ordered, w
  <2> QED BY <2>5, <2>11, SchedulePumpOrdered DEF e
<1>9. Ordered(Enqueue(called, m))
  <2> DEFINE p == Append(q, m)
             k == called.queuedBytes + m.len
             d == Enqueue(called, m)
             w == Line(d)
  <2>1. d = [called EXCEPT !.queue = p, !.queuedBytes = k]
    BY <1>5 DEF Enqueue
  <2>2. /\ p \in Seq(OutMessage) /\ Len(p) = Len(q) + 1 /\ p[Len(q) + 1] = m
        /\ \A i \in 1..Len(q) : p[i] = q[i]
    BY <1>1, <1>2
  <2> HIDE DEF d, p, k
  <2>3. d.accepted = a /\ d.queue = p /\ d.sends = n
    <3>1. d.accepted = called.accepted /\ d.queue = p /\ d.sends = called.sends
      BY <1>4, <2>1 DEF Connection
    <3> QED BY <1>5, <3>1
  <2>4. Joined(w, a, p)
    BY <1>1, <2>2, <2>3 DEF Joined, Line
  <2> HIDE DEF w, a, q
  <2>5. /\ DOMAIN w = 1..(Len(a) + (Len(q) + 1)) /\ \A i \in 1..Len(a) : w[i] = a[i]
        /\ \A i \in 1..(Len(q) + 1) : w[Len(a) + i] = p[i].id
    BY <2>2, <2>4, LineFacts
  <2>6. Len(a) \in Nat /\ Len(q) \in Nat /\ Len(v) = Len(a) + Len(q)
    BY <1>1, <1>6 DEF a, q
  <2>7. Grown(v, w, c.sends)
    <3>1. DOMAIN w = 1..(Len(v) + 1)
      BY <2>5, <2>6
    <3>2. ASSUME NEW i \in 1..Len(v) PROVE w[i] = v[i]
      <4>1. CASE i \in 1..Len(a)
        BY <1>6, <2>5, <4>1
      <4>2. CASE i \notin 1..Len(a)
        <5> DEFINE j == i - Len(a)
        <5>1. j \in 1..Len(q) /\ j \in 1..(Len(q) + 1) /\ i = Len(a) + j
          BY <2>6, <4>2
        <5> HIDE DEF j
        <5> QED BY <1>6, <2>2, <2>5, <5>1
      <4> QED BY <4>1, <4>2
    <3>3. w[Len(v) + 1] = n
      <4>1. Len(q) + 1 \in 1..(Len(q) + 1) /\ Len(v) + 1 = Len(a) + (Len(q) + 1)
        BY <2>6
      <4> QED BY <1>2, <2>2, <2>5, <4>1
    <3> QED BY <1>0, <1>6, <3>1, <3>2, <3>3 DEF Grown
  <2>8. Increasing(w) /\ \A i \in DOMAIN w : w[i] <= n
    BY <2>7, GrownInOrder
  <2>9. \A i \in DOMAIN p : p[i].len \in Sizes
    <3>1. DOMAIN p = 1..(Len(q) + 1) /\ DOMAIN q = 1..Len(q)
      BY <1>1, <2>2 DEF q
    <3>2. ASSUME NEW i \in 1..(Len(q) + 1) PROVE p[i].len \in Sizes
      <4>1. CASE i \in 1..Len(q)
        BY <2>2, <3>1, <4>1 DEF Ordered, q
      <4>2. CASE i = Len(q) + 1
        BY <1>2, <2>2, <4>2
      <4> QED BY <2>6, <4>1, <4>2
    <3> QED BY <3>1, <3>2
  <2> QED BY <2>3, <2>8, <2>9 DEF Ordered, w, d
<1>10. Ordered([called EXCEPT !.refusedSends = @ + 1])
  <2> DEFINE k == called.refusedSends + 1
             d == [called EXCEPT !.refusedSends = k]
  <2> HIDE DEF k
  <2>1. Alike(called, d)
    BY <1>4 DEF Connection, Alike
  <2> HIDE DEF d
  <2>2. Ordered(d)
    BY <1>7, <2>1, SameOrdered
  <2> QED BY <2>2 DEF d, k
<1>11. \/ HandleSend(c, len) = called
       \/ SendResult(c, len) = "Accepted" /\ HandleSend(c, len) = SchedulePump(EngineSend(called, <<m>>))
       \/ HandleSend(c, len) = Enqueue(called, m)
       \/ HandleSend(c, len) = [called EXCEPT !.refusedSends = @ + 1]
  BY DEF HandleSend, called, m
<1> QED BY <1>7, <1>8, <1>9, <1>10, <1>11

LEMMA HandleCloseOrdered ==
    ASSUME NEW c, Accounts(c), now \in Nat, Ordered(c)
    PROVE  Ordered(HandleClose(c))
<1> DEFINE r == [events |-> <<>>, ack |-> FALSE, delay |-> 1]
<1>1. r \in Reaction
  BY DEF Reaction
<1> HIDE DEF r
<1>2. Accounts(End(c)) /\ Alike(c, End(c))
  BY <1>1, EndSound, EngineAlike
<1>3. Ordered(Pump(End(c), "close"))
  BY <1>2, SameOrdered, PumpOrdered
<1> QED BY <1>3 DEF HandleClose

LEMMA ApplyEventOrdered ==
    ASSUME Inv, ApplyEvent, Ordered(s), OneSize
    PROVE  Ordered(s')
<1> DEFINE e == Head(Top.batch)
           T == Taken
           fs == [s.frames EXCEPT ![1] = [Top EXCEPT !.batch = Tail(Top.batch)]]
<1>1. Running /\ Top.batch # <<>> /\ s \in Connection /\ s.frames # <<>> /\ now \in Nat
  BY TopTyped DEF ApplyEvent, Running, Inv
<1>2. T \in Connection /\ Sound(T) /\ T = [s EXCEPT !.frames = fs]
  BY <1>1, TakenSound DEF Sound, Accounts
<1> HIDE DEF T, fs
<1>3. Ordered(T)
  <2>1. Alike(s, T)
    BY <1>1, <1>2 DEF Connection, Alike
  <2> QED BY <2>1, SameOrdered
<1>4. Ordered(ApplyClosed(s))
  <2>1. Ordered(Finish(s)) /\ Sound(Finish(s)) /\ Finish(s).frames = s.frames
    BY <1>1, FinishOrdered, FinishSound DEF Inv, Finish, Connection
  <2> QED BY <1>1, <2>1, ReturnOrdered DEF ApplyClosed, Sound
<1>5. Ordered([T EXCEPT !.opened = TRUE, !.onOpens = @ + 1, !.promise = Settle(@, "resolved")])
  <2> DEFINE n == T.onOpens + 1
             p == Settle(T.promise, "resolved")
             d == [T EXCEPT !.opened = TRUE, !.onOpens = n, !.promise = p]
  <2> HIDE DEF n, p
  <2>1. Alike(T, d)
    BY <1>2 DEF Connection, Alike
  <2> HIDE DEF d
  <2>2. Ordered(d)
    BY <1>3, <2>1, SameOrdered
  <2> QED BY <2>2 DEF d, n, p
<1>6. e \in Event
  BY <1>1, TopTyped
<1>7. e.kind \in Kinds /\ e.id \in Nat
  BY <1>6 DEF Event
<1> HIDE DEF e
<1> DEFINE ps == Append(T.packets, e.id)
           P == [T EXCEPT !.packets = ps]
<1>8. ps \in Seq(Nat)
  <2>1. T.packets \in Seq(Nat)
    BY <1>2 DEF Connection
  <2> QED BY <1>7, <2>1
<1> HIDE DEF ps
<1>9. P \in Connection /\ Alike(T, P) /\ P.queuedBytes = T.queuedBytes
      /\ P.closed = T.closed /\ P.free = T.free
  <2>1. T \in Connection
    BY <1>2
  <2>2. P \in Connection
    BY <1>8, <2>1 DEF Connection
  <2>3. /\ Alike(T, P) /\ P.queuedBytes = T.queuedBytes /\ P.closed = T.closed
        /\ P.free = T.free
    BY <2>1 DEF Connection, Alike
  <2> QED BY <2>2, <2>3
<1> HIDE DEF P
<1>10. Ordered(P) /\ Sound(P)
  BY <1>2, <1>3, <1>9, SameOrdered, Carried DEF Alike
<1>11. \A d \in AfterPacket(P) : Ordered(d)
  BY <1>1, <1>10, HandleSendOrdered, HandleCloseOrdered DEF AfterPacket, Sound
<1>12. CASE e.kind = "Datagram"
  BY <1>3, <1>12 DEF ApplyEvent, e, T
<1>13. CASE e.kind = "Opened"
  BY <1>3, <1>5, <1>13 DEF ApplyEvent, e, T
<1>14. CASE e.kind = "Message"
  BY <1>11, <1>14 DEF ApplyEvent, e, T, P, ps
<1>15. CASE e.kind = "Closed"
  BY <1>4, <1>15 DEF ApplyEvent, e
<1> QED BY <1>7, <1>12, <1>13, <1>14, <1>15 DEF Kinds

LEMMA DrainEventsOrdered ==
    ASSUME Inv, DrainEvents, Ordered(s)
    PROVE  Ordered(s')
<1> DEFINE n == IF BatchMode THEN EventBatchSize ELSE 1
           taken == IF s.closed THEN <<>>
                    ELSE SubSeq(s.ev, 1, IF n < Len(s.ev) THEN n ELSE Len(s.ev))
           ev == SubSeq(s.ev, Len(taken) + 1, Len(s.ev))
           misused == IF s.closed THEN s.misused \cup {"pollEvent"} ELSE s.misused
           drained == [s EXCEPT !.ev = ev, !.misused = misused]
           f == [Top EXCEPT !.batch = taken, !.more = FullBatch(taken, n)]
           fs == [s.frames EXCEPT ![1] = f]
           d == [drained EXCEPT !.frames = fs]
<1>1. Running /\ s \in Connection /\ s.frames # <<>> /\ Accounts(s)
  BY TopTyped DEF DrainEvents, Running
<1>2. s.ev \in Seq(Event) /\ n \in Nat
  BY <1>1, DriverAssumption DEF Connection
<1>3. taken \in Seq(Event)
  <2> HIDE DEF n
  <2> QED BY <1>2
<1>4. ev \in Seq(Event)
  <2> HIDE DEF taken
  <2> QED BY <1>2, <1>3
<1>5. misused \in SUBSET {"stats", "pollEvent"}
  BY <1>1 DEF Connection
<1>6. s' = IF taken = <<>> THEN Return(drained)
           ELSE [drained EXCEPT !.frames[1] = [@ EXCEPT !.batch = taken, !.more = FullBatch(taken, n)]]
  BY DEF DrainEvents
<1> HIDE DEF ev, misused, n, taken
<1>7. /\ drained \in Connection /\ drained.frames = s.frames /\ Alike(s, drained)
      /\ drained.queuedBytes = s.queuedBytes /\ drained.closed = s.closed /\ drained.free = s.free
  BY <1>1, <1>4, <1>5 DEF Connection, Alike
<1>8. [drained EXCEPT !.frames[1] = [@ EXCEPT !.batch = taken, !.more = FullBatch(taken, n)]] = d
  BY <1>1, <1>7, TopTyped
<1> HIDE DEF drained, fs
<1>9. Accounts(drained) /\ Ordered(drained)
  BY <1>1, <1>7, Carried, SameOrdered DEF Alike
<1>10. Ordered(Return(drained))
  BY <1>1, <1>7, <1>9, ReturnOrdered
<1>11. Alike(drained, d)
  BY <1>7 DEF Connection, Alike
<1> HIDE DEF d
<1>12. Ordered(d)
  BY <1>9, <1>11, SameOrdered
<1> QED BY <1>6, <1>8, <1>10, <1>12

LEMMA SetUpOrdered ==
    ASSUME Inv, NEW ok \in BOOLEAN, Bind(ok) \/ CreateEngine(ok), Ordered(s)
    PROVE  Ordered(s')
<1>0. s \in Connection /\ Accounts(s) /\ now \in Nat
  BY DEF Inv, Sound, Accounts
<1>1. CASE Bind(ok)
  <2>1. \/ s' = [s EXCEPT !.phase = "create", !.socket = "open"]
        \/ s' = [s EXCEPT !.phase = "failed", !.promise = "rejected"]
    BY <1>1 DEF Bind
  <2>2. Alike(s, s')
    BY <1>0, <2>1 DEF Connection, Alike
  <2> QED BY <2>2, SameOrdered
<1>2. CASE CreateEngine(ok)
  <2> DEFINE d == [s EXCEPT !.phase = "running", !.lib = now]
             x == [s EXCEPT !.phase = "failed", !.socket = "closed", !.promise = "rejected"]
  <2>1. s' = IF ok THEN Pump(d, "settle") ELSE x
    BY <1>2 DEF CreateEngine
  <2>2. /\ d \in Connection /\ d.queuedBytes = s.queuedBytes /\ d.closed = s.closed
        /\ d.free = s.free
    BY <1>0 DEF Connection
  <2>3. Alike(s, d) /\ Alike(s, x)
    BY <1>0 DEF Connection, Alike
  <2> HIDE DEF d, x
  <2>4. Accounts(d) /\ Ordered(d) /\ Ordered(x)
    BY <1>0, <2>2, <2>3, Carried, SameOrdered DEF Alike
  <2>5. Ordered(Pump(d, "settle"))
    BY <1>0, <2>4, PumpOrdered
  <2> QED BY <2>1, <2>4, <2>5
<1> QED BY <1>1, <1>2

LEMMA InputOrdered ==
    ASSUME Inv, NEW r \in Reactions, OnMessage(r) \/ InputFlush(r), Ordered(s)
    PROVE  Ordered(s')
<1>0. s \in Connection /\ Accounts(s) /\ now \in Nat /\ r \in Reaction
  BY DriverAssumption DEF Inv, Sound, Accounts
<1>1. CASE OnMessage(r)
  <2> DEFINE n == s.inbound + 1
             tasks == s.tasks \cup {"input"}
             later == [s EXCEPT !.inbound = n]
             first == [s EXCEPT !.inbound = n, !.inboundScheduled = TRUE, !.tasks = tasks]
  <2>1. s' = s \/ s' = Pump(React(s, r), "none") \/ s' = later \/ s' = first
    BY <1>1 DEF OnMessage
  <2> HIDE DEF n, tasks
  <2>2. Alike(s, later)
    BY <1>0 DEF Connection, Alike
  <2>3. Alike(s, first)
    BY <1>0 DEF Connection, Alike
  <2> HIDE DEF later, first
  <2>4. Accounts(React(s, r)) /\ Ordered(React(s, r))
    BY <1>0, ReactAccounts, EngineAlike, SameOrdered
  <2>5. Ordered(Pump(React(s, r), "none"))
    BY <1>0, <2>4, PumpOrdered
  <2> QED BY <2>1, <2>2, <2>3, <2>5, SameOrdered
<1>2. CASE InputFlush(r)
  <2> DEFINE tasks == s.tasks \ {"input"}
             started == [s EXCEPT !.inboundScheduled = FALSE, !.tasks = tasks]
             fed == [started EXCEPT !.inbound = 0]
  <2>1. tasks \in SUBSET {"input", "send"}
    BY <1>0 DEF Connection
  <2>2. s' = started \/ s' = Pump(React(fed, r), "none")
    BY <1>2 DEF InputFlush
  <2> HIDE DEF tasks
  <2>3. started \in Connection
    BY <1>0, <2>1, Zenon DEF Connection
  <2>4. /\ Alike(s, started) /\ started.queuedBytes = s.queuedBytes
        /\ started.closed = s.closed /\ started.free = s.free
    BY <1>0 DEF Connection, Alike
  <2> HIDE DEF started
  <2>5. fed \in Connection
    BY <2>3 DEF Connection
  <2>6. /\ Alike(started, fed) /\ fed.queuedBytes = started.queuedBytes
        /\ fed.closed = started.closed /\ fed.free = started.free
    BY <2>3 DEF Connection, Alike
  <2> HIDE DEF fed
  <2>7. Accounts(started) /\ Ordered(started)
    BY <1>0, <2>3, <2>4, Carried, SameOrdered DEF Alike
  <2>8. Accounts(fed) /\ Ordered(fed)
    BY <2>5, <2>6, <2>7, Carried, SameOrdered DEF Alike
  <2>9. Accounts(React(fed, r)) /\ Ordered(React(fed, r))
    BY <1>0, <2>8, ReactAccounts, EngineAlike, SameOrdered
  <2>10. Ordered(Pump(React(fed, r), "none"))
    BY <1>0, <2>9, PumpOrdered
  <2> QED BY <2>2, <2>7, <2>10
<1> QED BY <1>1, <1>2

LEMMA SendFlushOrdered ==
    ASSUME Inv, SendFlush, Ordered(s)
    PROVE  Ordered(s')
<1> DEFINE tasks == s.tasks \ {"send"}
           d == [s EXCEPT !.outboundScheduled = FALSE, !.tasks = tasks]
<1>0. s \in Connection /\ Accounts(s) /\ now \in Nat
  BY DEF Inv, Sound, Accounts
<1>1. tasks \in SUBSET {"input", "send"}
  BY <1>0 DEF Connection
<1>2. s' = Pump(d, "none")
  BY DEF SendFlush
<1> HIDE DEF tasks
<1>3. d \in Connection
  BY <1>0, <1>1, Zenon DEF Connection
<1>4. Alike(s, d) /\ d.queuedBytes = s.queuedBytes /\ d.closed = s.closed /\ d.free = s.free
  BY <1>0 DEF Connection, Alike
<1> HIDE DEF d
<1>5. Accounts(d) /\ Ordered(d)
  BY <1>0, <1>3, <1>4, Carried, SameOrdered DEF Alike
<1> QED BY <1>0, <1>2, <1>5, PumpOrdered

LEMMA TimerFireOrdered ==
    ASSUME Inv, NEW r \in Reactions, TimerFire(r), Ordered(s)
    PROVE  Ordered(s')
<1> DEFINE d == [s EXCEPT !.timer = NoTime]
           e == EngineTick(d, r)
<1>0. s \in Connection /\ Accounts(s) /\ now \in Nat /\ r \in Reaction
  BY DriverAssumption DEF Inv, Sound, Accounts
<1>1. d \in Connection
  BY <1>0 DEF Connection
<1>2. Alike(s, d) /\ d.queuedBytes = s.queuedBytes /\ d.closed = s.closed /\ d.free = s.free
  BY <1>0 DEF Connection, Alike
<1>3. s' = Pump(e, "none")
  BY DEF TimerFire
<1> HIDE DEF d
<1>4. Accounts(d) /\ Ordered(d)
  BY <1>0, <1>1, <1>2, Carried, SameOrdered DEF Alike
<1>5. Accounts(e) /\ Alike(d, e)
  BY <1>0, <1>4, TickAccounts, EngineAlike
<1> HIDE DEF e
<1>6. Ordered(e)
  BY <1>4, <1>5, SameOrdered
<1> QED BY <1>0, <1>3, <1>5, <1>6, PumpOrdered

LEMMA HostOrdered ==
    ASSUME Inv, Ordered(s), OneSize,
           OnError \/ Awaken \/ (\E len \in Sizes : Send(len)) \/ Close \/ Stats \/ Advance
    PROVE  Ordered(s')
<1>0. s \in Connection /\ Accounts(s) /\ Sound(s) /\ now \in Nat
  BY DEF Inv, Sound, Accounts
<1>1. CASE OnError
  BY <1>0, <1>1, FinishOrdered DEF OnError
<1>2. CASE Awaken
  <2>1. s' = [s EXCEPT !.handle = TRUE]
    BY <1>2 DEF Awaken
  <2>2. Alike(s, s')
    BY <1>0, <2>1 DEF Connection, Alike
  <2> QED BY <2>2, SameOrdered
<1>3. CASE \E len \in Sizes : Send(len)
  BY <1>0, <1>3, HandleSendOrdered DEF Send
<1>4. CASE Close
  BY <1>0, <1>4, HandleCloseOrdered DEF Close
<1>5. CASE Stats
  <2> DEFINE m == IF s.disposes > 0 THEN s.misused \cup {"stats"} ELSE s.misused
  <2>1. s' = [s EXCEPT !.misused = m]
    BY <1>5 DEF Stats
  <2> HIDE DEF m
  <2>2. Alike(s, s')
    BY <1>0, <2>1 DEF Connection, Alike
  <2> QED BY <2>2, SameOrdered
<1>6. CASE Advance
  BY <1>6 DEF Advance
<1> QED BY <1>1, <1>2, <1>3, <1>4, <1>5, <1>6

LEMMA NextOrdered ==
    ASSUME Inv, Next, Ordered(s), OneSize
    PROVE  Ordered(s')
<1>1. CASE ApplyEvent
  BY <1>1, ApplyEventOrdered
<1>2. CASE DrainEvents
  BY <1>2, DrainEventsOrdered
<1>3. CASE PumpReturns
  BY <1>3, ReturnOrdered DEF PumpReturns, Running, Inv, Sound
<1>4. CASE \E ok \in BOOLEAN : Bind(ok) \/ CreateEngine(ok)
  BY <1>4, SetUpOrdered
<1>5. CASE \E r \in Reactions : OnMessage(r) \/ InputFlush(r)
  BY <1>5, InputOrdered
<1>6. CASE SendFlush
  BY <1>6, SendFlushOrdered
<1>7. CASE \E r \in Reactions : TimerFire(r)
  BY <1>7, TimerFireOrdered
<1>8. CASE OnError \/ Awaken \/ (\E len \in Sizes : Send(len)) \/ Close \/ Stats \/ Advance
  BY <1>8, HostOrdered
<1> QED BY <1>1, <1>2, <1>3, <1>4, <1>5, <1>6, <1>7, <1>8 DEF Next

-----------------------------------------------------------------------------
(* The theorems.                                                           *)

\* Every field keeps its type; the counts of driver.ts never go below zero.
THEOREM TypeCorrect == Spec => []TypeOK
<1>1. Inv => TypeOK
  BY DEF Inv, Sound, Accounts, TypeOK
<1> QED BY <1>1, Invariant, PTL

\* queuedBytes, kept beside the queue by send, flushQueue and finish, is what
\* the queue holds, and the queue keeps to maxQueuedBytes.
THEOREM QueueIsAccountedFor == Spec => []QueueAccounting
<1>1. Inv => QueueAccounting
  BY DEF Inv, Sound, Accounts, QueueAccounting
<1> QED BY <1>1, Invariant, PTL

\* Nothing stays in the queue that the engine has room for: flushQueue runs
\* whenever room may have come back.
THEOREM QueueIsFlushed == Spec => []QueueWaitsForRoom
<1>1. Inv => QueueWaitsForRoom
  BY DEF Inv, Sound, Waits, QueueWaitsForRoom
<1> QED BY <1>1, Invariant, PTL

\* Messages of one size reach the engine in the order of the calls of send,
\* through the queue or past it.  With two sizes they need not: send tries the
\* engine before the queue, and a smaller message may fit where the first of
\* the queue does not.
THEOREM SentInCallOrder ==
    ASSUME \A a, b \in Sizes : a = b
    PROVE  Spec => []SentInOrder
<1>0. OneSize
  BY DEF OneSize
<1>1. Init => Ordered(s)
  <2> SUFFICES ASSUME Init PROVE Ordered(s)
    OBVIOUS
  <2>1. s.accepted = <<>> /\ s.queue = <<>>
    BY DEF Init
  <2>2. Line(s) = <<>>
    BY <2>1 DEF Line, Ids
  <2> QED BY <2>1, <2>2 DEF Ordered, Increasing
<1>2. Inv /\ Ordered(s) /\ [Next]_vars => Ordered(s)'
  <2>1. Inv /\ Ordered(s) /\ Next => Ordered(s')
    BY <1>0, NextOrdered
  <2>2. Ordered(s) /\ UNCHANGED vars => Ordered(s')
    BY DEF vars
  <2> QED BY <2>1, <2>2
<1>3. Inv /\ Ordered(s) => SentInOrder
  <2> SUFFICES ASSUME Inv, Ordered(s) PROVE Increasing(s.accepted)
    BY DEF SentInOrder
  <2> DEFINE a == s.accepted
             v == Line(s)
  <2>1. a \in Seq(Nat) /\ s.queue \in Seq(OutMessage)
    BY DEF Inv, Sound, Accounts, Connection
  <2>2. Joined(v, a, s.queue) /\ DOMAIN a = 1..Len(a) /\ Len(a) \in Nat /\ Len(s.queue) \in Nat
    BY <2>1 DEF Joined, Line
  <2>3. Increasing(v)
    BY DEF Ordered
  <2> HIDE DEF v, a
  <2>4. DOMAIN v = 1..(Len(a) + Len(s.queue)) /\ \A i \in 1..Len(a) : v[i] = a[i]
    BY <2>2, LineFacts
  <2>5. DOMAIN a \subseteq DOMAIN v
    BY <2>2, <2>4
  <2>6. Increasing(a)
    BY <2>2, <2>3, <2>4, <2>5 DEF Increasing
  <2> QED BY <2>6 DEF a
<1> QED BY <1>1, <1>2, <1>3, Invariant, PTL DEF Spec
=============================================================================
