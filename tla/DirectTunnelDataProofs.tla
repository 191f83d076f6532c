----------------------- MODULE DirectTunnelDataProofs -----------------------
(***************************************************************************)
(* Proofs about the data path of DirectTunnel: what read_stream leaves in  *)
(* the reassembly queue, the order in which it tells of the messages, and  *)
(* what send may add to the send buffer.                                   *)
(***************************************************************************)
EXTENDS DirectTunnelProofs

-----------------------------------------------------------------------------
(* The reassembly queue.                                                   *)

SuffixOf(q, a) ==
    /\ Len(q) <= Len(a)
    /\ \A i \in 1..Len(q) : q[i] = a[Len(a) - Len(q) + i]

\* What waits is the end of what arrived, and waits in a stream.
Suffix(s) == SuffixOf(s.rq, s.arrived) /\ (s.rq # <<>> => s.stream # "none")

\* Something in front of the queue was refused.
Refused(s) == \E i \in 1..(Len(s.arrived) - Len(s.rq)) : Oversize(s.arrived[i])

Reads(s) == Suffix(s) /\ (s.rq # <<>> /\ "readable" \notin s.pend => Refused(s))

LEMMA SuffixDrop ==
    ASSUME NEW S, NEW q \in Seq(S), NEW a \in Seq(S), SuffixOf(q, a), NEW k \in 1..Len(q)
    PROVE  LET r == SubSeq(q, k + 1, Len(q)) IN
           SuffixOf(r, a) /\ Len(a) - Len(r) = Len(a) - Len(q) + k
<1> DEFINE r == SubSeq(q, k + 1, Len(q))
<1>1. Len(q) \in Nat /\ Len(a) \in Nat /\ k \in Nat /\ k <= Len(q) /\ Len(q) <= Len(a)
  BY DEF SuffixOf
<1>2. Len(r) = Len(q) - k /\ \A i \in 1..Len(r) : r[i] = q[i + k]
  BY <1>1
<1> HIDE DEF r
<1>3. ASSUME NEW i \in 1..Len(r) PROVE r[i] = a[Len(a) - Len(r) + i]
  <2>1. i + k \in 1..Len(q) /\ Len(a) - Len(q) + (i + k) = Len(a) - Len(r) + i
    BY <1>1, <1>2
  <2>2. q[i + k] = a[Len(a) - Len(q) + (i + k)]
    BY <2>1 DEF SuffixOf
  <2> QED BY <1>2, <2>1, <2>2
<1>4. Len(r) <= Len(a) /\ Len(a) - Len(r) = Len(a) - Len(q) + k
  BY <1>1, <1>2
<1> QED BY <1>3, <1>4 DEF SuffixOf, r

LEMMA SuffixConcat ==
    ASSUME NEW S, NEW q \in Seq(S), NEW a \in Seq(S), NEW m \in Seq(S), SuffixOf(q, a)
    PROVE  SuffixOf(q \o m, a \o m)
<1> DEFINE x == q \o m
           y == a \o m
<1>1. /\ Len(q) \in Nat /\ Len(a) \in Nat /\ Len(m) \in Nat /\ Len(q) <= Len(a)
  BY DEF SuffixOf
<1>2. /\ Len(x) = Len(q) + Len(m) /\ Len(y) = Len(a) + Len(m)
      /\ \A i \in 1..Len(q) : x[i] = q[i]
      /\ \A i \in 1..Len(a) : y[i] = a[i]
      /\ \A i \in 1..Len(m) : x[Len(q) + i] = m[i] /\ y[Len(a) + i] = m[i]
  OBVIOUS
<1> HIDE DEF x, y
<1>3. ASSUME NEW i \in 1..Len(x) PROVE x[i] = y[Len(y) - Len(x) + i]
  <2>1. CASE i <= Len(q)
    <3>1. /\ i \in 1..Len(q) /\ Len(y) - Len(x) + i = Len(a) - Len(q) + i
          /\ Len(a) - Len(q) + i \in 1..Len(a)
      BY <1>1, <1>2, <2>1
    <3> QED BY <1>2, <3>1 DEF SuffixOf
  <2>2. CASE i > Len(q)
    <3> DEFINE j == i - Len(q)
    <3>1. j \in 1..Len(m) /\ i = Len(q) + j /\ Len(y) - Len(x) + i = Len(a) + j
      BY <1>1, <1>2, <2>2
    <3> HIDE DEF j
    <3> QED BY <1>2, <3>1
  <2> QED BY <1>1, <1>2, <2>1, <2>2
<1> QED BY <1>1, <1>2, <1>3 DEF SuffixOf, x, y

LEMMA SuffixIs ==
    ASSUME NEW q \in Seq(InMessage), NEW a \in Seq(InMessage), SuffixOf(q, a)
    PROVE  q = SubSeq(a, Len(a) - Len(q) + 1, Len(a))
<1> DEFINE la == Len(a)
           lq == Len(q)
           c == la - lq
           u == SubSeq(a, c + 1, la)
<1>1. la \in Nat /\ lq \in Nat /\ lq <= la
  BY DEF SuffixOf
<1>2. \A i \in 1..lq : q[i] = a[c + i]
  BY DEF SuffixOf
<1>3. c \in Nat /\ (la + 1) - (c + 1) = lq /\ c <= la
  <2> HIDE DEF la, lq
  <2> QED BY <1>1
<1> HIDE DEF c
<1>4. u = [i \in 1..lq |-> a[c + i]]
  <2>1. u = [i \in 1..(la - (c + 1) + 1) |-> a[c + 1 + i - 1]]
    BY <1>1, <1>3
  <2>2. la - (c + 1) + 1 = lq
    <3> HIDE DEF la, lq
    <3> QED BY <1>1, <1>3
  <2>3. \A i \in 1..lq : c + 1 + i - 1 = c + i
    BY <1>1, <1>3
  <2> HIDE DEF u
  <2> QED BY <2>1, <2>2, <2>3
<1>5. q = [i \in 1..lq |-> q[i]]
  OBVIOUS
<1> HIDE DEF u, lq
<1>6. q = [i \in 1..lq |-> a[c + i]]
  BY <1>2, <1>5
<1> QED BY <1>4, <1>6 DEF u, c, lq

\* The readable messages are the first ones of the queue.
LEMMA ReadableRun ==
    ASSUME NEW rq \in Seq(InMessage)
    PROVE  Readable(rq) = 1..ReadCount(rq)
<1> DEFINE R == Readable(rq)
           n == Cardinality(R)
<1>1. n \in 0..Len(rq) /\ Len(rq) \in Nat
  BY ReadCountType DEF ReadCount
<1>2. R \subseteq 1..Len(rq) /\ IsFiniteSet(1..Len(rq))
  BY <1>1, FS_Interval DEF Readable
<1>3. IsFiniteSet(R)
  BY <1>2, FS_Subset
<1>4. \A k \in R : \A j \in 1..k : j \in R
  BY DEF Readable
<1>5. n + 1 \notin R
  <2> SUFFICES ASSUME n + 1 \in R PROVE FALSE
    OBVIOUS
  <2>1. 1..(n + 1) \subseteq R
    BY <1>4
  <2>2. Cardinality(1..(n + 1)) <= n
    BY <1>3, <2>1, FS_Subset
  <2>3. Cardinality(1..(n + 1)) = n + 1
    <3>1. n + 1 \in Int /\ 1 <= n + 1
      BY <1>1
    <3> HIDE DEF n
    <3> QED BY <3>1, FS_Interval
  <2> HIDE DEF n
  <2> QED BY <1>1, <2>2, <2>3
<1>6. R \subseteq 1..n
  <2> SUFFICES ASSUME NEW k \in R, k \notin 1..n PROVE FALSE
    OBVIOUS
  <2>1. k \in 1..Len(rq) /\ n + 1 \in 1..k
    <3> HIDE DEF n, R
    <3> QED BY <1>1, <1>2
  <2> QED BY <1>4, <1>5, <2>1
<1>7. IsFiniteSet(1..n) /\ Cardinality(1..n) = n
  <2> HIDE DEF n
  <2> QED BY <1>1, FS_Interval
<1> QED BY <1>6, <1>7, FS_Subset DEF ReadCount

LEMMA ReadCountAccepts ==
    ASSUME NEW rq \in Seq(InMessage), NEW i \in 1..ReadCount(rq)
    PROVE  ~Oversize(rq[i])
<1>1. i \in Readable(rq)
  BY ReadableRun
<1>2. i \in 1..i
  <2>1. ReadCount(rq) \in Nat
    BY ReadCountType
  <2> QED BY <2>1
<1> QED BY <1>1, <1>2 DEF Readable

\* read_stream stops at the first message that to_payload refuses.
LEMMA ReadCountStops ==
    ASSUME NEW rq \in Seq(InMessage), ReadCount(rq) < Len(rq)
    PROVE  Oversize(rq[ReadCount(rq) + 1])
<1> DEFINE n == ReadCount(rq)
<1>1. n \in 0..Len(rq) /\ n < Len(rq) /\ Len(rq) \in Nat
  BY ReadCountType
<1>2. \A i \in 1..n : ~Oversize(rq[i])
  BY ReadCountAccepts
<1>3. Readable(rq) = 1..n
  BY ReadableRun
<1> HIDE DEF n
<1>4. n + 1 \notin Readable(rq)
  BY <1>1, <1>3
<1>5. n + 1 \in 1..Len(rq) /\ \A i \in 1..(n + 1) : i \in 1..n \/ i = n + 1
  BY <1>1
<1> QED BY <1>2, <1>4, <1>5 DEF Readable, n

\* read_stream empties the queue, or leaves it behind a refused message.
LEMMA ReadStreamReads ==
    ASSUME NEW s, Sound(s), Suffix(s)
    PROVE  LET r == ReadStream(s) IN
           Suffix(r) /\ (r.rq # <<>> => Refused(r)) /\ r.buffered = s.buffered
<1> DEFINE n == ReadCount(s.rq)
           rest == SubSeq(s.rq, n + 2, Len(s.rq))
           r == ReadStream(s)
<1>1. s.rq \in Seq(InMessage) /\ s.arrived \in Seq(InMessage)
  BY DEF Sound, Tunnel
<1>2. n \in 0..Len(s.rq) /\ Len(s.rq) \in Nat /\ Len(s.arrived) \in Nat
  BY <1>1, ReadCountType
<1>3. CASE s.stream = "none"
  BY <1>3 DEF ReadStream, Suffix
<1>4. CASE s.stream # "none"
  <2>1. r.rq = rest /\ r.arrived = s.arrived /\ r.stream = s.stream /\ r.buffered = s.buffered
    BY <1>4 DEF ReadStream, Sound, Tunnel
  <2> HIDE DEF r
  <2>2. CASE n = Len(s.rq)
    <3>1. rest = <<>> /\ Len(rest) = 0
      <4> HIDE DEF n
      <4> QED BY <1>1, <1>2, <2>2
    <3> HIDE DEF rest
    <3> QED BY <1>2, <2>1, <3>1 DEF Suffix, SuffixOf, r
  <2>3. CASE n < Len(s.rq)
    <3>1. Oversize(s.rq[n + 1])
      BY <1>1, <2>3, ReadCountStops
    <3> HIDE DEF n
    <3> DEFINE k == n + 1
    <3>2. k \in 1..Len(s.rq) /\ rest = SubSeq(s.rq, k + 1, Len(s.rq))
      BY <1>2, <2>3
    <3> HIDE DEF k, rest
    <3>3. SuffixOf(rest, s.arrived) /\ Len(s.arrived) - Len(rest) = Len(s.arrived) - Len(s.rq) + k
      BY <1>1, <3>2, SuffixDrop DEF Suffix
    <3> DEFINE at == Len(s.arrived) - Len(s.rq) + k
    <3>4. at \in 1..at
      <4>1. Len(s.rq) <= Len(s.arrived)
        BY DEF Suffix, SuffixOf
      <4> QED BY <1>2, <3>2, <4>1
    <3>5. s.arrived[at] = s.rq[k]
      BY <3>2 DEF Suffix, SuffixOf
    <3> HIDE DEF at
    <3>6. Refused(r)
      BY <2>1, <3>1, <3>3, <3>4, <3>5 DEF Refused, at, k
    <3> QED BY <1>4, <2>1, <3>3, <3>6 DEF Suffix, r
  <2> HIDE DEF n
  <2> QED BY <1>2, <2>2, <2>3
<1> QED BY <1>3, <1>4

-----------------------------------------------------------------------------
(* The order of the messages: the positions of the Message events in a log *)
(* and those of the acceptable messages among the first c that arrived are *)
(* listed side by side.                                                    *)

Told(log) == {i \in DOMAIN log : log[i].type = "Message"}
Taken(a, c) == {i \in 1..c : ~Oversize(a[i])}

\* ix lists the positions in P in increasing order.
Lists(ix, P) ==
    /\ ix \in Seq(Nat) /\ \A k \in 1..Len(ix) : ix[k] \in P
    /\ \A k, l \in 1..Len(ix) : k < l => ix[k] < ix[l]
    /\ \A p \in P : \E k \in 1..Len(ix) : ix[k] = p

Paired(log, a, c, ix, jx) ==
    /\ Lists(ix, Told(log))
    /\ Lists(jx, Taken(a, c))
    /\ Len(ix) = Len(jx)
    /\ \A k \in 1..Len(ix) : log[ix[k]].len = Payload(a[jx[k]])

Matched(log, a, c) == \E ix, jx : Paired(log, a, c, ix, jx)

\* The k-th of a list of positions has rank k, and there are as many
\* positions as the list is long.
LEMMA ListsRank ==
    ASSUME NEW P \in SUBSET Nat, NEW ix, Lists(ix, P), NEW k \in 1..Len(ix)
    PROVE  Rank(P, ix[k]) = k
<1> DEFINE below == {p \in P : p <= ix[k]}
           f == [i \in 1..k |-> ix[i]]
<1>0. ix \in Seq(Nat) /\ \A i \in 1..Len(ix) : ix[i] \in P
  BY DEF Lists
<1>1. /\ Len(ix) \in Nat /\ k \in Nat /\ k <= Len(ix)
      /\ \A i \in 1..Len(ix) : ix[i] \in Nat
  BY <1>0
<1>2. \A i \in 1..k : ix[i] \in below
  <2> SUFFICES ASSUME NEW i \in 1..k PROVE ix[i] \in below
    OBVIOUS
  <2>1. i \in 1..Len(ix) /\ (i < k \/ i = k)
    BY <1>1
  <2>2. ix[i] < ix[k] \/ i = k
    BY <2>1 DEF Lists
  <2> QED BY <1>0, <1>1, <2>1, <2>2
<1>3. \A p \in below : \E i \in 1..k : ix[i] = p
  <2> SUFFICES ASSUME NEW p \in below PROVE \E i \in 1..k : ix[i] = p
    OBVIOUS
  <2>1. PICK i \in 1..Len(ix) : ix[i] = p
    BY DEF Lists
  <2>2. i \in Nat /\ ~(k < i)
    <3>1. k < i => ix[k] < ix[i]
      BY <2>1 DEF Lists
    <3> QED BY <1>1, <2>1, <3>1
  <2> QED BY <1>1, <2>1, <2>2
<1>4. \A i, j \in 1..k : ix[i] = ix[j] => i = j
  <2> SUFFICES ASSUME NEW i \in 1..k, NEW j \in 1..k, i # j PROVE ix[i] # ix[j]
    OBVIOUS
  <2>1. i \in 1..Len(ix) /\ j \in 1..Len(ix) /\ (i < j \/ j < i)
    BY <1>1
  <2>2. ix[i] < ix[j] \/ ix[j] < ix[i]
    BY <2>1 DEF Lists
  <2> QED BY <1>1, <2>1, <2>2
<1> HIDE DEF below
<1>5. f \in Bijection(1..k, below)
  BY <1>2, <1>3, <1>4 DEF Bijection, Injection, Surjection, IsInjective
<1>6. IsFiniteSet(1..k) /\ Cardinality(1..k) = k
  BY <1>1, FS_Interval
<1> HIDE DEF f
<1>7. ExistsBijection(1..k, below)
  BY <1>5 DEF ExistsBijection
<1>8. Cardinality(below) = k
  BY <1>6, <1>7, FS_Bijection
<1> QED BY <1>8 DEF Rank, below

LEMMA ListsSize ==
    ASSUME NEW P \in SUBSET Nat, NEW ix, Lists(ix, P)
    PROVE  Cardinality(P) = Len(ix)
<1> DEFINE n == Len(ix)
<1>1. n \in Nat /\ \A k \in 1..n : ix[k] \in P
  BY DEF Lists
<1>2. CASE n = 0
  <2>1. P = {}
    BY <1>2 DEF Lists
  <2> QED BY <1>2, <2>1, FS_EmptySet
<1>3. CASE n # 0
  <2>1. n \in 1..n
    BY <1>1, <1>3
  <2>2. \A p \in P : p <= ix[n]
    <3> SUFFICES ASSUME NEW p \in P PROVE p <= ix[n]
      OBVIOUS
    <3>1. PICK k \in 1..n : ix[k] = p
      BY DEF Lists
    <3>2. k < n \/ k = n
      BY <1>1
    <3>3. k < n => ix[k] < ix[n]
      BY <2>1, <3>1 DEF Lists
    <3>4. ix[n] \in P /\ p \in Nat
      BY <1>1, <2>1
    <3>5. ix[n] \in Nat
      BY <3>4
    <3> QED BY <3>1, <3>2, <3>3, <3>4, <3>5
  <2>3. {p \in P : p <= ix[n]} = P
    BY <2>2
  <2>4. Rank(P, ix[n]) = n
    BY <2>1, ListsRank
  <2> QED BY <2>3, <2>4 DEF Rank
<1> QED BY <1>2, <1>3

\* Positions a + 1 .. a + n behind all the others are listed behind them.
Run(a, n) == [i \in 1..n |-> a + i]

LEMMA ListsRun ==
    ASSUME NEW P \in SUBSET Nat, NEW ix, Lists(ix, P), NEW a \in Nat, NEW n \in Nat,
           \A p \in P : p <= a
    PROVE  Lists(ix \o Run(a, n), P \cup ((a + 1)..(a + n))) /\ Len(ix \o Run(a, n)) = Len(ix) + n
<1> DEFINE Q == P \cup ((a + 1)..(a + n))
           m == Len(ix)
           run == Run(a, n)
           x == ix \o run
<1>1. ix \in Seq(Nat) /\ \A i \in 1..m : ix[i] \in P /\ ix[i] <= a
  BY DEF Lists
<1>2. m \in Nat /\ \A i \in 1..m : ix[i] \in Nat
  BY <1>1
<1>3. run \in Seq(Nat) /\ Len(run) = n /\ \A i \in 1..n : run[i] = a + i
  BY DEF Run
<1> HIDE DEF run
<1>5. /\ x \in Seq(Nat) /\ Len(x) = m + n
      /\ \A i \in 1..m : x[i] = ix[i]
      /\ \A i \in 1..n : x[m + i] = a + i
  <2>1. ix \in Seq(Nat) /\ run \in Seq(Nat)
    BY <1>1, <1>3
  <2>2. /\ x \in Seq(Nat) /\ Len(x) = m + Len(run)
        /\ \A i \in 1..m : x[i] = ix[i]
        /\ \A i \in 1..Len(run) : x[m + i] = run[i]
    BY <2>1
  <2> HIDE DEF x, m
  <2> QED BY <1>3, <2>2
<1>6. \A i \in 1..(m + n) : \/ i \in 1..m /\ x[i] = ix[i]
                            \/ i - m \in 1..n /\ i > m /\ x[i] = a + (i - m)
  <2> SUFFICES ASSUME NEW i \in 1..(m + n), i \notin 1..m
               PROVE  i - m \in 1..n /\ i > m /\ x[i] = a + (i - m)
    BY <1>5
  <2> DEFINE j == i - m
  <2>1. j \in 1..n /\ i = m + j /\ i > m
    BY <1>2
  <2> HIDE DEF j
  <2>2. x[i] = a + j
    BY <1>5, <2>1
  <2> QED BY <2>1, <2>2 DEF j
<1> HIDE DEF m, x, Q
<1>7. ASSUME NEW k \in 1..Len(x), NEW l \in 1..Len(x), k < l PROVE x[k] < x[l]
  <2>1. k \in 1..(m + n) /\ l \in 1..(m + n)
    BY <1>5
  <2>2. CASE k \in 1..m /\ l \in 1..m
    <3>1. ix[k] < ix[l]
      BY <1>7, <2>2 DEF Lists, m
    <3> QED BY <1>5, <2>2, <3>1
  <2>3. CASE k \in 1..m /\ l \notin 1..m
    <3>1. x[l] = a + (l - m) /\ l - m \in 1..n
      BY <1>6, <2>1, <2>3
    <3>2. x[k] = ix[k] /\ ix[k] \in Nat /\ ix[k] <= a
      BY <1>1, <1>2, <1>5, <2>3
    <3> QED BY <3>1, <3>2
  <2>4. CASE k \notin 1..m
    <3>1. l \notin 1..m
      BY <1>2, <1>7, <2>1, <2>4
    <3>2. x[l] = a + (l - m) /\ x[k] = a + (k - m)
      BY <1>6, <2>1, <2>4, <3>1
    <3> QED BY <1>2, <1>7, <2>1, <3>2
  <2> QED BY <2>2, <2>3, <2>4
<1>8. ASSUME NEW p \in Q PROVE \E k \in 1..Len(x) : x[k] = p
  <2>1. CASE p \in P
    <3>1. PICK k \in 1..m : ix[k] = p
      BY <2>1 DEF Lists, m
    <3>2. k \in 1..Len(x)
      BY <1>2, <1>5
    <3> QED BY <1>5, <3>1, <3>2
  <2>2. CASE p \in (a + 1)..(a + n)
    <3> DEFINE j == p - a
    <3>1. j \in 1..n /\ p = a + j /\ m + j \in 1..Len(x)
      BY <1>2, <1>5, <2>2
    <3> HIDE DEF j
    <3> QED BY <1>5, <3>1
  <2> QED BY <2>1, <2>2 DEF Q
<1>9. ASSUME NEW k \in 1..Len(x) PROVE x[k] \in Q
  <2>1. CASE k \in 1..m
    BY <1>1, <1>5, <2>1 DEF Q
  <2>2. CASE k \notin 1..m
    <3>1. x[k] = a + (k - m) /\ k - m \in 1..n
      BY <1>5, <1>6, <2>2
    <3> QED BY <3>1 DEF Q
  <2> QED BY <2>1, <2>2
<1> QED BY <1>5, <1>7, <1>8, <1>9 DEF Lists, Q, x, run, m

\* What follows a log leaves its positions alone.
LEMMA ToldConcat ==
    ASSUME NEW log \in Seq(Event), NEW w \in Seq(Event)
    PROVE  /\ (\A i \in 1..Len(w) : w[i].type # "Message") => Told(log \o w) = Told(log)
           /\ (\A i \in 1..Len(w) : w[i].type = "Message")
                 => Told(log \o w) = Told(log) \cup ((Len(log) + 1)..(Len(log) + Len(w)))
           /\ \A i \in Told(log) : i \in Nat /\ i <= Len(log) /\ (log \o w)[i] = log[i]
<1> DEFINE m == Len(log)
           n == Len(w)
           x == log \o w
<1>1. /\ m \in Nat /\ n \in Nat /\ DOMAIN log = 1..m /\ DOMAIN x = 1..(m + n)
      /\ \A i \in 1..m : x[i] = log[i]
      /\ \A i \in 1..n : x[m + i] = w[i]
  OBVIOUS
<1> HIDE DEF x, m, n
<1>2. \A i \in 1..(m + n) : i \in 1..m \/ (i \in (m + 1)..(m + n) /\ \E j \in 1..n : i = m + j)
  <2> SUFFICES ASSUME NEW i \in 1..(m + n), i \notin 1..m
               PROVE  i \in (m + 1)..(m + n) /\ \E j \in 1..n : i = m + j
    OBVIOUS
  <2>1. i - m \in 1..n /\ i = m + (i - m) /\ i \in (m + 1)..(m + n)
    BY <1>1
  <2> QED BY <2>1
<1>3. \A i \in (m + 1)..(m + n) : i \in 1..(m + n) /\ i \notin 1..m
  BY <1>1
<1>4. \A i \in 1..m : i \in 1..(m + n) /\ i \in Nat /\ i <= m
  BY <1>1
<1>5. ASSUME \A i \in 1..n : w[i].type # "Message" PROVE Told(x) = Told(log)
  <2>1. \A i \in 1..(m + n) : x[i].type = "Message" <=> (i \in 1..m /\ log[i].type = "Message")
    BY <1>1, <1>2, <1>5
  <2> QED BY <1>1, <1>4, <2>1 DEF Told
<1>6. ASSUME \A i \in 1..n : w[i].type = "Message"
      PROVE  Told(x) = Told(log) \cup ((m + 1)..(m + n))
  <2>1. \A i \in (m + 1)..(m + n) : x[i].type = "Message"
    <3> SUFFICES ASSUME NEW i \in (m + 1)..(m + n) PROVE x[i].type = "Message"
      OBVIOUS
    <3>1. i \in 1..(m + n) /\ i \notin 1..m
      BY <1>3
    <3>2. PICK j \in 1..n : i = m + j
      BY <1>2, <3>1
    <3>3. x[m + j] = w[j]
      BY <1>1, <3>2
    <3> QED BY <1>6, <3>2, <3>3
  <2>2. Told(x) \subseteq Told(log) \cup ((m + 1)..(m + n))
    BY <1>1, <1>2 DEF Told
  <2>3. Told(log) \cup ((m + 1)..(m + n)) \subseteq Told(x)
    BY <1>1, <1>3, <1>4, <2>1 DEF Told
  <2> QED BY <2>2, <2>3
<1>7. \A i \in Told(log) : i \in Nat /\ i <= m /\ x[i] = log[i]
  BY <1>1, <1>4 DEF Told
<1> QED BY <1>5, <1>6, <1>7 DEF x, m, n

\* A log that gains no message, and an arrival behind the first c, change
\* nothing.
LEMMA MatchedQuiet ==
    ASSUME NEW log \in Seq(Event), NEW w \in Seq(Event), NEW a, NEW c, Matched(log, a, c),
           \A i \in 1..Len(w) : w[i].type # "Message"
    PROVE  Matched(log \o w, a, c)
<1>1. PICK ix, jx : Paired(log, a, c, ix, jx)
  BY DEF Matched
<1>2. Told(log \o w) = Told(log) /\ \A i \in Told(log) : (log \o w)[i] = log[i]
  BY ToldConcat
<1>3. Paired(log \o w, a, c, ix, jx)
  BY <1>1, <1>2 DEF Paired, Lists
<1> QED BY <1>3 DEF Matched

LEMMA MatchedArrival ==
    ASSUME NEW log, NEW a \in Seq(InMessage), NEW m \in Seq(InMessage), NEW c \in 0..Len(a),
           Matched(log, a, c)
    PROVE  Matched(log, a \o m, c)
<1>1. PICK ix, jx : Paired(log, a, c, ix, jx)
  BY DEF Matched
<1>2. \A i \in 1..c : (a \o m)[i] = a[i]
  <2>1. \A i \in 1..c : i \in 1..Len(a)
    OBVIOUS
  <2>2. \A i \in 1..Len(a) : (a \o m)[i] = a[i]
    OBVIOUS
  <2> QED BY <2>1, <2>2
<1>3. Taken(a \o m, c) = Taken(a, c) /\ \A i \in Taken(a, c) : (a \o m)[i] = a[i]
  BY <1>2 DEF Taken
<1>4. Paired(log, a \o m, c, ix, jx)
  BY <1>1, <1>3 DEF Paired, Lists
<1> QED BY <1>4 DEF Matched

\* The next n messages are told, and a refused one behind them is skipped.
LEMMA MatchedRead ==
    ASSUME NEW log \in Seq(Event), NEW w \in Seq(Event), NEW a, NEW c \in Nat,
           NEW n \in Nat, NEW e, Matched(log, a, c), Len(w) = n,
           \A i \in 1..n : w[i] = Message(Payload(a[c + i])) /\ ~Oversize(a[c + i]),
           \/ e = c + n
           \/ e = c + n + 1 /\ Oversize(a[e])
    PROVE  Matched(log \o w, a, e)
<1>1. PICK ix, jx : Paired(log, a, c, ix, jx)
  BY DEF Matched
<1> DEFINE T == Told(log)
           K == Taken(a, c)
           m == Len(log)
           x == ix \o Run(m, n)
           y == jx \o Run(c, n)
           lw == log \o w
<1>2. /\ Lists(ix, T) /\ Lists(jx, K) /\ Len(ix) = Len(jx)
      /\ \A k \in 1..Len(ix) : log[ix[k]].len = Payload(a[jx[k]])
  BY <1>1 DEF Paired
<1>3. \A i \in 1..n : w[i].type = "Message" /\ w[i].len = Payload(a[c + i])
  BY DEF Message
<1>4. /\ Told(lw) = T \cup ((m + 1)..(m + n))
      /\ \A i \in T : i \in Nat /\ i <= m /\ lw[i] = log[i]
  <2>1. \A i \in 1..Len(w) : w[i].type = "Message"
    BY <1>3
  <2>2. Told(lw) = T \cup ((m + 1)..(m + Len(w)))
    BY <2>1, ToldConcat, Zenon
  <2>3. \A i \in T : i \in Nat /\ i <= m /\ lw[i] = log[i]
    BY ToldConcat, Zenon
  <2> QED BY <2>2, <2>3, Zenon
<1>5. Taken(a, e) = K \cup ((c + 1)..(c + n))
  <2>1. \A i \in (c + 1)..(c + n) : i - c \in 1..n /\ c + (i - c) = i
    OBVIOUS
  <2>2. \A i \in (c + 1)..(c + n) : ~Oversize(a[i])
    <3> SUFFICES ASSUME NEW i \in (c + 1)..(c + n) PROVE ~Oversize(a[i])
      OBVIOUS
    <3> DEFINE j == i - c
    <3>1. j \in 1..n /\ c + j = i
      BY <2>1
    <3> HIDE DEF j
    <3> QED BY <3>1
  <2>3. \A i \in 1..e : i \in 1..c \/ i \in (c + 1)..(c + n) \/ (i = e /\ Oversize(a[e]))
    OBVIOUS
  <2>4. (\A i \in 1..c : i \in 1..e) /\ (\A i \in (c + 1)..(c + n) : i \in 1..e)
    OBVIOUS
  <2> QED BY <2>2, <2>3, <2>4 DEF Taken
<1>6. m \in Nat /\ T \in SUBSET Nat /\ K \in SUBSET Nat /\ \A i \in K : i <= c
  <2>1. T \in SUBSET Nat
    BY <1>4
  <2>2. K \in SUBSET Nat /\ \A i \in K : i <= c
    BY DEF Taken
  <2> QED BY <2>1, <2>2
<1>7. Lists(x, Told(lw)) /\ Len(x) = Len(ix) + n
  <2>1. \A i \in T : i <= m
    BY <1>4
  <2> HIDE DEF T, K, m
  <2>2. Lists(x, T \cup ((m + 1)..(m + n))) /\ Len(x) = Len(ix) + n
    BY <1>2, <1>6, <2>1, ListsRun, ZenonT(60)
  <2> HIDE DEF x, lw
  <2> QED BY <1>4, <2>2
<1>8. Lists(y, Taken(a, e)) /\ Len(y) = Len(jx) + n
  <2> HIDE DEF T, K, m
  <2> QED BY <1>2, <1>5, <1>6, ListsRun
<1>9. ASSUME NEW k \in 1..Len(x) PROVE lw[x[k]].len = Payload(a[y[k]])
  <2>1. ix \in Seq(Nat) /\ jx \in Seq(Nat) /\ \A i \in 1..Len(ix) : ix[i] \in T
    BY <1>2 DEF Lists
  <2>2. Run(m, n) \in Seq(Nat) /\ Len(Run(m, n)) = n /\ \A i \in 1..n : Run(m, n)[i] = m + i
    <3> HIDE DEF m
    <3> QED BY <1>6 DEF Run
  <2>3. Run(c, n) \in Seq(Nat) /\ Len(Run(c, n)) = n /\ \A i \in 1..n : Run(c, n)[i] = c + i
    BY DEF Run
  <2>4. CASE k \in 1..Len(ix)
    <3>1. x[k] = ix[k] /\ y[k] = jx[k]
      <4> HIDE DEF m
      <4>1. k \in 1..Len(jx)
        BY <1>2, <2>4
      <4> QED BY <2>1, <2>2, <2>3, <2>4, <4>1
    <3> HIDE DEF x, y, lw, T
    <3> QED BY <1>2, <1>4, <2>1, <2>4, <3>1
  <2>5. CASE k \notin 1..Len(ix)
    <3> DEFINE j == k - Len(ix)
    <3>1. j \in 1..n /\ k = Len(ix) + j /\ k = Len(jx) + j
      <4> HIDE DEF x
      <4> QED BY <1>2, <1>7, <2>1, <2>5
    <3> HIDE DEF j, m
    <3>2. x[k] = m + j
      BY <2>1, <2>2, <3>1
    <3>3. y[k] = c + j
      BY <2>1, <2>3, <3>1, SMTT(30)
    <3>4. lw[m + j] = w[j]
      <4>1. \A i \in 1..Len(w) : lw[Len(log) + i] = w[i]
        OBVIOUS
      <4> QED BY <3>1, <4>1 DEF m
    <3> QED BY <1>3, <3>1, <3>2, <3>3, <3>4
  <2> QED BY <2>4, <2>5
<1>10. Paired(lw, a, e, x, y)
  <2> HIDE DEF x, y, lw
  <2> QED BY <1>2, <1>7, <1>8, <1>9 DEF Paired
<1> QED BY <1>10 DEF Matched

\* poll_event hands a datagram out of the middle of the log.
LEMMA MatchedPolled ==
    ASSUME NEW d \in Seq(Event), NEW es \in Seq(Event), es # <<>>, Head(es) = SendDatagram,
           NEW a, NEW c, Matched(d \o es, a, c)
    PROVE  Matched(d \o Tail(es), a, c)
<1> DEFINE log == d \o es
           new == d \o Tail(es)
           m == Len(d)
           n == Len(es)
           shift(p) == IF p > m THEN p - 1 ELSE p
<1>1. PICK ix, jx : Paired(log, a, c, ix, jx)
  BY DEF Matched
<1>2. m \in Nat /\ n \in Nat /\ n >= 1
  OBVIOUS
<1>3. /\ DOMAIN log = 1..(m + n) /\ log[m + 1].type # "Message"
      /\ \A i \in 1..m : log[i] = d[i]
      /\ \A i \in 1..n : log[m + i] = es[i]
  <2>1. /\ DOMAIN log = 1..(m + n)
        /\ \A i \in 1..m : log[i] = d[i]
        /\ \A i \in 1..n : log[m + i] = es[i]
    OBVIOUS
  <2>2. es[1].type # "Message"
    BY DEF SendDatagram
  <2> HIDE DEF log, m, n
  <2> QED BY <1>2, <2>1, <2>2
<1>4. /\ DOMAIN new = 1..(m + n - 1)
      /\ \A i \in 1..m : new[i] = d[i]
      /\ \A i \in 1..(n - 1) : new[m + i] = es[i + 1]
  <2> DEFINE tl == Tail(es)
  <2>1. tl \in Seq(Event) /\ Len(tl) = n - 1 /\ \A i \in 1..(n - 1) : tl[i] = es[i + 1]
    OBVIOUS
  <2> HIDE DEF tl
  <2>2. /\ DOMAIN (d \o tl) = 1..(m + Len(tl))
        /\ \A i \in 1..m : (d \o tl)[i] = d[i]
        /\ \A i \in 1..Len(tl) : (d \o tl)[m + i] = tl[i]
    BY <2>1
  <2>3. m + Len(tl) = m + n - 1
    BY <1>2, <2>1
  <2> QED BY <2>1, <2>2, <2>3 DEF tl
<1> HIDE DEF log, new, m, n
<1>5. ASSUME NEW p \in 1..(m + n), p # m + 1
      PROVE  shift(p) \in 1..(m + n - 1) /\ new[shift(p)] = log[p]
  <2>1. CASE p <= m
    BY <1>2, <1>3, <1>4, <2>1
  <2>2. CASE p > m
    <3> DEFINE j == p - m - 1
    <3>1. j \in 1..(n - 1) /\ p = m + (j + 1) /\ shift(p) = m + j /\ j + 1 \in 1..n
      BY <1>2, <1>5, <2>2
    <3> HIDE DEF j
    <3> QED BY <1>2, <1>3, <1>4, <3>1
  <2> QED BY <1>2, <2>1, <2>2
<1>6. \A p \in Told(log) : p \in Nat /\ p # m + 1 /\ p \in 1..(m + n)
  BY <1>2, <1>3 DEF Told
<1>7. \A p \in Told(log) : shift(p) \in Nat /\ shift(p) \in Told(new) /\ new[shift(p)] = log[p]
  BY <1>2, <1>4, <1>5, <1>6 DEF Told
<1>8. ASSUME NEW q \in Told(new) PROVE \E p \in Told(log) : shift(p) = q
  <2> DEFINE p == IF q > m THEN q + 1 ELSE q
  <2>1. q \in 1..(m + n - 1) /\ new[q].type = "Message"
    BY <1>4 DEF Told
  <2>2. p \in 1..(m + n) /\ p # m + 1 /\ shift(p) = q
    BY <1>2, <2>1
  <2> HIDE DEF p
  <2>3. log[p] = new[q]
    BY <1>5, <2>2
  <2>4. p \in Told(log)
    BY <1>3, <2>1, <2>2, <2>3 DEF Told
  <2> QED BY <2>2, <2>4
<1>9. \A p, q \in Told(log) : p < q => shift(p) < shift(q)
  BY <1>2, <1>6
<1> HIDE DEF shift
<1> DEFINE x == [k \in 1..Len(ix) |-> shift(ix[k])]
<1>10. /\ ix \in Seq(Nat) /\ Len(ix) \in Nat
       /\ \A k \in 1..Len(ix) : ix[k] \in Told(log)
       /\ \A k, l \in 1..Len(ix) : k < l => ix[k] < ix[l]
       /\ \A p \in Told(log) : \E k \in 1..Len(ix) : ix[k] = p
  BY <1>1 DEF Paired, Lists
<1>11. x \in Seq(Nat) /\ Len(x) = Len(ix) /\ \A k \in 1..Len(ix) : x[k] = shift(ix[k])
  BY <1>7, <1>10
<1> HIDE DEF x
<1>12. Lists(x, Told(new))
  <2>1. \A k, l \in 1..Len(x) : k < l => x[k] < x[l]
    BY <1>9, <1>10, <1>11
  <2>2. \A k \in 1..Len(x) : x[k] \in Told(new)
    BY <1>7, <1>10, <1>11
  <2>3. ASSUME NEW q \in Told(new) PROVE \E k \in 1..Len(x) : x[k] = q
    <3>1. PICK p \in Told(log) : shift(p) = q
      BY <1>8
    <3>2. PICK k \in 1..Len(ix) : ix[k] = p
      BY <1>10
    <3> QED BY <1>11, <3>1, <3>2
  <2> QED BY <1>11, <2>1, <2>2, <2>3 DEF Lists
<1>13. \A k \in 1..Len(x) : new[x[k]] = log[ix[k]]
  BY <1>7, <1>10, <1>11
<1>14. Paired(new, a, c, x, jx)
  BY <1>1, <1>11, <1>12, <1>13 DEF Paired
<1> QED BY <1>14 DEF Matched, new

-----------------------------------------------------------------------------
(* The other methods.                                                      *)

Kept(s, r) ==
    /\ r.rq = s.rq /\ r.arrived = s.arrived /\ r.stream = s.stream
    /\ r.pend = s.pend /\ r.buffered = s.buffered

LEMMA KeptReads ==
    ASSUME NEW s, NEW r, Kept(s, r)
    PROVE  (Suffix(s) => Suffix(r)) /\ (Reads(s) => Reads(r))
BY DEF Kept, Reads, Suffix, Refused

LEMMA KeptDrains ==
    ASSUME NEW s, Sound(s), NEW o, NEW reason
    PROVE  /\ Kept(s, [s EXCEPT !.err = FALSE])
           /\ Kept(s, Finish(s, reason))
           /\ Kept(s, MaybeOpen(s))
           /\ Kept(s, DrainIceEvents(s))
           /\ Kept(s, DrainIceWrites(s))
           /\ Kept(s, DrainDtlsTransmits(s))
           /\ Kept(s, DrainSctpTransmits(s, o))
           /\ Kept(s, EnsureDtls(s, o))
<1> USE DEF Kept, Sound, Tunnel
<1>1. Kept(s, [s EXCEPT !.err = FALSE])
  OBVIOUS
<1>2. Kept(s, Finish(s, reason))
  BY DEF Finish, Push
<1>3. Kept(s, MaybeOpen(s))
  BY DEF MaybeOpen, Push
<1>4. Kept(s, DrainIceEvents(s))
  BY DEF DrainIceEvents
<1>5. Kept(s, DrainIceWrites(s))
  BY DEF DrainIceWrites, Push
<1>6. Kept(s, DrainDtlsTransmits(s))
  BY DEF DrainDtlsTransmits, Push
<1>7. Kept(s, DrainSctpTransmits(s, o))
  BY DEF DrainSctpTransmits
<1>8. Kept(s, EnsureDtls(s, o))
  BY DEF EnsureDtls, ActivateDtls
<1> QED BY <1>1, <1>2, <1>3, <1>4, <1>5, <1>6, <1>7, <1>8

LEMMA DrainChannelReads ==
    ASSUME NEW s, Sound(s), Reads(s)
    PROVE  Reads(DrainChannel(s)) /\ DrainChannel(s).buffered = s.buffered
<1> DEFINE r == DrainChannel(s)
<1>1. /\ r.rq = s.rq /\ r.arrived = s.arrived /\ r.pend = s.pend /\ r.buffered = s.buffered
      /\ r.stream = s.stream \/ r.stream = "configured"
  BY DEF DrainChannel, OpenStream, Sound, Tunnel
<1> HIDE DEF r
<1> QED BY <1>1 DEF Reads, Suffix, Refused, r

LEMMA DrainSctpReads ==
    ASSUME NEW s, Sound(s), Reads(s)
    PROVE  Reads(DrainSctp(s)) /\ DrainSctp(s).buffered = s.buffered
<1> DEFINE polled == [s EXCEPT !.pend = {}]
           a == IF "connected" \in s.pend
                THEN [polled EXCEPT !.sctp_connected = TRUE, !.trace.sctp = First(@, s.last_now)]
                ELSE polled
           b == IF "lost" \in s.pend THEN Finish(a, "Remote") ELSE a
<1>1. /\ a.rq = s.rq /\ a.arrived = s.arrived /\ a.stream = s.stream
      /\ a.pend = {} /\ a.buffered = s.buffered
  BY DEF Sound, Tunnel
<1>2. Sound(a)
  BY PolledSound
<1> HIDE DEF a
<1>3. Sound(b) /\ Kept(a, b)
  <2>1. "Remote" \in CloseReason
    BY DEF CloseReason
  <2> QED BY <1>2, <2>1, FinishSound, KeptDrains DEF Kept
<1>4. DrainSctp(s) = IF "readable" \in s.pend THEN ReadStream(b) ELSE b
  BY DEF DrainSctp, a
<1> HIDE DEF b
<1>5. /\ b.rq = s.rq /\ b.arrived = s.arrived /\ b.stream = s.stream
      /\ b.buffered = s.buffered
  BY <1>1, <1>3 DEF Kept
<1>6. Suffix(b)
  BY <1>5 DEF Reads, Suffix
<1>7. CASE "readable" \in s.pend
  BY <1>3, <1>4, <1>5, <1>6, <1>7, ReadStreamReads DEF Reads
<1>8. CASE "readable" \notin s.pend
  BY <1>4, <1>5, <1>6, <1>8 DEF Reads, Refused
<1> QED BY <1>7, <1>8

LEMMA PumpReads ==
    ASSUME NEW s, Sound(s), Reads(s), NEW o \in Outcome
    PROVE  Reads(Pump(s, o)) /\ Pump(s, o).buffered = s.buffered
<1> DEFINE x == DrainIceEvents(s)
           y == DrainIceWrites(x)
           e == EnsureDtls(y, o)
           a == DrainSctp(e)
           b == DrainChannel(a)
           c == DrainSctpTransmits(b, o)
           f == DrainDtlsTransmits(c)
           g == IF e.dtls_started THEN PumpProtocol(e, o) ELSE e
           Good(r) == Sound(r) /\ Reads(r) /\ r.buffered = s.buffered
<1>1. Good(x)
  BY DrainIceEventsSound, KeptDrains, KeptReads DEF Kept
<1>2. Good(y)
  <2> HIDE DEF x
  <2> QED BY <1>1, DrainIceWritesSound, KeptDrains, KeptReads DEF Kept
<1>3. Good(e)
  <2> HIDE DEF y
  <2>1. Kept(y, e)
    BY <1>2, KeptDrains
  <2>2. Sound(e)
    BY <1>2, EnsureDtlsSound
  <2> HIDE DEF e
  <2> QED BY <1>2, <2>1, <2>2, KeptReads DEF Kept
<1>4. Good(a)
  <2> HIDE DEF e
  <2> QED BY <1>3, DrainSctpSound, DrainSctpReads
<1>5. Good(b)
  <2> HIDE DEF a
  <2> QED BY <1>4, DrainChannelSound, DrainChannelReads
<1>6. Good(c)
  <2> HIDE DEF b
  <2> QED BY <1>5, DrainSctpTransmitsSound, KeptDrains, KeptReads DEF Kept
<1>7. Good(f)
  <2> HIDE DEF c
  <2> QED BY <1>6, DrainDtlsTransmitsSound, KeptDrains, KeptReads DEF Kept
<1>8. g \in {e, a, b, c, f}
  BY DEF PumpProtocol
<1>9. Pump(s, o) = IF g.err THEN [g EXCEPT !.err = FALSE] ELSE MaybeOpen(g)
  BY DEF Pump
<1> HIDE DEF e, a, b, c, f, g
<1>10. Good(g)
  BY <1>3, <1>4, <1>5, <1>6, <1>7, <1>8
<1>11. Kept(g, MaybeOpen(g)) /\ Kept(g, [g EXCEPT !.err = FALSE])
  BY <1>10, KeptDrains
<1>12. Kept(g, Pump(s, o))
  BY <1>9, <1>11
<1> QED BY <1>10, <1>12, KeptReads DEF Kept

LEMMA HandleAssociationEventReads ==
    ASSUME NEW s, Sound(s), Reads(s), NEW p \in Packet
    PROVE  LET r == HandleAssociationEvent(s, p) IN Reads(r) /\ r.buffered <= s.buffered
<1> DEFINE r == HandleAssociationEvent(s, p)
           ar == s.arrived \o p.data
           rq == s.rq \o p.data
<1>1. /\ s.rq \in Seq(InMessage) /\ s.arrived \in Seq(InMessage) /\ p.data \in Seq(InMessage)
      /\ s.buffered \in Nat
  BY DEF Sound, Tunnel, Packet
<1>2. /\ r.rq = IF p.lost = "purged" THEN <<>> ELSE rq
      /\ r.arrived = ar
      /\ r.buffered \in {0, s.buffered}
      /\ p.lost # "purged" => /\ r.stream = s.stream \/ r.stream = "default"
                              /\ p.data # <<>> => r.stream # "none"
      /\ p.data # <<>> => "readable" \in r.pend
      /\ "readable" \in s.pend => "readable" \in r.pend
  BY DEF HandleAssociationEvent, Sound, Tunnel
<1> HIDE DEF r
<1>3. r.buffered <= s.buffered
  BY <1>1, <1>2
<1>4. CASE p.lost = "purged"
  <2>1. ar \in Seq(InMessage)
    BY <1>1
  <2>2. r.rq = <<>> /\ Len(r.rq) = 0 /\ Len(r.arrived) \in Nat
    <3> HIDE DEF ar
    <3> QED BY <1>2, <1>4, <2>1
  <2> QED BY <1>3, <2>2 DEF Reads, Suffix, SuffixOf, r
<1>5. CASE p.lost # "purged" /\ p.data = <<>>
  <2>1. rq = s.rq /\ ar = s.arrived
    BY <1>1, <1>5
  <2> HIDE DEF rq, ar
  <2> QED BY <1>2, <1>3, <1>5, <2>1 DEF Reads, Suffix, Refused, r
<1>6. CASE p.lost # "purged" /\ p.data # <<>>
  <2>1. SuffixOf(rq, ar)
    BY <1>1, SuffixConcat DEF Reads, Suffix
  <2> HIDE DEF rq, ar
  <2> QED BY <1>2, <1>3, <1>6, <2>1 DEF Reads, Suffix, r
<1> QED BY <1>4, <1>5, <1>6

LEMMA DtlsStepReads ==
    ASSUME NEW s, Sound(s), Reads(s), NEW e \in DtlsEvent, NEW at, NEW o
    PROVE  LET r == DtlsStep(s, e, at, o) IN Reads(r) /\ r.buffered <= s.buffered
<1> DEFINE done == [s EXCEPT !.dtls_connected = TRUE, !.trace.dtls = First(@, at),
                             !.dtlsOut = TRUE]
           r == DtlsStep(s, e, at, o)
<1>1. s.buffered \in Nat /\ s.buffered <= s.buffered
  BY DEF Sound, Tunnel
<1>2. Kept(s, s) /\ Kept(s, done) /\ Kept(s, StartSctp(done, o)) /\ Kept(s, [s EXCEPT !.dtlsOut = TRUE])
  BY DEF Kept, Sound, Tunnel, StartSctp
<1>3. CASE e.type = "app" /\ r = FeedSctp(s, e.packet)
  <2>1. e.packet \in Packet
    BY <1>3 DEF DtlsEvent
  <2>2. Kept(s, [s EXCEPT !.assoc = "handshaking", !.sctpOut = TRUE])
    BY DEF Kept, Sound, Tunnel
  <2>3. r = HandleAssociationEvent(s, e.packet) \/ Kept(s, r)
    BY <1>2, <1>3, <2>2 DEF FeedSctp
  <2> HIDE DEF r
  <2> QED BY <1>1, <2>1, <2>3, HandleAssociationEventReads, KeptReads DEF Kept, r
<1>4. CASE r \in {s, [s EXCEPT !.dtlsOut = TRUE], done, StartSctp(done, o)}
  <2>1. Kept(s, r)
    BY <1>2, <1>4
  <2> HIDE DEF r
  <2> QED BY <1>1, <2>1, KeptReads DEF Kept, r
<1> QED BY <1>3, <1>4 DEF DtlsStep

LEMMA IngestReads ==
    ASSUME NEW s, Sound(s), Reads(s), ~s.err, Settled(s), NEW d \in Datagram,
           NEW at, at = s.last_now, NEW o \in Outcome
    PROVE  LET r == Ingest(s, d, at, o) IN Reads(r) /\ r.buffered <= s.buffered
<1> DEFINE m == EnsureDtls(s, o)
           x == DtlsStep(m, d.first, at, o)
           y == DtlsStep(x, d.second, at, o)
           fed == IF d.kind = "stun" THEN FeedIce(s, d, at)
                  ELSE IF d.kind = "dtls" /\ s.paired THEN FeedDtls(m, d, at, o)
                  ELSE s
           Good(r) == Sound(r) /\ Reads(r) /\ r.buffered <= s.buffered
<1>0. s.buffered \in Nat /\ Good(s)
  BY DEF Sound, Tunnel
<1>1. /\ Good(m) /\ m.iceEvent = s.iceEvent /\ m.last_now = s.last_now
      /\ m.opened = s.opened
  <2>1. Kept(s, m)
    BY KeptDrains
  <2>2. /\ Sound(m) /\ m.iceEvent = s.iceEvent /\ m.last_now = s.last_now
        /\ m.opened = s.opened
    BY EnsureDtlsSound DEF Keeps, Frame
  <2> HIDE DEF m
  <2> QED BY <1>0, <2>1, <2>2, KeptReads DEF Kept
<1>2. ~m.dtls_connected => m.iceEvent = NoTime
  <2> HIDE DEF m
  <2>1. m.opened => m.dtls_connected
    BY <1>1 DEF Sound, Core, PhasesOf
  <2> QED BY <1>1, <2>1 DEF Settled
<1>3. ASSUME d.kind = "dtls"
      PROVE  Good(FeedDtls(m, d, at, o))
  <2>1. d.first \in DtlsEvent /\ d.second \in DtlsEvent
    BY <1>3 DEF Datagram
  <2> HIDE DEF m
  <2>2. Sound(x) /\ Stays(m, x) /\ Reads(x) /\ x.buffered <= m.buffered
    BY <1>1, <1>2, <2>1, DtlsStepSound, DtlsStepReads
  <2> HIDE DEF x
  <2>3. Reads(y) /\ y.buffered <= x.buffered
    BY <2>1, <2>2, DtlsStepReads
  <2>4. Sound(y)
    BY <1>1, <1>2, <2>1, <2>2, DtlsStepSound DEF Stays
  <2>5. Sound(FeedDtls(m, d, at, o)) /\ FeedDtls(m, d, at, o) \in {[m EXCEPT !.err = TRUE], y}
    BY <1>1, <1>2, <1>3, FeedDtlsSound DEF FeedDtls, x
  <2>6. Kept(m, [m EXCEPT !.err = TRUE])
    BY <1>1 DEF Kept, Sound, Tunnel
  <2>7. Reads([m EXCEPT !.err = TRUE]) /\ [m EXCEPT !.err = TRUE].buffered = m.buffered
    BY <1>1, <2>6, KeptReads DEF Kept
  <2>8. m.buffered \in Nat /\ x.buffered \in Nat /\ y.buffered \in Nat
    BY <1>1, <2>2, <2>4 DEF Sound, Tunnel
  <2> HIDE DEF y
  <2>9. y.buffered <= s.buffered /\ m.buffered <= s.buffered
    BY <1>0, <1>1, <2>2, <2>3, <2>8
  <2> QED BY <2>3, <2>5, <2>7, <2>9
<1>4. Good(FeedIce(s, d, at))
  <2>1. Kept(s, FeedIce(s, d, at))
    BY DEF Kept, Sound, Tunnel, FeedIce
  <2>2. Sound(FeedIce(s, d, at))
    BY FeedIceSound
  <2>3. Reads(FeedIce(s, d, at)) /\ FeedIce(s, d, at).buffered = s.buffered
    BY <2>1, KeptReads DEF Kept
  <2> QED BY <1>0, <2>2, <2>3
<1>5. Good(fed)
  <2> HIDE DEF m
  <2> QED BY <1>0, <1>3, <1>4
<1>6. Ingest(s, d, at, o) = IF fed.err THEN [fed EXCEPT !.err = FALSE, !.dropped_datagrams = @ + 1]
                            ELSE fed
  BY DEF Ingest
<1> HIDE DEF fed
<1>7. Kept(fed, [fed EXCEPT !.err = FALSE, !.dropped_datagrams = @ + 1])
  BY <1>5 DEF Kept, Sound, Tunnel
<1> QED BY <1>5, <1>6, <1>7, KeptReads DEF Kept

LEMMA HandleTimeoutsReads ==
    ASSUME NEW s, Sound(s), Reads(s), NEW o
    PROVE  LET r == HandleTimeouts(s, o) IN Reads(r) /\ r.buffered <= s.buffered
<1> DEFINE r == HandleTimeouts(s, o)
<1>1. s.buffered \in Nat /\ s.arrived \in Seq(InMessage)
  BY DEF Sound, Tunnel
<1>2. /\ r.arrived = s.arrived /\ r.buffered \in {0, s.buffered}
      /\ ("readable" \in s.pend => "readable" \in r.pend)
      /\ \/ r.rq = s.rq /\ r.stream = s.stream
         \/ r.rq = <<>>
  BY DEF HandleTimeouts, Sound, Tunnel
<1> HIDE DEF r
<1>3. r.buffered <= s.buffered
  BY <1>1, <1>2
<1>4. CASE r.rq = <<>>
  <2>1. Len(r.rq) = 0 /\ Len(r.arrived) \in Nat
    BY <1>1, <1>2, <1>4
  <2> QED BY <1>3, <1>4, <2>1 DEF Reads, Suffix, SuffixOf, r
<1>5. CASE r.rq = s.rq /\ r.stream = s.stream
  BY <1>2, <1>3, <1>5 DEF Reads, Suffix, SuffixOf, Refused, r
<1> QED BY <1>2, <1>4, <1>5

-----------------------------------------------------------------------------
(* The public methods.                                                     *)

\* A call that is not send adds nothing to the send buffer.
Drains(s, r) == Reads(r) /\ r.buffered <= s.buffered

LEMMA ReceiveDrains ==
    ASSUME NEW s, NEW at \in Time, Ready(s, at), Reads(s), NEW d \in Datagram, NEW o \in Outcome
    PROVE  Drains(s, ReceiveTunnel(s, d, at, o)) /\ Drains(s, ReceiveDeferredTunnel(s, d, at, o))
<1> DEFINE m == [s EXCEPT !.last_now = at]
           fed == Ingest(m, d, at, o)
<1>0. s.buffered \in Nat /\ Drains(s, s)
  BY DEF Drains, Ready, Sound, Tunnel
<1>1. Sound(m) /\ ~m.err /\ Settled(m) /\ m.last_now = at
  BY ClockSound
<1>2. Kept(s, m)
  BY DEF Kept, Ready, Sound, Tunnel
<1> HIDE DEF m
<1>3. Reads(m) /\ m.buffered = s.buffered
  BY <1>2, KeptReads DEF Kept
<1>4. Sound(fed) /\ Reads(fed) /\ fed.buffered <= s.buffered
  BY <1>1, <1>3, IngestSound, IngestReads
<1> HIDE DEF fed
<1>5. Reads(Pump(fed, o)) /\ Pump(fed, o).buffered = fed.buffered
  BY <1>4, PumpReads
<1>6. /\ ReceiveTunnel(s, d, at, o) \in {s, fed, Pump(fed, o)}
      /\ ReceiveDeferredTunnel(s, d, at, o) \in {s, fed, Pump(fed, o)}
  BY DEF ReceiveTunnel, ReceiveDeferredTunnel, fed, m
<1> QED BY <1>0, <1>4, <1>5, <1>6 DEF Drains

LEMMA FinishInputBatchDrains ==
    ASSUME NEW s, Sound(s), Reads(s), NEW o \in Outcome
    PROVE  Drains(s, FinishInputBatchTunnel(s, o))
<1>1. s.buffered \in Nat
  BY DEF Sound, Tunnel
<1> QED BY <1>1, PumpReads DEF FinishInputBatchTunnel, Drains

LEMMA TickDrains ==
    ASSUME NEW s, NEW at \in Time, Ready(s, at), Reads(s), NEW o \in Outcome
    PROVE  Drains(s, TickTunnel(s, at, o))
<1> DEFINE m == [s EXCEPT !.last_now = at]
           h == HandleTimeouts(m, o)
           pumped == Pump(h, o)
           r == Finish(pumped, "Timeout")
<1>0. s.buffered \in Nat /\ Drains(s, s)
  BY DEF Drains, Ready, Sound, Tunnel
<1>1. Sound(m) /\ ~m.err /\ m.last_now = at
  BY ClockSound
<1>2. Kept(s, m)
  BY DEF Kept, Ready, Sound, Tunnel
<1> HIDE DEF m
<1>3. Reads(m) /\ m.buffered = s.buffered
  BY <1>2, KeptReads DEF Kept
<1>4. Sound(h) /\ ~h.err /\ Reads(h) /\ h.buffered <= s.buffered
  BY <1>1, <1>3, HandleTimeoutsSound, HandleTimeoutsReads
<1> HIDE DEF h
<1>5. Sound(pumped) /\ Drains(s, pumped)
  BY <1>4, PumpSound, PumpReads DEF Drains
<1> HIDE DEF pumped
<1>6. Kept(pumped, r)
  BY <1>5, KeptDrains
<1> HIDE DEF r
<1>7. Drains(s, r)
  BY <1>5, <1>6, KeptReads DEF Drains, Kept
<1>8. TickTunnel(s, at, o) \in {s, pumped, r}
  BY DEF TickTunnel, r, pumped, h, m
<1> QED BY <1>0, <1>5, <1>7, <1>8

\* send charges the length of the message, and SCTP buffers at most one byte
\* more than that.
LEMMA SendCharged ==
    ASSUME NEW s, NEW at \in Time, Ready(s, at), Reads(s), NEW n \in Nat, NEW o \in Outcome
    PROVE  LET r == SendTunnel(s, n, o) IN
           Reads(r) /\ (r.buffered = s.buffered \/ r.buffered <= s.send_buffer_cap + 1)
<1>1. CASE SendOutcome(s, n) # "Accepted"
  BY <1>1 DEF SendTunnel
<1>2. CASE SendOutcome(s, n) = "Accepted"
  <2> DEFINE written == [s EXCEPT !.buffered = @ + WireLength(n), !.sctpOut = TRUE]
             x == DrainChannel(written)
             y == [x EXCEPT !.err = FALSE]
             sent == DrainSctpTransmits(y, o)
             z == [sent EXCEPT !.err = FALSE]
             r == DrainDtlsTransmits(z)
             total == s.buffered + WireLength(n)
             Good(v) == Sound(v) /\ Reads(v) /\ v.buffered = total
  <2>1. s.buffered \in Nat /\ s.send_buffer_cap \in Nat
    BY DEF Ready, Sound, Tunnel
  <2>2. s.buffered + n <= s.send_buffer_cap
    BY <1>2, <2>1 DEF SendOutcome
  <2>3. total <= s.send_buffer_cap + 1
    BY <2>1, <2>2 DEF WireLength
  <2>4. Good(written)
    <3>1. Sound(written)
      BY WrittenSound
    <3>2. /\ written.rq = s.rq /\ written.arrived = s.arrived /\ written.stream = s.stream
          /\ written.pend = s.pend /\ written.buffered = total
      BY DEF Ready, Sound, Tunnel
    <3> HIDE DEF written
    <3> QED BY <3>1, <3>2 DEF Reads, Suffix, Refused
  <2> HIDE DEF total, written
  <2>5. Good(x)
    BY <2>4, DrainChannelSound, DrainChannelReads
  <2> HIDE DEF x
  <2>6. Sound(y) /\ Kept(x, y)
    BY <2>5, ErrSound, KeptDrains
  <2> HIDE DEF y
  <2>7. Sound(sent) /\ Kept(y, sent)
    BY <2>6, DrainSctpTransmitsSound, KeptDrains
  <2> HIDE DEF sent
  <2>8. Sound(z) /\ Kept(sent, z)
    BY <2>7, ErrSound, KeptDrains
  <2> HIDE DEF z
  <2>9. Kept(z, r)
    BY <2>8, KeptDrains
  <2>10. SendTunnel(s, n, o) = r
    BY <1>2 DEF SendTunnel, z, sent, y, x, written
  <2> HIDE DEF r
  <2>11. Kept(x, r)
    BY <2>6, <2>7, <2>8, <2>9 DEF Kept
  <2>12. Reads(r) /\ r.buffered = total
    BY <2>5, <2>11, KeptReads DEF Kept
  <2> QED BY <2>3, <2>10, <2>12
<1> QED BY <1>1, <1>2

-----------------------------------------------------------------------------
(* The messages told, d \o events, match the messages read, for as long as *)
(* the stream is there or may still come up: a purge takes it away for     *)
(* good, with what was waiting in it.                                      *)

Live(s) == s.stream # "none" \/ s.assoc # "closed"

InOrder(d, s) == Live(s) => Matched(d \o s.events, s.arrived, Len(s.arrived) - Len(s.rq))

\* A step that neither reads nor receives, and tells of no message.
Silent(s, r) ==
    /\ r.rq = s.rq /\ r.arrived = s.arrived
    /\ Live(r) => Live(s)
    /\ \/ r.events = s.events
       \/ \E e \in Event : e.type # "Message" /\ r.events = Append(s.events, e)

LEMMA AppendInOrder ==
    ASSUME NEW d \in Seq(Event), NEW es \in Seq(Event), NEW e \in Event, e.type # "Message",
           NEW a, NEW c, Matched(d \o es, a, c)
    PROVE  Matched(d \o Append(es, e), a, c)
<1> DEFINE log == d \o es
           w == <<e>>
<1>1. log \in Seq(Event) /\ w \in Seq(Event) /\ Len(w) = 1 /\ w[1] = e
  OBVIOUS
<1>2. d \o Append(es, e) = log \o w
  OBVIOUS
<1> HIDE DEF log, w
<1>3. \A i \in 1..Len(w) : w[i].type # "Message"
  BY <1>1
<1>4. Matched(log \o w, a, c)
  BY <1>1, <1>3, MatchedQuiet DEF log
<1> QED BY <1>2, <1>4

LEMMA SilentInOrder ==
    ASSUME NEW d \in Seq(Event), NEW s, Sound(s), NEW r, InOrder(d, s), Silent(s, r)
    PROVE  InOrder(d, r)
<1>1. s.events \in Seq(Event)
  BY DEF Sound, Tunnel
<1> SUFFICES ASSUME Live(r)
             PROVE  Matched(d \o r.events, s.arrived, Len(s.arrived) - Len(s.rq))
  BY DEF InOrder, Silent
<1>2. Matched(d \o s.events, s.arrived, Len(s.arrived) - Len(s.rq))
  BY DEF InOrder, Silent
<1>3. CASE r.events = s.events
  BY <1>2, <1>3
<1>4. ASSUME NEW e \in Event, e.type # "Message", r.events = Append(s.events, e)
      PROVE  Matched(d \o r.events, s.arrived, Len(s.arrived) - Len(s.rq))
  BY <1>1, <1>2, <1>4, AppendInOrder
<1> QED BY <1>3, <1>4 DEF Silent

LEMMA SilentDrains ==
    ASSUME NEW s, Sound(s), NEW o, NEW reason \in CloseReason
    PROVE  /\ Silent(s, s)
           /\ Silent(s, [s EXCEPT !.err = FALSE])
           /\ Silent(s, Finish(s, reason))
           /\ Silent(s, MaybeOpen(s))
           /\ Silent(s, DrainIceEvents(s))
           /\ Silent(s, DrainIceWrites(s))
           /\ Silent(s, DrainDtlsTransmits(s))
           /\ Silent(s, DrainSctpTransmits(s, o))
           /\ Silent(s, EnsureDtls(s, o))
           /\ Silent(s, DrainChannel(s))
<1> USE DEF Silent, Live, Sound, Tunnel
<1>0. /\ SendDatagram \in Event /\ SendDatagram.type # "Message"
      /\ Opened \in Event /\ Opened.type # "Message"
      /\ Closed(reason) \in Event /\ Closed(reason).type # "Message"
  BY EventTypes DEF SendDatagram, Opened, Closed
<1>1. Silent(s, s) /\ Silent(s, [s EXCEPT !.err = FALSE])
  OBVIOUS
<1>2. Silent(s, Finish(s, reason))
  BY <1>0 DEF Finish, Push
<1>3. Silent(s, MaybeOpen(s))
  BY <1>0 DEF MaybeOpen, Push
<1>4. Silent(s, DrainIceEvents(s))
  BY DEF DrainIceEvents
<1>5. Silent(s, DrainIceWrites(s))
  BY <1>0 DEF DrainIceWrites, Push
<1>6. Silent(s, DrainDtlsTransmits(s))
  BY <1>0 DEF DrainDtlsTransmits, Push
<1>7. Silent(s, DrainSctpTransmits(s, o))
  BY DEF DrainSctpTransmits
<1>8. Silent(s, EnsureDtls(s, o))
  BY DEF EnsureDtls, ActivateDtls
<1>9. Silent(s, DrainChannel(s))
  BY DEF DrainChannel, OpenStream
<1> QED BY <1>1, <1>2, <1>3, <1>4, <1>5, <1>6, <1>7, <1>8, <1>9

LEMMA ConcatAssoc ==
    ASSUME NEW x \in Seq(Event), NEW y \in Seq(Event), NEW z \in Seq(Event)
    PROVE  x \o (y \o z) = (x \o y) \o z
OBVIOUS

\* read_stream tells of the messages it reads, in their order, up to the one
\* to_payload refuses, which it consumes.
LEMMA ReadStreamInOrder ==
    ASSUME NEW d \in Seq(Event), NEW s, Sound(s), Suffix(s), InOrder(d, s)
    PROVE  InOrder(d, ReadStream(s))
<1> DEFINE n == ReadCount(s.rq)
           w == [i \in 1..n |-> Message(Payload(s.rq[i]))]
           rest == SubSeq(s.rq, n + 2, Len(s.rq))
           a == s.arrived
           la == Len(a)
           lq == Len(s.rq)
           lr == Len(rest)
           c == la - lq
           e == la - lr
           r == ReadStream(s)
<1>1. s.rq \in Seq(InMessage) /\ a \in Seq(InMessage) /\ s.events \in Seq(Event)
  BY DEF Sound, Tunnel
<1>2. n \in 0..lq /\ lq \in Nat /\ la \in Nat /\ lq <= la /\ c \in Nat
  BY <1>1, ReadCountType DEF Suffix, SuffixOf
<1>3. CASE s.stream = "none"
  BY <1>3 DEF ReadStream
<1>4. CASE s.stream # "none"
  <2>1. r.rq = rest /\ r.arrived = a /\ r.events = s.events \o w
    BY <1>4 DEF ReadStream, Sound, Tunnel
  <2>2. Matched(d \o s.events, a, c)
    BY <1>4 DEF InOrder, Live
  <2>3. \A i \in 1..Len(s.rq) : s.rq[i] = a[c + i]
    BY DEF Suffix, SuffixOf
  <2>4. \A i \in 1..n : ~Oversize(s.rq[i])
    BY <1>1, ReadCountAccepts
  <2>5. n < Len(s.rq) => Oversize(s.rq[n + 1])
    BY <1>1, ReadCountStops
  <2> HIDE DEF n
  <2>6. n \in Nat /\ n + 1 \in Nat /\ \A i \in 1..n : i \in 1..Len(s.rq)
    BY <1>2
  <2>7. \A i \in 1..n : Message(Payload(s.rq[i])) \in Event
    <3>1. ASSUME NEW i \in 1..n PROVE Payload(s.rq[i]) \in Nat
      <4>1. s.rq[i] \in InMessage
        BY <1>1, <2>6
      <4> QED BY <4>1 DEF InMessage, Payload
    <3> QED BY <3>1, EventTypes
  <2>8. w \in Seq(Event) /\ Len(w) = n /\ \A i \in 1..n : w[i] = Message(Payload(s.rq[i]))
    BY <2>6, <2>7
  <2>9. \A i \in 1..n : w[i] = Message(Payload(a[c + i])) /\ ~Oversize(a[c + i])
    <3> HIDE DEF w, a, c
    <3> QED BY <2>3, <2>4, <2>6, <2>8
  <2>10. /\ n < lq => lr = lq - (n + 1) /\ n + 1 \in 1..lq
         /\ ~(n < lq) => lr = lq - n
    BY <1>1, <1>2
  <2> HIDE DEF w, rest
  <2>11. \/ e = c + n
         \/ e = c + n + 1 /\ Oversize(a[e])
    <3> HIDE DEF la, lq, lr
    <3>1. CASE n < lq
      <4>1. e = c + (n + 1) /\ e = c + n + 1
        BY <1>2, <2>6, <2>10, <3>1
      <4> HIDE DEF e, c, a
      <4> QED BY <2>3, <2>5, <2>10, <3>1, <4>1 DEF lq
    <3>2. CASE ~(n < lq)
      BY <1>2, <2>6, <2>10, <3>2
    <3> QED BY <3>1, <3>2
  <2> DEFINE log == d \o s.events
  <2>12. log \in Seq(Event)
    BY <1>1
  <2>13. d \o (s.events \o w) = log \o w
    BY <1>1, <2>8, ConcatAssoc
  <2> HIDE DEF a, c, e, log
  <2>14. Matched(log \o w, a, e)
    BY <1>2, <2>2, <2>6, <2>8, <2>9, <2>11, <2>12, MatchedRead DEF log
  <2> HIDE DEF r
  <2> QED BY <2>1, <2>13, <2>14 DEF InOrder, e, r
<1> QED BY <1>3, <1>4

LEMMA DrainSctpInOrder ==
    ASSUME NEW d \in Seq(Event), NEW s, Sound(s), Reads(s), InOrder(d, s)
    PROVE  InOrder(d, DrainSctp(s))
<1> DEFINE polled == [s EXCEPT !.pend = {}]
           a == IF "connected" \in s.pend
                THEN [polled EXCEPT !.sctp_connected = TRUE, !.trace.sctp = First(@, s.last_now)]
                ELSE polled
           b == IF "lost" \in s.pend THEN Finish(a, "Remote") ELSE a
<1>1. Silent(s, a)
  BY DEF Silent, Live, Sound, Tunnel
<1>2. Sound(a)
  BY PolledSound
<1> HIDE DEF a
<1>3. "Remote" \in CloseReason
  BY DEF CloseReason
<1>4. Sound(b) /\ Silent(a, b) /\ Kept(a, b)
  BY <1>2, <1>3, FinishSound, SilentDrains, KeptDrains, ZenonT(60) DEF Kept
<1>5. DrainSctp(s) = IF "readable" \in s.pend THEN ReadStream(b) ELSE b
  BY DEF DrainSctp, a
<1> HIDE DEF b
<1>6. InOrder(d, a)
  BY <1>1, SilentInOrder
<1>7. InOrder(d, b)
  BY <1>2, <1>4, <1>6, SilentInOrder
<1>8. a.rq = s.rq /\ a.arrived = s.arrived /\ a.stream = s.stream
  BY DEF a, Sound, Tunnel
<1>9. Suffix(b)
  BY <1>4, <1>8 DEF Reads, Suffix, Kept
<1> QED BY <1>4, <1>5, <1>7, <1>9, ReadStreamInOrder

LEMMA PumpInOrder ==
    ASSUME NEW d \in Seq(Event), NEW s, Sound(s), Reads(s), InOrder(d, s), NEW o \in Outcome
    PROVE  InOrder(d, Pump(s, o))
<1> DEFINE x == DrainIceEvents(s)
           y == DrainIceWrites(x)
           e == EnsureDtls(y, o)
           a == DrainSctp(e)
           b == DrainChannel(a)
           c == DrainSctpTransmits(b, o)
           f == DrainDtlsTransmits(c)
           g == IF e.dtls_started THEN PumpProtocol(e, o) ELSE e
           Good(r) == Sound(r) /\ InOrder(d, r)
<1>0. "Local" \in CloseReason
  BY DEF CloseReason
<1>1. Good(x) /\ Reads(x)
  BY <1>0, DrainIceEventsSound, SilentDrains, SilentInOrder, KeptDrains, KeptReads
<1>2. Good(y) /\ Reads(y)
  <2> HIDE DEF x
  <2> QED BY <1>0, <1>1, DrainIceWritesSound, SilentDrains, SilentInOrder, KeptDrains, KeptReads
<1>3. Good(e) /\ Reads(e)
  <2> HIDE DEF y
  <2>1. Silent(y, e) /\ Kept(y, e)
    BY <1>0, <1>2, SilentDrains, KeptDrains
  <2>2. Sound(e)
    BY <1>2, EnsureDtlsSound
  <2> HIDE DEF e
  <2> QED BY <1>2, <2>1, <2>2, SilentInOrder, KeptReads
<1>4. Good(a)
  <2> HIDE DEF e
  <2> QED BY <1>3, DrainSctpSound, DrainSctpInOrder
<1>5. Good(b)
  <2> HIDE DEF a
  <2> QED BY <1>0, <1>4, DrainChannelSound, SilentDrains, SilentInOrder
<1>6. Good(c)
  <2> HIDE DEF b
  <2> QED BY <1>0, <1>5, DrainSctpTransmitsSound, SilentDrains, SilentInOrder
<1>7. Good(f)
  <2> HIDE DEF c
  <2> QED BY <1>0, <1>6, DrainDtlsTransmitsSound, SilentDrains, SilentInOrder
<1>8. g \in {e, a, b, c, f}
  BY DEF PumpProtocol
<1>9. Pump(s, o) = IF g.err THEN [g EXCEPT !.err = FALSE] ELSE MaybeOpen(g)
  BY DEF Pump
<1> HIDE DEF e, a, b, c, f, g
<1>10. Good(g)
  BY <1>3, <1>4, <1>5, <1>6, <1>7, <1>8
<1>11. Silent(g, MaybeOpen(g)) /\ Silent(g, [g EXCEPT !.err = FALSE])
  BY <1>0, <1>10, SilentDrains
<1>12. Silent(g, Pump(s, o))
  BY <1>9, <1>11
<1> QED BY <1>10, <1>12, SilentInOrder

LEMMA HandleAssociationEventInOrder ==
    ASSUME NEW d \in Seq(Event), NEW s, Sound(s), Suffix(s), InOrder(d, s), NEW p \in Packet,
           s.assoc # "closed"
    PROVE  InOrder(d, HandleAssociationEvent(s, p))
<1> DEFINE r == HandleAssociationEvent(s, p)
           ar == s.arrived \o p.data
           rq == s.rq \o p.data
           la == Len(s.arrived)
           lq == Len(s.rq)
           ld == Len(p.data)
           c == la - lq
<1>1. s.rq \in Seq(InMessage) /\ s.arrived \in Seq(InMessage) /\ p.data \in Seq(InMessage)
  BY DEF Sound, Tunnel, Packet
<1>2. r.events = s.events /\ r.arrived = ar
  BY DEF HandleAssociationEvent, Sound, Tunnel
<1>3. CASE p.lost = "purged"
  <2>1. r.assoc = "closed" /\ r.stream = "none"
    BY <1>3 DEF HandleAssociationEvent, Sound, Tunnel
  <2> HIDE DEF r
  <2> QED BY <2>1 DEF InOrder, Live, r
<1>4. CASE p.lost # "purged"
  <2>1. r.rq = rq
    BY <1>4 DEF HandleAssociationEvent, Sound, Tunnel
  <2>2. Len(rq) = lq + ld /\ Len(ar) = la + ld
    BY <1>1
  <2>3. lq \in Nat /\ la \in Nat /\ ld \in Nat /\ lq <= la
    BY <1>1 DEF Suffix, SuffixOf
  <2>4. c \in 0..Len(s.arrived) /\ Len(ar) - Len(rq) = c
    <3>1. c \in 0..la /\ (la + ld) - (lq + ld) = c
      <4> HIDE DEF la, lq, ld
      <4> QED BY <2>3
    <3> QED BY <2>2, <3>1
  <2> HIDE DEF c
  <2>5. Matched(d \o s.events, s.arrived, c)
    BY DEF InOrder, Live, c
  <2>6. Matched(d \o s.events, ar, c)
    BY <1>1, <2>4, <2>5, MatchedArrival
  <2> HIDE DEF r, ar, rq
  <2> QED BY <1>2, <2>1, <2>4, <2>6 DEF InOrder, r
<1> QED BY <1>3, <1>4

LEMMA DtlsStepInOrder ==
    ASSUME NEW d \in Seq(Event), NEW s, Sound(s), Reads(s), InOrder(d, s),
           NEW e \in DtlsEvent, NEW at, NEW o
    PROVE  InOrder(d, DtlsStep(s, e, at, o))
<1> DEFINE done == [s EXCEPT !.dtls_connected = TRUE, !.trace.dtls = First(@, at),
                             !.dtlsOut = TRUE]
           r == DtlsStep(s, e, at, o)
<1>1. Silent(s, s) /\ Silent(s, done) /\ Silent(s, [s EXCEPT !.dtlsOut = TRUE])
  BY DEF Silent, Live, Sound, Tunnel
<1>2. ASSUME ~done.sctp PROVE Silent(s, StartSctp(done, o))
  <2>1. s.assoc = "none"
    <3>1. ~s.sctp
      BY <1>2 DEF Sound, Tunnel
    <3> QED BY <3>1 DEF Sound, Core, PhasesOf
  <2> QED BY <2>1 DEF Silent, Live, Sound, Tunnel, StartSctp
<1>3. CASE e.type = "app" /\ r = FeedSctp(s, e.packet)
  <2>1. e.packet \in Packet
    BY <1>3 DEF DtlsEvent
  <2>2. s.assoc = "none" => Silent(s, [s EXCEPT !.assoc = "handshaking", !.sctpOut = TRUE])
    BY DEF Silent, Live, Sound, Tunnel
  <2>3. (r = HandleAssociationEvent(s, e.packet) /\ s.assoc # "closed") \/ Silent(s, r)
    BY <1>1, <1>3, <2>2 DEF FeedSctp
  <2> HIDE DEF r
  <2> QED BY <2>1, <2>3, HandleAssociationEventInOrder, SilentInOrder DEF Reads, r
<1>4. CASE r \in {s, [s EXCEPT !.dtlsOut = TRUE], done} \/ (~done.sctp /\ r = StartSctp(done, o))
  <2>1. Silent(s, r)
    BY <1>1, <1>2, <1>4
  <2> HIDE DEF r
  <2> QED BY <2>1, SilentInOrder DEF r
<1> QED BY <1>3, <1>4 DEF DtlsStep

LEMMA IngestInOrder ==
    ASSUME NEW d \in Seq(Event), NEW s, Sound(s), Reads(s), InOrder(d, s), ~s.err, Settled(s),
           NEW g \in Datagram, NEW at, at = s.last_now, NEW o \in Outcome
    PROVE  InOrder(d, Ingest(s, g, at, o))
<1> DEFINE m == EnsureDtls(s, o)
           x == DtlsStep(m, g.first, at, o)
           y == DtlsStep(x, g.second, at, o)
           fed == IF g.kind = "stun" THEN FeedIce(s, g, at)
                  ELSE IF g.kind = "dtls" /\ s.paired THEN FeedDtls(m, g, at, o)
                  ELSE s
           Good(r) == Sound(r) /\ InOrder(d, r)
<1>0. "Local" \in CloseReason
  BY DEF CloseReason
<1>1. /\ Good(m) /\ Reads(m) /\ m.iceEvent = s.iceEvent /\ m.last_now = s.last_now
      /\ m.opened = s.opened
  <2>1. Kept(s, m) /\ Silent(s, m)
    BY <1>0, KeptDrains, SilentDrains
  <2>2. /\ Sound(m) /\ m.iceEvent = s.iceEvent /\ m.last_now = s.last_now
        /\ m.opened = s.opened
    BY EnsureDtlsSound DEF Keeps, Frame
  <2> HIDE DEF m
  <2> QED BY <2>1, <2>2, KeptReads, SilentInOrder
<1>2. ~m.dtls_connected => m.iceEvent = NoTime
  <2> HIDE DEF m
  <2>1. m.opened => m.dtls_connected
    BY <1>1 DEF Sound, Core, PhasesOf
  <2> QED BY <1>1, <2>1 DEF Settled
<1>3. ASSUME g.kind = "dtls"
      PROVE  Good(FeedDtls(m, g, at, o))
  <2>1. g.first \in DtlsEvent /\ g.second \in DtlsEvent
    BY <1>3 DEF Datagram
  <2> HIDE DEF m
  <2>2. Sound(x) /\ Reads(x) /\ InOrder(d, x)
    BY <1>1, <1>2, <2>1, DtlsStepSound, DtlsStepReads, DtlsStepInOrder
  <2> HIDE DEF x
  <2>3. InOrder(d, y)
    BY <2>1, <2>2, DtlsStepInOrder
  <2>4. Sound(FeedDtls(m, g, at, o)) /\ FeedDtls(m, g, at, o) \in {[m EXCEPT !.err = TRUE], y}
    BY <1>1, <1>2, <1>3, FeedDtlsSound DEF FeedDtls, x
  <2>5. Silent(m, [m EXCEPT !.err = TRUE])
    BY <1>1 DEF Silent, Live, Sound, Tunnel
  <2>6. InOrder(d, [m EXCEPT !.err = TRUE])
    BY <1>1, <2>5, SilentInOrder
  <2> HIDE DEF y
  <2> QED BY <2>3, <2>4, <2>6
<1>4. Good(FeedIce(s, g, at))
  <2>1. Silent(s, FeedIce(s, g, at))
    BY DEF Silent, Live, Sound, Tunnel, FeedIce
  <2>2. Sound(FeedIce(s, g, at))
    BY FeedIceSound
  <2> QED BY <2>1, <2>2, SilentInOrder
<1>5. Good(fed)
  <2> HIDE DEF m
  <2> QED BY <1>3, <1>4
<1>6. Ingest(s, g, at, o) = IF fed.err THEN [fed EXCEPT !.err = FALSE, !.dropped_datagrams = @ + 1]
                            ELSE fed
  BY DEF Ingest
<1> HIDE DEF fed
<1>7. Silent(fed, [fed EXCEPT !.err = FALSE, !.dropped_datagrams = @ + 1])
  BY <1>5 DEF Silent, Live, Sound, Tunnel
<1> QED BY <1>5, <1>6, <1>7, SilentInOrder

LEMMA HandleTimeoutsInOrder ==
    ASSUME NEW d \in Seq(Event), NEW s, Sound(s), InOrder(d, s), NEW o
    PROVE  InOrder(d, HandleTimeouts(s, o))
<1> DEFINE r == HandleTimeouts(s, o)
<1>1. Silent(s, r) \/ ~Live(r)
  BY DEF HandleTimeouts, Silent, Live, Sound, Tunnel
<1> HIDE DEF r
<1>2. ~Live(r) => InOrder(d, r)
  BY DEF InOrder
<1> QED BY <1>1, <1>2, SilentInOrder DEF r

LEMMA ReceiveInOrder ==
    ASSUME NEW d \in Seq(Event), NEW s, NEW at \in Time, Ready(s, at), Reads(s), InOrder(d, s),
           NEW g \in Datagram, NEW o \in Outcome
    PROVE  InOrder(d, ReceiveTunnel(s, g, at, o)) /\ InOrder(d, ReceiveDeferredTunnel(s, g, at, o))
<1> DEFINE m == [s EXCEPT !.last_now = at]
           fed == Ingest(m, g, at, o)
<1>1. Sound(s) /\ Sound(m) /\ ~m.err /\ Settled(m) /\ m.last_now = at
  BY ClockSound DEF Ready
<1>2. Kept(s, m) /\ Silent(s, m)
  BY <1>1 DEF Kept, Silent, Live, Sound, Tunnel
<1> HIDE DEF m
<1>3. Reads(m) /\ InOrder(d, m)
  BY <1>1, <1>2, KeptReads, SilentInOrder
<1>4. Sound(fed) /\ Reads(fed) /\ InOrder(d, fed)
  BY <1>1, <1>3, IngestSound, IngestReads, IngestInOrder
<1> HIDE DEF fed
<1>5. InOrder(d, Pump(fed, o))
  BY <1>4, PumpInOrder
<1>6. /\ ReceiveTunnel(s, g, at, o) \in {s, fed, Pump(fed, o)}
      /\ ReceiveDeferredTunnel(s, g, at, o) \in {s, fed, Pump(fed, o)}
  BY DEF ReceiveTunnel, ReceiveDeferredTunnel, fed, m
<1> QED BY <1>4, <1>5, <1>6

LEMMA TickInOrder ==
    ASSUME NEW d \in Seq(Event), NEW s, NEW at \in Time, Ready(s, at), Reads(s), InOrder(d, s),
           NEW o \in Outcome
    PROVE  InOrder(d, TickTunnel(s, at, o))
<1> DEFINE m == [s EXCEPT !.last_now = at]
           h == HandleTimeouts(m, o)
           pumped == Pump(h, o)
           r == Finish(pumped, "Timeout")
<1>1. Sound(s) /\ Sound(m) /\ ~m.err /\ m.last_now = at
  BY ClockSound DEF Ready
<1>2. Kept(s, m) /\ Silent(s, m)
  BY <1>1 DEF Kept, Silent, Live, Sound, Tunnel
<1> HIDE DEF m
<1>3. Reads(m) /\ InOrder(d, m)
  BY <1>1, <1>2, KeptReads, SilentInOrder
<1>4. Sound(h) /\ ~h.err /\ Reads(h) /\ InOrder(d, h)
  BY <1>1, <1>3, HandleTimeoutsSound, HandleTimeoutsReads, HandleTimeoutsInOrder
<1> HIDE DEF h
<1>5. Sound(pumped) /\ InOrder(d, pumped)
  BY <1>4, PumpSound, PumpInOrder
<1> HIDE DEF pumped
<1>6. Silent(pumped, r)
  <2>1. "Timeout" \in CloseReason
    BY DEF CloseReason
  <2> QED BY <1>5, <2>1, SilentDrains
<1> HIDE DEF r
<1>7. InOrder(d, r)
  BY <1>5, <1>6, SilentInOrder
<1>8. TickTunnel(s, at, o) \in {s, pumped, r}
  BY DEF TickTunnel, r, pumped, h, m
<1> QED BY <1>5, <1>7, <1>8

LEMMA SendInOrder ==
    ASSUME NEW d \in Seq(Event), NEW s, NEW at \in Time, Ready(s, at), InOrder(d, s),
           NEW n \in Nat, NEW o \in Outcome
    PROVE  InOrder(d, SendTunnel(s, n, o))
<1>1. CASE SendOutcome(s, n) # "Accepted"
  BY <1>1 DEF SendTunnel
<1>2. CASE SendOutcome(s, n) = "Accepted"
  <2> DEFINE written == [s EXCEPT !.buffered = @ + WireLength(n), !.sctpOut = TRUE]
             x == DrainChannel(written)
             y == [x EXCEPT !.err = FALSE]
             sent == DrainSctpTransmits(y, o)
             z == [sent EXCEPT !.err = FALSE]
             r == DrainDtlsTransmits(z)
             Good(v) == Sound(v) /\ InOrder(d, v)
  <2>0. "Local" \in CloseReason
    BY DEF CloseReason
  <2>1. Sound(s)
    BY DEF Ready
  <2>2. Silent(s, written)
    BY <2>1 DEF Silent, Live, Sound, Tunnel
  <2>3. Sound(written)
    BY WrittenSound
  <2> HIDE DEF written
  <2>4. Good(written)
    BY <2>1, <2>2, <2>3, SilentInOrder
  <2>5. Good(x)
    BY <2>0, <2>4, DrainChannelSound, SilentDrains, SilentInOrder
  <2> HIDE DEF x
  <2>6. Good(y)
    BY <2>0, <2>5, ErrSound, SilentDrains, SilentInOrder
  <2> HIDE DEF y
  <2>7. Good(sent)
    BY <2>0, <2>6, DrainSctpTransmitsSound, SilentDrains, SilentInOrder
  <2> HIDE DEF sent
  <2>8. Good(z)
    BY <2>0, <2>7, ErrSound, SilentDrains, SilentInOrder
  <2> HIDE DEF z
  <2>9. InOrder(d, r)
    BY <2>0, <2>8, SilentDrains, SilentInOrder
  <2>10. SendTunnel(s, n, o) = r
    BY <1>2 DEF SendTunnel, z, sent, y, x, written
  <2> QED BY <2>9, <2>10
<1> QED BY <1>1, <1>2

LEMMA PollInOrder ==
    ASSUME NEW d \in Seq(Event), NEW s, Sound(s), InOrder(d, s), s.events # <<>>
    PROVE  LET r == [s EXCEPT !.events = Tail(@)] IN
           /\ Head(s.events) = SendDatagram => InOrder(d, r)
           /\ InOrder(Append(d, Head(s.events)), r)
<1> DEFINE es == s.events
           r == [s EXCEPT !.events = Tail(@)]
           c == Len(s.arrived) - Len(s.rq)
<1>1. es \in Seq(Event) /\ es # <<>>
  BY DEF Sound, Tunnel
<1>2. /\ r.events = Tail(es) /\ r.arrived = s.arrived /\ r.rq = s.rq
      /\ Live(r) <=> Live(s)
  BY DEF Live, Sound, Tunnel
<1> HIDE DEF es, r, c
<1>3. Append(d, Head(es)) \o Tail(es) = d \o es
  BY <1>1
<1>4. ASSUME Live(s) PROVE Matched(d \o es, s.arrived, c)
  BY <1>4 DEF InOrder, es, c
<1>5. ASSUME Live(s), Head(es) = SendDatagram PROVE Matched(d \o Tail(es), s.arrived, c)
  BY <1>1, <1>4, <1>5, MatchedPolled
<1>6. Head(es) = SendDatagram => InOrder(d, r)
  BY <1>2, <1>5 DEF InOrder, c
<1>7. InOrder(Append(d, Head(es)), r)
  BY <1>2, <1>3, <1>4 DEF InOrder, c
<1> QED BY <1>6, <1>7 DEF es, r

-----------------------------------------------------------------------------
(* The inductive invariant: Ready and Reads.                               *)

Inv == TypeOK /\ Ready(t, now) /\ Reads(t)

\* A step that adds to the send buffer leaves at most one byte over the cap.
Charged == t'.buffered > t.buffered => t'.buffered <= t.send_buffer_cap + 1

LEMMA InitReads == Init => Inv
<1> SUFFICES ASSUME Init PROVE Inv
  OBVIOUS
<1>1. TypeOK /\ Ready(t, now)
  BY InitReady
<1>2. t.rq = <<>> /\ Len(t.rq) = 0 /\ Len(t.arrived) = 0
  BY DEF Init
<1> QED BY <1>1, <1>2 DEF Inv, Reads, Suffix, SuffixOf

LEMMA NextReads == Inv /\ [Next]_vars => Inv' /\ Charged
<1> SUFFICES ASSUME Inv, [Next]_vars PROVE Inv' /\ Charged
  OBVIOUS
<1> USE TunnelAssumption
<1>1. TypeOK' /\ Ready(t, now)'
  BY NextReady DEF Inv
<1>2. now \in Time /\ Ready(t, now) /\ Reads(t) /\ Sound(t)
  BY DEF Inv, TypeOK, Ready
<1>3. t.buffered \in Nat /\ t'.buffered \in Nat
  BY <1>1 DEF Inv, TypeOK, Tunnel
<1>4. Reads(t') => Inv'
  BY <1>1 DEF Inv, Reads, Suffix, SuffixOf, Refused, Oversize
<1>5. Drains(t, t') => Inv' /\ Charged
  BY <1>3, <1>4 DEF Drains, Charged
<1>6. ASSUME NEW d \in Datagrams, NEW o \in Outcomes, Receive(d, o) \/ ReceiveDeferred(d, o)
      PROVE  Drains(t, t')
  <2>1. d \in Datagram /\ o \in Outcome
    OBVIOUS
  <2>2. t' \in {ReceiveTunnel(t, d, now, o), ReceiveDeferredTunnel(t, d, now, o)}
    BY <1>6 DEF Receive, ReceiveDeferred
  <2> QED BY <1>2, <2>1, <2>2, ReceiveDrains
<1>7. ASSUME NEW o \in Outcomes, FinishInputBatch(o)
      PROVE  Drains(t, t')
  <2>1. o \in Outcome
    OBVIOUS
  <2> QED BY <1>2, <1>7, <2>1, FinishInputBatchDrains DEF FinishInputBatch
<1>8. ASSUME NEW lib \in LibTimers, NEW o \in Outcomes, Tick(lib, o)
      PROVE  Drains(t, t')
  <2>1. o \in Outcome
    OBVIOUS
  <2> QED BY <1>2, <1>8, <2>1, TickDrains DEF Tick
<1>9. ASSUME NEW n \in Sizes, NEW o \in Outcomes, Send(n, o)
      PROVE  Inv' /\ Charged
  <2>1. n \in Nat /\ o \in Outcome
    OBVIOUS
  <2>2. Reads(t') /\ (t'.buffered = t.buffered \/ t'.buffered <= t.send_buffer_cap + 1)
    BY <1>2, <1>9, <2>1, SendCharged DEF Send
  <2> QED BY <1>3, <1>4, <2>2 DEF Charged
<1>10. ASSUME Close
       PROVE  Drains(t, t')
  <2> DEFINE p == [t EXCEPT !.paired = FALSE]
  <2>1. Kept(t, p) /\ Kept(t, Finish(p, "Local"))
    BY <1>2 DEF Kept, Sound, Tunnel, Finish, Push
  <2>2. t' = t \/ t' = Finish(p, "Local")
    BY <1>10 DEF Close, CloseTunnel
  <2> HIDE DEF p
  <2>3. Kept(t, t')
    BY <2>1, <2>2 DEF Kept
  <2> QED BY <1>2, <1>3, <2>3, KeptReads DEF Drains, Kept
<1>11. ASSUME \/ PollEvent
              \/ \E cap \in Caps : SetSendBufferCap(cap)
              \/ \E f \in Fingerprints : ApplyRemoteAnswer(f)
              \/ Advance
              \/ UNCHANGED vars
       PROVE  Drains(t, t')
  <2>1. Kept(t, t')
    BY <1>2, <1>11, SMTT(30) DEF PollEvent, SetSendBufferCap, ApplyRemoteAnswer, Advance, vars,
                       Kept, Sound, Tunnel
  <2> QED BY <1>2, <1>3, <2>1, KeptReads DEF Drains, Kept
<1> QED BY <1>5, <1>6, <1>7, <1>8, <1>9, <1>10, <1>11 DEF Next

-----------------------------------------------------------------------------
(* The inductive invariant of the order: Inv and InOrder.                  *)

Ordered == Inv /\ InOrder(delivered, t)

LEMMA InitOrdered == Init => Ordered
<1> SUFFICES ASSUME Init PROVE Ordered
  OBVIOUS
<1>1. Inv
  BY InitReads
<1> DEFINE none == delivered \o t.events
<1>2. none = <<>> /\ Len(t.arrived) - Len(t.rq) = 0
  BY DEF Init
<1>3. Told(<<>>) = {} /\ Taken(t.arrived, 0) = {}
  BY DEF Told, Taken
<1>4. Paired(<<>>, t.arrived, 0, <<>>, <<>>)
  BY <1>3 DEF Paired, Lists
<1> HIDE DEF none
<1>5. Matched(none, t.arrived, Len(t.arrived) - Len(t.rq))
  BY <1>2, <1>4 DEF Matched
<1> QED BY <1>1, <1>5 DEF Ordered, InOrder, none

LEMMA NextOrdered == Ordered /\ [Next]_vars => Ordered'
<1> SUFFICES ASSUME Ordered, [Next]_vars PROVE Ordered'
  OBVIOUS
<1> USE TunnelAssumption
<1>1. Inv'
  BY NextReads DEF Ordered
<1>2. /\ now \in Time /\ Ready(t, now) /\ Reads(t) /\ Sound(t)
      /\ delivered \in Seq(Event) /\ InOrder(delivered, t)
  BY DEF Ordered, Inv, TypeOK, Ready
<1>3. InOrder(delivered', t') => Ordered'
  BY <1>1 DEF Ordered, InOrder, Live, Matched, Paired, Lists, Told, Taken, Payload, Oversize
<1>4. ASSUME NEW d \in Datagrams, NEW o \in Outcomes, Receive(d, o) \/ ReceiveDeferred(d, o)
      PROVE  InOrder(delivered', t')
  <2>1. d \in Datagram /\ o \in Outcome
    OBVIOUS
  <2>2. /\ t' \in {ReceiveTunnel(t, d, now, o), ReceiveDeferredTunnel(t, d, now, o)}
        /\ delivered' = delivered
    BY <1>4 DEF Receive, ReceiveDeferred
  <2> QED BY <1>2, <2>1, <2>2, ReceiveInOrder
<1>5. ASSUME NEW o \in Outcomes, FinishInputBatch(o)
      PROVE  InOrder(delivered', t')
  <2>1. o \in Outcome
    OBVIOUS
  <2>2. InOrder(delivered, Pump(t, o))
    BY <1>2, <2>1, PumpInOrder
  <2> QED BY <1>2, <1>5, <2>2 DEF FinishInputBatch, FinishInputBatchTunnel
<1>6. ASSUME NEW lib \in LibTimers, NEW o \in Outcomes, Tick(lib, o)
      PROVE  InOrder(delivered', t')
  <2>1. o \in Outcome
    OBVIOUS
  <2> QED BY <1>2, <1>6, <2>1, TickInOrder DEF Tick
<1>7. ASSUME NEW n \in Sizes, NEW o \in Outcomes, Send(n, o)
      PROVE  InOrder(delivered', t')
  <2>1. n \in Nat /\ o \in Outcome
    OBVIOUS
  <2> QED BY <1>2, <1>7, <2>1, SendInOrder DEF Send
<1>8. ASSUME Close
      PROVE  InOrder(delivered', t')
  <2> DEFINE p == [t EXCEPT !.paired = FALSE]
  <2>1. Closed("Local") \in Event /\ Closed("Local").type # "Message"
    BY EventTypes DEF CloseReason, Closed
  <2>2. Silent(t, t) /\ Silent(t, Finish(p, "Local"))
    BY <1>2, <2>1 DEF Silent, Live, Sound, Tunnel, Finish, Push
  <2>3. (t' = t \/ t' = Finish(p, "Local")) /\ delivered' = delivered
    BY <1>8 DEF Close, CloseTunnel
  <2> HIDE DEF p
  <2>4. Silent(t, t')
    BY <2>2, <2>3
  <2> QED BY <1>2, <2>3, <2>4, SilentInOrder
<1>9. ASSUME PollEvent
      PROVE  InOrder(delivered', t')
  <2>1. /\ t.events # <<>> /\ t' = [t EXCEPT !.events = Tail(@)]
        /\ delivered' = IF Head(t.events) = SendDatagram THEN delivered
                        ELSE Append(delivered, Head(t.events))
    BY <1>9 DEF PollEvent
  <2> QED BY <1>2, <2>1, PollInOrder
<1>10. ASSUME \/ \E cap \in Caps : SetSendBufferCap(cap)
              \/ \E f \in Fingerprints : ApplyRemoteAnswer(f)
              \/ Advance
              \/ UNCHANGED vars
       PROVE  InOrder(delivered', t')
  <2>1. Silent(t, t')
    BY <1>2, <1>10, SMTT(30) DEF SetSendBufferCap, ApplyRemoteAnswer, Advance, vars,
                       Silent, Live, Sound, Tunnel
  <2>2. delivered' = delivered
    BY <1>10 DEF SetSendBufferCap, ApplyRemoteAnswer, Advance, vars
  <2> QED BY <1>2, <2>1, <2>2, SilentInOrder
<1> QED BY <1>3, <1>4, <1>5, <1>6, <1>7, <1>8, <1>9, <1>10 DEF Next

-----------------------------------------------------------------------------
(* The theorems.                                                           *)

\* A message waits in the reassembly queue with no read pending only behind
\* one that to_payload refused.
THEOREM StrandedByOversizeOnly == Spec => []StrandedOnlyBehindOversize
<1>1. Inv => StrandedOnlyBehindOversize
  BY DEF Inv, Reads, Refused, StrandedOnlyBehindOversize
<1> QED BY <1>1, InitReads, NextReads, PTL DEF Spec

\* Accepting a message leaves at most one byte over the cap in the send buffer.
THEOREM SendKeepsCap == Spec => SendWithinCap
<1>1. Charged => [t'.buffered > t.buffered => t'.buffered <= t.send_buffer_cap + 1]_vars
  BY DEF Charged
<1> QED BY <1>1, InitReads, NextReads, PTL DEF Spec, SendWithinCap

\* The messages the host is told of are the acceptable ones SCTP produced, in
\* their order, and what is not told yet waits in the reassembly queue.
THEOREM MessagesInOrder == Spec => []DeliveredInOrder
<1>1. Ordered => DeliveredInOrder
  <2> SUFFICES ASSUME Ordered, t.stream # "none" PROVE DeliveredInOrder
    BY DEF DeliveredInOrder
  <2> DEFINE a == t.arrived
             q == t.rq
             read == Len(a) - Len(q)
             taken == {i \in 1..read : ~Oversize(a[i])}
             told == Happened("Message")
  <2>1. a \in Seq(InMessage) /\ q \in Seq(InMessage) /\ SuffixOf(q, a)
    BY DEF Ordered, Inv, Ready, Sound, Tunnel, Reads, Suffix
  <2>2. told = Told(Log) /\ taken = Taken(a, read)
    BY DEF Happened, Told, Taken
  <2>3. PICK ix, jx : Paired(Log, a, read, ix, jx)
    BY DEF Ordered, InOrder, Live, Matched, Log
  <2>4. /\ Lists(ix, told) /\ Lists(jx, taken) /\ Len(ix) = Len(jx)
        /\ \A k \in 1..Len(ix) : Log[ix[k]].len = Payload(a[jx[k]])
    BY <2>2, <2>3 DEF Paired
  <2>5. told \in SUBSET Nat /\ taken \in SUBSET Nat
    <3>1. Log \in Seq(Event)
      BY DEF Ordered, Inv, TypeOK, Tunnel, Log
    <3>2. DOMAIN Log \in SUBSET Nat
      BY <3>1
    <3>3. taken \in SUBSET Nat
      <4> HIDE DEF read, a
      <4>1. 1..read \subseteq Nat
        OBVIOUS
      <4> QED BY <4>1
    <3>4. told \in SUBSET Nat
      BY <3>2 DEF Happened
    <3> QED BY <3>3, <3>4
  <2>6. q = SubSeq(a, read + 1, Len(a))
    BY <2>1, SuffixIs
  <2> HIDE DEF taken, told, read
  <2>7. Cardinality(told) = Cardinality(taken)
    BY <2>4, <2>5, ListsSize
  <2>8. ASSUME NEW i \in told, NEW j \in taken, Rank(told, i) = Rank(taken, j)
        PROVE  Log[i].len = Payload(a[j])
    <3>1. PICK k \in 1..Len(ix) : ix[k] = i
      BY <2>4 DEF Lists
    <3>2. PICK l \in 1..Len(jx) : jx[l] = j
      BY <2>4 DEF Lists
    <3>3. Rank(told, i) = k /\ Rank(taken, j) = l
      BY <2>4, <2>5, <3>1, <3>2, ListsRank
    <3> QED BY <2>4, <2>8, <3>1, <3>2, <3>3
  <2> QED BY <2>6, <2>7, <2>8 DEF DeliveredInOrder, told, taken, read
<1> QED BY <1>1, InitOrdered, NextOrdered, PTL DEF Spec
=============================================================================
