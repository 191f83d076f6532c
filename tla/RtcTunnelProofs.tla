-------------------------- MODULE RtcTunnelProofs --------------------------
(***************************************************************************)
(* Proofs about RtcTunnel, for every set of datagrams, timeouts, sizes and *)
(* bounds: its types, its trace, its timeout, what it tells its host, the  *)
(* order of its messages and what it owes for the ones it sends.           *)
(*                                                                         *)
(* Every call of the host ends in drain or leaves the tunnel as it was, so *)
(* the proof says what holds when drain is called (Ready) and when it      *)
(* returns (Settled).                                                      *)
(***************************************************************************)
EXTENDS RtcTunnel, SequenceTheorems, WellFoundedInduction, TLAPS

Associated(p) == p.assoc \in {"connected", "lost"}

Lost(q) == \E i \in DOMAIN q : q[i].kind = "lost"

\* The transports of the peer connection come up one on top of the other, and
\* an association that ends before the channel opened says so to the channel
\* or is removed without a word.
Chained(p) ==
    /\ p.dtls # "new" => p.ice # "checking"
    /\ p.assoc # "none" => p.dtls = "connected"
    /\ p.dtlsEv => p.dtls = "connected" /\ p.assoc = "none"
    /\ ~Associated(p) => /\ p.sctpEv = <<>> /\ p.assocEv = <<>>
                         /\ p.channel = "connecting" /\ p.reads = <<>>
    /\ p.note \/ p.onOpen => p.channel # "connecting"
    /\ p.assoc = "lost" /\ p.channel = "connecting"
            => (p.sctpEv = <<>> /\ p.assocEv = <<>>) \/ Lost(p.sctpEv) \/ Lost(p.assocEv)
    /\ ~p.described => p.ice = "checking" /\ ~p.iceEv

\* Before the channel opens, SCTP keeps nothing back.
Idle(p) == p.channel = "connecting" => p.unread = <<>> /\ p.assocEv = <<>>

Linked(p) == Chained(p) /\ Idle(p)

\* What the tunnel knows of the channel.
Noticed(x) ==
    /\ x.pc.channel = "open" => x.opened
    /\ x.opened => x.pc.channel # "connecting"
    /\ x.pc.note \/ x.pc.onOpen => x.opened \/ x.finished
    /\ x.pc.reads # <<>> => x.opened

\* When drain is called: what opens the channel comes with nothing that could
\* end the tunnel, and a finished tunnel has never met its peer.
Ready(x) ==
    /\ Noticed(x)
    /\ ~x.opened /\ x.pc.sctpEv # <<>> => ~x.pc.iceEv /\ ~x.pc.dtlsEv
    /\ x.finished => x.pc.ice = "checking" /\ ~x.pc.iceEv

\* Between two calls: what could open the tunnel or end it has been drained.
Settled(x) ==
    /\ Noticed(x)
    /\ ~x.opened => x.pc.sctpEv = <<>>
    /\ ~x.finished => ~x.pc.iceEv /\ ~x.pc.dtlsEv

\* The stages recorded, in order and none in the future.
Stages(x) ==
    /\ x.dtls_ms # NoTime => x.ice_ms # NoTime /\ x.ice_ms <= x.dtls_ms
    /\ x.sctp_ms # NoTime => x.dtls_ms # NoTime /\ x.dtls_ms <= x.sctp_ms
    /\ x.opened_ms # NoTime => x.sctp_ms # NoTime /\ x.sctp_ms <= x.opened_ms /\ x.opened
    /\ x.ice_ms <= x.last_now /\ x.dtls_ms <= x.last_now
    /\ x.sctp_ms <= x.last_now /\ x.opened_ms <= x.last_now

\* A transport that is up has left its mark in the trace.
Traced(x) ==
    /\ Stages(x)
    /\ x.opened => x.opened_ms # NoTime
    /\ x.pc.dtls # "new" => x.ice_ms # NoTime
    /\ x.pc.assoc # "none" => x.dtls_ms # NoTime

Polled == [opens : {0, 1}, messages : Nat, closes : {0, 1}, reason : CloseReasons \cup {"none"}]

\* What is queued, behind what the host has polled: datagrams, Opened, then
\* messages, and nothing but datagrams behind Closed.
Lawful(ev, opened, finished, h) ==
    /\ \A j \in DOMAIN ev : ev[j].kind = "Opened" =>
            h.opens = 0 /\ h.closes = 0 /\ \A i \in DOMAIN ev : i < j => ev[i].kind = "SendDatagram"
    /\ \A i \in DOMAIN ev : ev[i].kind = "Closed" =>
            /\ h.closes = 0 /\ ev[i].reason \in CloseReasons
            /\ \A j \in DOMAIN ev : i < j => ev[j].kind = "SendDatagram"
    /\ \A i \in DOMAIN ev : ev[i].kind = "Message" => opened /\ h.closes = 0
    /\ opened <=> (h.opens = 1 \/ \E i \in DOMAIN ev : ev[i].kind = "Opened")
    /\ finished <=> (h.closes = 1 \/ \E i \in DOMAIN ev : ev[i].kind = "Closed")

\* Timeout has been reported or is about to be.
TimedOut(ev, h) ==
    h.reason = "Timeout" \/ \E i \in DOMAIN ev : ev[i].kind = "Closed" /\ ev[i].reason = "Timeout"

Honest(x, h) ==
    TimedOut(x.events, h) => x.finished /\ ~x.opened /\ x.last_now >= x.handshake_deadline

IsMessage(e) == e.kind = "Message"

\* The messages of q are numbered from lo + 1 to hi, in this order.
Counts(q, lo, hi) ==
    /\ q \in Seq(Event) /\ lo \in Nat /\ hi \in Nat /\ lo <= hi
    /\ \A i \in DOMAIN q : IsMessage(q[i]) => q[i].id \in (lo + 1)..hi
    /\ \A i, j \in DOMAIN q : i < j /\ IsMessage(q[i]) /\ IsMessage(q[j]) => q[i].id < q[j].id
    /\ \A n \in (lo + 1)..hi : \E i \in DOMAIN q : IsMessage(q[i]) /\ q[i].id = n

\* The messages that wait in the peer connection are the last that arrived,
\* those after number n.
Follows(p, n) == p.arrived = n + Len(p.reads) /\ \A i \in DOMAIN p.reads : p.reads[i] = n + i

\* What a notice of the association lets the channel forget.
Freed(n) == IF n.kind = "released" THEN n.bytes ELSE 0

\* What the association has said, and what it has still to say.
Notices(p) == p.sctpEv \o p.assocEv

\* What the channel has charged, and a byte for each empty message, covers what
\* SCTP holds unacknowledged and what each waiting notice will release: b is
\* what remains after each of them.
Covers(b, w, charged, held) ==
    /\ b \in [0..Len(w) -> Nat]
    /\ b[0] <= charged /\ held <= b[Len(w)]
    /\ \A i \in 1..Len(w) : b[i] + Freed(w[i]) <= b[i - 1]

Ledger(b, p) == Covers(b, Notices(p), p.outstanding + p.empties, p.unacked)

Owing(p) == p.channel # "gone" => \E b : Ledger(b, p)

\* What is queued goes on from what the host has polled, and what waits from
\* what is queued, until the tunnel is finished.
Flow(ev, p, finished, h) ==
    /\ Owing(p)
    /\ \E last \in Nat : /\ Counts(ev, h.messages, last) /\ last <= p.arrived
                         /\ ~finished => Follows(p, last)

Told(x, h) ==
    /\ Lawful(x.events, x.opened, x.finished, h) /\ Honest(x, h)
    /\ Flow(x.events, x.pc, x.finished, h)

\* Messages wait between two calls only while a batch is unfinished.
Batched(x) == x.finished \/ x.pc.reads = <<>> \/ x.deferred

Rest(x, h) ==
    x \in Tunnel /\ Linked(x.pc) /\ Settled(x) /\ Traced(x) /\ Told(x, h) /\ Batched(x)

Inv ==
    /\ TypeOK /\ host \in Polled /\ Rest(t, host) /\ t.last_now <= now
    /\ t.status = "none" => ~t.opened /\ ~t.finished /\ t.pc.arrived = 0

-----------------------------------------------------------------------------
(* Loops.  A loop over a sequence is a recursive function of how far it    *)
(* has come: it exists, and what each round preserves holds at its end.    *)

LEMMA LeastExists ==
    ASSUME NEW S, S \subseteq Nat, S # {}
    PROVE  \E m \in S : \A k \in S : m <= k
<1>1. \E m \in S : \A k \in S : <<k, m>> \notin OpToRel(<, Nat)
  BY NatLessThanWellFounded, WFMin
<1>2. PICK m \in S : \A k \in S : <<k, m>> \notin OpToRel(<, Nat)
  BY <1>1
<1>3. ASSUME NEW k \in S PROVE m <= k
  <2>1. k \in Nat /\ m \in Nat
    OBVIOUS
  <2>2. ~(k < m)
    BY <1>2, <2>1, Zenon DEF OpToRel
  <2> QED BY <2>1, <2>2
<1> QED BY <1>2, <1>3

LEMMA RoundByRound ==
    ASSUME NEW n \in Nat, NEW f, NEW G, f[0] \in G[0],
           \A i \in 1..n : f[i - 1] \in G[i - 1] => f[i] \in G[i]
    PROVE  f[n] \in G[n]
<1> DEFINE Bad == {i \in 0..n : f[i] \notin G[i]}
<1>1. Bad = {}
  <2> SUFFICES ASSUME Bad # {} PROVE FALSE
    OBVIOUS
  <2>1. PICK m \in Bad : \A k \in Bad : m <= k
    <3>1. Bad \subseteq Nat
      OBVIOUS
    <3> HIDE DEF Bad
    <3> QED BY <3>1, LeastExists
  <2>2. m # 0
    OBVIOUS
  <2>3. m \in 1..n /\ m - 1 \in 0..n /\ ~(m <= m - 1)
    BY <2>1, <2>2
  <2>4. f[m - 1] \in G[m - 1]
    BY <2>1, <2>3
  <2> QED BY <2>3, <2>4
<1>2. n \in 0..n
  OBVIOUS
<1> QED BY <1>1, <1>2

\* f makes the steps s, beginning with p.
Loop(f, n, p, s) == f = [i \in 0..n |-> IF i = 0 THEN p ELSE s[i][f[i - 1]]]

LEMMA LoopExists ==
    ASSUME NEW D, NEW n \in Nat, NEW p \in D, NEW s \in [1..n -> [D -> D]]
    PROVE  \E f \in [0..n -> D] : Loop(f, n, p, s)
<1> DEFINE Upto(m, f) == /\ f \in [0..m -> D]
                         /\ f = [i \in 0..m |-> IF i = 0 THEN p ELSE s[i][f[i - 1]]]
           Bad == {m \in 0..n : ~\E f : Upto(m, f)}
<1> HIDE DEF Upto
<1>1. Bad = {}
  <2> SUFFICES ASSUME Bad # {} PROVE FALSE
    OBVIOUS
  <2>1. PICK m \in Bad : \A k \in Bad : m <= k
    <3>1. Bad \subseteq Nat
      OBVIOUS
    <3> HIDE DEF Bad
    <3> QED BY <3>1, LeastExists
  <2>2. m # 0
    <3> SUFFICES ASSUME m = 0 PROVE \E f : Upto(0, f)
      BY <2>1
    <3> WITNESS [i \in 0..0 |-> p]
    <3> QED BY DEF Upto
  <2>3. m - 1 \in 0..n /\ m - 1 \notin Bad /\ m \in 1..n
    BY <2>1, <2>2
  <2>4. PICK g : Upto(m - 1, g)
    BY <2>3
  <2> DEFINE h == [i \in 0..m |-> IF i = m THEN s[m][g[m - 1]] ELSE g[i]]
  <2>5. g \in [0..(m - 1) -> D] /\ m - 1 \in 0..(m - 1)
    BY <2>3, <2>4 DEF Upto
  <2>6. h \in [0..m -> D]
    <3>1. s[m][g[m - 1]] \in D
      <4>1. s[m] \in [D -> D] /\ g[m - 1] \in D
        BY <2>3, <2>5
      <4> QED BY <4>1
    <3>2. \A i \in 0..m : i # m => i \in 0..(m - 1)
      BY <2>3
    <3> QED BY <2>5, <3>1, <3>2
  <2>7. ASSUME NEW i \in 0..m PROVE h[i] = IF i = 0 THEN p ELSE s[i][h[i - 1]]
    <3>1. CASE i = m
      <4>1. h[m] = s[m][g[m - 1]] /\ h[m - 1] = g[m - 1]
        BY <2>3
      <4> QED BY <2>3, <3>1, <4>1
    <3>2. CASE i # m
      <4>1. i \in 0..(m - 1) /\ h[i] = g[i]
        BY <2>3, <3>2
      <4>2. g[i] = IF i = 0 THEN p ELSE s[i][g[i - 1]]
        BY <2>4, <4>1 DEF Upto
      <4>3. i # 0 => h[i - 1] = g[i - 1]
        BY <2>3, <4>1
      <4> HIDE DEF h
      <4> QED BY <4>1, <4>2, <4>3
    <3> QED BY <3>1, <3>2
  <2>8. Upto(m, h)
    <3> HIDE DEF h
    <3>1. h = [i \in 0..m |-> h[i]]
      BY <2>6
    <3> QED BY <2>6, <2>7, <3>1 DEF Upto
  <2> QED BY <2>1, <2>8
<1>2. PICK f : Upto(n, f)
  <2>1. n \in 0..n
    OBVIOUS
  <2> QED BY <1>1, <2>1
<1> QED BY <1>2 DEF Upto, Loop

-----------------------------------------------------------------------------
(* Messages, numbered.                                                     *)

LEMMA CountsJoin ==
    ASSUME NEW p, NEW q, NEW lo, NEW mid, NEW hi, Counts(p, lo, mid), Counts(q, mid, hi)
    PROVE  Counts(p \o q, lo, hi)
<1> DEFINE w == p \o q
           l == Len(p)
           k == Len(q)
<1>1. /\ p \in Seq(Event) /\ q \in Seq(Event) /\ lo \in Nat /\ mid \in Nat /\ hi \in Nat
      /\ lo <= mid /\ mid <= hi
  BY DEF Counts
<1>2. l \in Nat /\ k \in Nat /\ DOMAIN p = 1..l /\ DOMAIN q = 1..k
  BY <1>1
<1>3. /\ w \in Seq(Event) /\ Len(w) = l + k
      /\ \A i \in 1..(l + k) : w[i] = IF i <= l THEN p[i] ELSE q[i - l]
  BY <1>1
<1>4. DOMAIN w = 1..(l + k)
  <2> HIDE DEF l, k
  <2> QED BY <1>3
<1> HIDE DEF w, l, k
<1>5. ASSUME NEW i \in DOMAIN w
      PROVE  \/ i \in DOMAIN p /\ w[i] = p[i]
             \/ i - l \in DOMAIN q /\ w[i] = q[i - l] /\ i > l
  BY <1>2, <1>3, <1>4
<1>6. ASSUME NEW i \in DOMAIN p
      PROVE  i \in DOMAIN w /\ w[i] = p[i] /\ i <= l
  BY <1>2, <1>3, <1>4
<1>7. ASSUME NEW i \in DOMAIN q
      PROVE  l + i \in DOMAIN w /\ w[l + i] = q[i]
  <2>1. l + i \in 1..(l + k) /\ ~(l + i <= l) /\ (l + i) - l = i
    BY <1>2
  <2> QED BY <1>3, <1>4, <2>1
<1>8. ASSUME NEW i \in DOMAIN w, IsMessage(w[i])
      PROVE  w[i].id \in (lo + 1)..hi
  <2>1. CASE i \in DOMAIN p /\ w[i] = p[i]
    <3>1. w[i].id \in (lo + 1)..mid
      BY <1>8, <2>1 DEF Counts
    <3> QED BY <1>1, <3>1
  <2>2. CASE i - l \in DOMAIN q /\ w[i] = q[i - l]
    <3>1. w[i].id \in (mid + 1)..hi
      BY <1>8, <2>2 DEF Counts
    <3> QED BY <1>1, <3>1
  <2> QED BY <1>5, <2>1, <2>2
<1>9. ASSUME NEW i \in DOMAIN w, NEW j \in DOMAIN w, i < j, IsMessage(w[i]), IsMessage(w[j])
      PROVE  w[i].id < w[j].id
  <2>0. i \in Nat /\ j \in Nat /\ l \in Nat
    BY <1>2, <1>4
  <2>1. CASE j \in DOMAIN p /\ w[j] = p[j]
    <3>1. i \in DOMAIN p /\ w[i] = p[i]
      BY <1>2, <1>5, <1>9, <2>0, <2>1
    <3> QED BY <1>9, <2>1, <3>1 DEF Counts
  <2>2. CASE j - l \in DOMAIN q /\ w[j] = q[j - l]
    <3>1. w[j].id \in (mid + 1)..hi
      BY <1>9, <2>2 DEF Counts
    <3>2. CASE i \in DOMAIN p /\ w[i] = p[i]
      <4>1. w[i].id \in (lo + 1)..mid
        BY <1>9, <3>2 DEF Counts
      <4> QED BY <1>1, <3>1, <4>1
    <3>3. CASE i - l \in DOMAIN q /\ w[i] = q[i - l]
      <4>1. i - l < j - l
        BY <1>9, <2>0
      <4> QED BY <1>9, <2>2, <3>3, <4>1 DEF Counts
    <3> QED BY <1>5, <3>2, <3>3
  <2> QED BY <1>5, <2>1, <2>2
<1>10. ASSUME NEW n \in (lo + 1)..hi
       PROVE  \E i \in DOMAIN w : IsMessage(w[i]) /\ w[i].id = n
  <2>1. CASE n <= mid
    <3>1. n \in (lo + 1)..mid
      BY <1>1, <2>1
    <3>2. PICK i \in DOMAIN p : IsMessage(p[i]) /\ p[i].id = n
      BY <3>1 DEF Counts
    <3> QED BY <1>6, <3>2
  <2>2. CASE n > mid
    <3>1. n \in (mid + 1)..hi
      BY <1>1, <2>2
    <3>2. PICK i \in DOMAIN q : IsMessage(q[i]) /\ q[i].id = n
      BY <3>1 DEF Counts
    <3> QED BY <1>7, <3>2
  <2> QED BY <1>1, <2>1, <2>2
<1>11. lo <= hi
  BY <1>1
<1>12. Counts(w, lo, hi)
  BY <1>1, <1>3, <1>8, <1>9, <1>10, <1>11 DEF Counts
<1> QED BY <1>12 DEF w

\* What is no message does not count.
LEMMA CountsNone ==
    ASSUME NEW q \in Seq(Event), NEW n \in Nat, \A i \in DOMAIN q : ~IsMessage(q[i])
    PROVE  Counts(q, n, n)
<1>1. (n + 1)..n = {} /\ n <= n
  OBVIOUS
<1> QED BY <1>1 DEF Counts

\* The first message of the rest is the next one due.
LEMMA CountsTail ==
    ASSUME NEW q, NEW lo, NEW hi, Counts(q, lo, hi), q # <<>>
    PROVE  IF IsMessage(q[1]) THEN q[1].id = lo + 1 /\ Counts(Tail(q), lo + 1, hi)
           ELSE Counts(Tail(q), lo, hi)
<1> DEFINE w == Tail(q)
<1>1. q \in Seq(Event) /\ lo \in Nat /\ hi \in Nat /\ lo <= hi
  BY DEF Counts
<1>2. /\ Len(q) \in Nat /\ Len(q) > 0 /\ DOMAIN q = 1..Len(q)
      /\ w \in Seq(Event) /\ Len(w) = Len(q) - 1
      /\ \A i \in 1..(Len(q) - 1) : w[i] = q[i + 1]
  BY <1>1
<1>3. DOMAIN w = 1..(Len(q) - 1)
  BY <1>2
<1> HIDE DEF w
<1>4. ASSUME NEW i \in DOMAIN w
      PROVE  i + 1 \in DOMAIN q /\ w[i] = q[i + 1] /\ i \in Nat /\ 1 < i + 1
  BY <1>2, <1>3
<1>5. ASSUME NEW i \in DOMAIN q, i # 1
      PROVE  i - 1 \in DOMAIN w /\ w[i - 1] = q[i]
  <2>1. i - 1 \in 1..(Len(q) - 1) /\ (i - 1) + 1 = i
    BY <1>2, <1>5
  <2> QED BY <1>2, <1>3, <2>1
<1>6. ASSUME NEW i \in DOMAIN w, NEW j \in DOMAIN w, i < j, IsMessage(w[i]), IsMessage(w[j])
      PROVE  w[i].id < w[j].id
  <2>1. i + 1 < j + 1
    BY <1>4, <1>6
  <2> QED BY <1>4, <1>6, <2>1 DEF Counts
<1>7. 1 \in DOMAIN q
  BY <1>2
<1>8. CASE IsMessage(q[1])
  <2>1. q[1].id \in (lo + 1)..hi
    BY <1>7, <1>8 DEF Counts
  <2>2. lo + 1 \in (lo + 1)..hi
    BY <1>1, <2>1
  <2>3. PICK i \in DOMAIN q : IsMessage(q[i]) /\ q[i].id = lo + 1
    BY <2>2 DEF Counts
  <2>4. i = 1
    <3> SUFFICES ASSUME i # 1 PROVE FALSE
      OBVIOUS
    <3>1. 1 < i
      BY <1>2
    <3>2. q[1].id < q[i].id
      BY <1>7, <1>8, <2>3, <3>1 DEF Counts
    <3> QED BY <1>1, <2>1, <2>3, <3>2
  <2>5. q[1].id = lo + 1
    BY <2>3, <2>4
  <2>6. ASSUME NEW j \in DOMAIN w, IsMessage(w[j])
        PROVE  w[j].id \in ((lo + 1) + 1)..hi
    <3>1. q[j + 1].id \in (lo + 1)..hi /\ q[1].id < q[j + 1].id
      BY <1>4, <1>7, <1>8, <2>6 DEF Counts
    <3> QED BY <1>1, <1>4, <2>5, <3>1
  <2>7. ASSUME NEW n \in ((lo + 1) + 1)..hi
        PROVE  \E j \in DOMAIN w : IsMessage(w[j]) /\ w[j].id = n
    <3>1. n \in (lo + 1)..hi /\ n # lo + 1
      BY <1>1
    <3>2. PICK j \in DOMAIN q : IsMessage(q[j]) /\ q[j].id = n
      BY <3>1 DEF Counts
    <3>3. j # 1
      BY <2>5, <3>1, <3>2
    <3> QED BY <1>5, <3>2, <3>3
  <2>8. lo + 1 \in Nat /\ lo + 1 <= hi
    BY <1>1, <2>2
  <2>9. Counts(w, lo + 1, hi)
    BY <1>1, <1>2, <1>6, <2>6, <2>7, <2>8 DEF Counts
  <2> QED BY <1>8, <2>5, <2>9 DEF w
<1>9. CASE ~IsMessage(q[1])
  <2>1. ASSUME NEW j \in DOMAIN w, IsMessage(w[j])
        PROVE  w[j].id \in (lo + 1)..hi
    BY <1>4, <2>1 DEF Counts
  <2>2. ASSUME NEW n \in (lo + 1)..hi
        PROVE  \E j \in DOMAIN w : IsMessage(w[j]) /\ w[j].id = n
    <3>1. PICK j \in DOMAIN q : IsMessage(q[j]) /\ q[j].id = n
      BY DEF Counts
    <3>2. j # 1
      BY <1>9, <3>1
    <3> QED BY <1>5, <3>1, <3>2
  <2>3. Counts(w, lo, hi)
    BY <1>1, <1>2, <1>6, <2>1, <2>2 DEF Counts
  <2> QED BY <1>9, <2>3 DEF w
<1> QED BY <1>8, <1>9

LEMMA CountsAppend ==
    ASSUME NEW q, NEW lo, NEW hi, Counts(q, lo, hi), NEW e \in Event, ~IsMessage(e)
    PROVE  Counts(Append(q, e), lo, hi)
<1>1. q \in Seq(Event) /\ hi \in Nat
  BY DEF Counts
<1>2. <<e>> \in Seq(Event) /\ \A i \in DOMAIN <<e>> : ~IsMessage(<<e>>[i])
  <2>1. DOMAIN <<e>> = {1} /\ <<e>>[1] = e
    OBVIOUS
  <2> QED BY <2>1
<1>3. Counts(<<e>>, hi, hi)
  BY <1>1, <1>2, CountsNone
<1>4. Append(q, e) = q \o <<e>>
  BY <1>1
<1> QED BY <1>3, <1>4, CountsJoin

\* What is numbered consecutively counts.
LEMMA CountsRun ==
    ASSUME NEW n \in Nat, NEW k \in Nat, NEW g, g \in Seq(Event), Len(g) = k,
           \A i \in 1..k : IsMessage(g[i]) /\ g[i].id = n + i
    PROVE  Counts(g, n, n + k)
<1>1. DOMAIN g = 1..k
  OBVIOUS
<1>2. \A i \in 1..k : n + i \in (n + 1)..(n + k)
  OBVIOUS
<1>3. \A i, j \in 1..k : i < j => n + i < n + j
  OBVIOUS
<1>4. \A m \in (n + 1)..(n + k) : m - n \in 1..k /\ n + (m - n) = m
  OBVIOUS
<1>5. n + k \in Nat /\ n <= n + k
  OBVIOUS
<1>6. \A m \in (n + 1)..(n + k) : \E i \in DOMAIN g : IsMessage(g[i]) /\ g[i].id = m
  <2> TAKE m \in (n + 1)..(n + k)
  <2> WITNESS m - n \in DOMAIN g
  <2> QED BY <1>1, <1>4
<1>7. \A i \in DOMAIN g : IsMessage(g[i]) => g[i].id \in (n + 1)..(n + k)
  BY <1>1, <1>2
<1>8. \A i, j \in DOMAIN g : i < j /\ IsMessage(g[i]) /\ IsMessage(g[j]) => g[i].id < g[j].id
  BY <1>1, <1>3
<1> QED BY <1>5, <1>6, <1>7, <1>8 DEF Counts

-----------------------------------------------------------------------------
(* The flow of messages and of what is owed for them.                      *)

\* The fields the flow is about.
SameData(p, q) ==
    /\ q.reads = p.reads /\ q.arrived = p.arrived /\ q.channel = p.channel
    /\ q.sctpEv = p.sctpEv /\ q.assocEv = p.assocEv
    /\ q.outstanding = p.outstanding /\ q.unacked = p.unacked /\ q.empties = p.empties

LEMMA SameFlow ==
    ASSUME NEW p, NEW q, SameData(p, q)
    PROVE  (Owing(p) => Owing(q)) /\ \A n : Follows(p, n) => Follows(q, n)
<1>1. \A b : Ledger(b, p) => Ledger(b, q)
  BY DEF SameData, Ledger, Notices
<1> QED BY <1>1 DEF SameData, Owing, Follows

\* A tunnel that only ends, or says so, keeps its flow.
LEMMA FlowKept ==
    ASSUME NEW ev, NEW p, NEW q, NEW finished, NEW ended, NEW h,
           Flow(ev, p, finished, h), SameData(p, q), finished => ended
    PROVE  /\ Flow(ev, q, ended, h)
           /\ \A e \in Event : ~IsMessage(e) => Flow(Append(ev, e), q, ended, h)
<1>1. PICK last \in Nat : /\ Counts(ev, h.messages, last) /\ last <= p.arrived
                          /\ ~finished => Follows(p, last)
  BY DEF Flow
<1>2. Owing(q) /\ last <= q.arrived /\ (~ended => Follows(q, last))
  BY <1>1, SameFlow DEF Flow, SameData
<1>3. ASSUME NEW es, Counts(es, h.messages, last) PROVE Flow(es, q, ended, h)
  BY <1>2, <1>3 DEF Flow
<1>4. \A e \in Event : ~IsMessage(e) => Counts(Append(ev, e), h.messages, last)
  BY <1>1, CountsAppend
<1> QED BY <1>1, <1>3, <1>4

LEMMA FlowConcat ==
    ASSUME NEW ev, NEW p, NEW q, NEW finished, NEW h, Flow(ev, p, finished, h), SameData(p, q),
           NEW g \in Seq(Event), \A i \in DOMAIN g : ~IsMessage(g[i])
    PROVE  Flow(ev \o g, q, finished, h)
<1>1. PICK last \in Nat : /\ Counts(ev, h.messages, last) /\ last <= p.arrived
                          /\ ~finished => Follows(p, last)
  BY DEF Flow
<1>2. Counts(ev \o g, h.messages, last)
  BY <1>1, CountsNone, CountsJoin
<1>3. Owing(q) /\ last <= q.arrived /\ (~finished => Follows(q, last))
  BY <1>1, SameFlow DEF Flow, SameData
<1> QED BY <1>2, <1>3 DEF Flow

LEMMA FreedIsNat ==
    ASSUME NEW n \in Notice
    PROVE  Freed(n) \in Nat
BY DEF Freed, Notice

\* One notice more.
LEMMA CoversGrows ==
    ASSUME NEW w \in Seq(Notice), NEW n \in Notice, NEW charged \in Nat, NEW held \in Nat,
           NEW left \in Nat, left + Freed(n) <= held, NEW b, Covers(b, w, charged, held)
    PROVE  \E c : Covers(c, Append(w, n), charged, left)
<1> DEFINE m == Len(w)
           v == Append(w, n)
           c == [i \in 0..(m + 1) |-> IF i = m + 1 THEN left ELSE b[i]]
<1>1. Freed(n) \in Nat
  BY FreedIsNat
<1>2. /\ b \in [0..m -> Nat] /\ b[0] <= charged /\ held <= b[m]
      /\ \A i \in 1..m : b[i] + Freed(w[i]) <= b[i - 1]
  BY DEF Covers
<1>3. m \in Nat /\ Len(v) = m + 1 /\ v[m + 1] = n /\ \A i \in 1..m : v[i] = w[i]
  OBVIOUS
<1> HIDE DEF m, v
<1>4. c \in [0..(m + 1) -> Nat]
  BY <1>2, <1>3
<1>5. c[0] = b[0] /\ c[m + 1] = left
  BY <1>3
<1>6. ASSUME NEW i \in 1..(m + 1) PROVE c[i] + Freed(v[i]) <= c[i - 1]
  <2>1. CASE i = m + 1
    <3>1. c[i] = left /\ c[i - 1] = b[m] /\ v[i] = n
      BY <1>3, <2>1
    <3>2. b[m] \in Nat
      BY <1>2, <1>3
    <3> HIDE DEF c
    <3> QED BY <1>1, <1>2, <3>1, <3>2
  <2>2. CASE i # m + 1
    <3>1. i \in 1..m /\ c[i] = b[i] /\ c[i - 1] = b[i - 1] /\ v[i] = w[i]
      BY <1>3, <2>2
    <3> HIDE DEF c
    <3> QED BY <1>2, <3>1
  <2> QED BY <2>1, <2>2
<1> HIDE DEF c
<1>7. left <= left
  OBVIOUS
<1>8. Covers(c, v, charged, left)
  BY <1>2, <1>3, <1>4, <1>5, <1>6, <1>7 DEF Covers
<1> QED BY <1>8 DEF v

\* The association is removed with what it had still to say.
LEMMA CoversCut ==
    ASSUME NEW a \in Seq(Notice), NEW w \in Seq(Notice), NEW charged, NEW held, NEW b,
           Covers(b, a \o w, charged, held)
    PROVE  \E c : Covers(c, a, charged, 0)
<1> DEFINE m == Len(a)
           k == Len(w)
           v == a \o w
           c == [i \in 0..m |-> b[i]]
<1>1. m \in Nat /\ k \in Nat /\ Len(v) = m + k
  OBVIOUS
<1>2. \A i \in 1..m : v[i] = a[i]
  OBVIOUS
<1>3. /\ b \in [0..Len(v) -> Nat] /\ b[0] <= charged
      /\ \A i \in 1..Len(v) : b[i] + Freed(v[i]) <= b[i - 1]
  BY DEF Covers
<1> HIDE DEF m, k, v
<1>4. c \in [0..m -> Nat]
  BY <1>1, <1>3
<1>5. c[0] = b[0] /\ 0 <= c[m]
  BY <1>1, <1>4
<1>6. ASSUME NEW i \in 1..m PROVE c[i] + Freed(a[i]) <= c[i - 1]
  <2>1. i \in 1..(m + k) /\ c[i] = b[i] /\ c[i - 1] = b[i - 1]
    BY <1>1
  <2> HIDE DEF c
  <2> QED BY <1>1, <1>2, <1>3, <2>1
<1> HIDE DEF c
<1>7. Covers(c, a, charged, 0)
  BY <1>3, <1>4, <1>5, <1>6 DEF Covers, m
<1> QED BY <1>7

\* The first notices have been handled, and what remains is still charged.
LEMMA CoversSpent ==
    ASSUME NEW a \in Seq(Notice), NEW w \in Seq(Notice), NEW charged, NEW held, NEW b,
           Covers(b, a \o w, charged, held), NEW rest \in Nat, b[Len(a)] <= rest
    PROVE  \E c : Covers(c, w, rest, held)
<1> DEFINE m == Len(a)
           k == Len(w)
           v == a \o w
           c == [i \in 0..k |-> b[m + i]]
<1>1. m \in Nat /\ k \in Nat /\ Len(v) = m + k
  OBVIOUS
<1>2. \A i \in 1..k : v[m + i] = w[i]
  OBVIOUS
<1>3. /\ b \in [0..Len(v) -> Nat] /\ held <= b[Len(v)]
      /\ \A i \in 1..Len(v) : b[i] + Freed(v[i]) <= b[i - 1]
  BY DEF Covers
<1>4. b[m] <= rest
  OBVIOUS
<1> HIDE DEF m, k, v
<1>5. c \in [0..k -> Nat]
  BY <1>1, <1>3
<1>6. c[0] = b[m] /\ c[k] = b[m + k]
  BY <1>1
<1>7. ASSUME NEW i \in 1..k PROVE c[i] + Freed(w[i]) <= c[i - 1]
  <2>1. m + i \in 1..(m + k) /\ c[i] = b[m + i] /\ c[i - 1] = b[(m + i) - 1]
    BY <1>1
  <2> HIDE DEF c
  <2> QED BY <1>1, <1>2, <1>3, <2>1
<1> HIDE DEF c
<1>8. Covers(c, w, rest, held)
  BY <1>1, <1>3, <1>4, <1>5, <1>6, <1>7 DEF Covers, k
<1> QED BY <1>8

\* The association says one thing more.
LEMMA LedgerGrows ==
    ASSUME NEW p \in PeerConnection, NEW q \in PeerConnection, NEW n \in Notice,
           q.sctpEv = p.sctpEv, q.assocEv = Append(p.assocEv, n), q.channel = p.channel,
           q.outstanding = p.outstanding, q.empties = p.empties,
           q.unacked + Freed(n) <= p.unacked, Owing(p)
    PROVE  Owing(q)
<1> SUFFICES ASSUME q.channel # "gone" PROVE \E c : Ledger(c, q)
  BY DEF Owing
<1>1. PICK b : Ledger(b, p)
  BY DEF Owing
<1> DEFINE a == p.sctpEv
           w == p.assocEv
           o == p.outstanding + p.empties
           u == p.unacked
           l == q.unacked
<1>2. a \in Seq(Notice) /\ w \in Seq(Notice) /\ o \in Nat /\ u \in Nat /\ l \in Nat
  BY SMTT(30) DEF PeerConnection
<1>3. Covers(b, a \o w, o, u)
  BY <1>1 DEF Ledger, Notices
<1>4. l + Freed(n) <= u /\ Notices(q) = a \o Append(w, n) /\ q.outstanding + q.empties = o
  BY DEF Notices
<1> HIDE DEF a, w, o, u, l
<1>5. a \o w \in Seq(Notice)
  BY <1>2
<1>6. a \o Append(w, n) = Append(a \o w, n)
  <2>1. Append(w, n) = w \o <<n>> /\ Append(a \o w, n) = (a \o w) \o <<n>>
    BY <1>2, <1>5, AppendIsConcat
  <2>2. <<n>> \in Seq(Notice)
    OBVIOUS
  <2> QED BY <1>2, <2>1, <2>2, ConcatAssociative
<1>7. PICK c : Covers(c, Append(a \o w, n), o, l)
  BY <1>2, <1>3, <1>4, <1>5, CoversGrows
<1>8. Ledger(c, q)
  BY <1>4, <1>6, <1>7 DEF Ledger, l
<1> QED BY <1>8

\* The association is removed.
LEMMA LedgerCut ==
    ASSUME NEW p \in PeerConnection, NEW q \in PeerConnection, Owing(p),
           q.sctpEv = p.sctpEv, q.assocEv = <<>>, q.channel = p.channel,
           q.outstanding = p.outstanding, q.empties = p.empties, q.unacked = 0
    PROVE  Owing(q)
<1> SUFFICES ASSUME q.channel # "gone" PROVE \E c : Ledger(c, q)
  BY DEF Owing
<1>1. PICK b : Ledger(b, p)
  BY DEF Owing
<1> DEFINE a == p.sctpEv
           w == p.assocEv
           o == p.outstanding + p.empties
<1>2. a \in Seq(Notice) /\ w \in Seq(Notice)
  BY DEF PeerConnection
<1>3. Covers(b, a \o w, o, p.unacked)
  BY <1>1 DEF Ledger, Notices
<1>4. Notices(q) = a \o <<>> /\ q.outstanding + q.empties = o
  BY DEF Notices
<1> HIDE DEF a, w, o
<1>5. Notices(q) = a
  BY <1>2, <1>4, ConcatEmptySeq
<1>6. PICK c : Covers(c, a, o, 0)
  BY <1>2, <1>3, CoversCut
<1>7. Ledger(c, q)
  BY <1>4, <1>5, <1>6 DEF Ledger
<1> QED BY <1>7

\* k messages more arrive.
LEMMA FollowsGrows ==
    ASSUME NEW p \in PeerConnection, NEW q \in PeerConnection, NEW n \in Nat, Follows(p, n),
           NEW k \in Nat, q.reads = p.reads \o [i \in 1..k |-> p.arrived + i],
           q.arrived = p.arrived + k
    PROVE  Follows(q, n)
<1> DEFINE w == p.reads
           m == Len(w)
           r == p.arrived
           g == [i \in 1..k |-> r + i]
           v == q.reads
<1>1. w \in Seq(Nat) /\ r \in Nat
  BY DEF PeerConnection
<1>2. v = w \o g
  OBVIOUS
<1>3. r = n + m /\ \A i \in DOMAIN w : w[i] = n + i
  BY DEF Follows
<1>4. q.arrived = r + k
  OBVIOUS
<1> HIDE DEF w, v, r
<1>5. g \in Seq(Nat) /\ Len(g) = k /\ \A i \in 1..k : g[i] = r + i
  <2>1. g \in [1..k -> Nat]
    BY <1>1
  <2> QED BY <2>1
<1> HIDE DEF g
<1>6. m \in Nat /\ DOMAIN w = 1..m
  BY <1>1
<1>7. /\ v \in Seq(Nat) /\ Len(v) = m + k
      /\ \A i \in 1..(m + k) : v[i] = IF i <= m THEN w[i] ELSE g[i - m]
  BY <1>1, <1>2, <1>5, ConcatProperties
<1> HIDE DEF m
<1>8. ASSUME NEW i \in 1..(m + k) PROVE v[i] = n + i
  <2>1. CASE i <= m
    <3>1. i \in 1..m /\ v[i] = w[i]
      BY <1>6, <1>7, <2>1
    <3> QED BY <1>3, <1>6, <3>1
  <2>2. CASE ~(i <= m)
    <3>1. i - m \in 1..k
      BY <1>6, <2>2
    <3>2. v[i] = g[i - m] /\ g[i - m] = r + (i - m)
      BY <1>5, <1>7, <2>2, <3>1
    <3> QED BY <1>3, <1>6, <3>2
  <2> QED BY <2>1, <2>2
<1>9. DOMAIN v = 1..(m + k)
  BY <1>7
<1>10. q.arrived = n + Len(v)
  BY <1>3, <1>4, <1>6, <1>7
<1> QED BY <1>8, <1>9, <1>10 DEF Follows, v

\* What the peer sends never makes the tunnel owe more, and its messages are
\* numbered as they are read.
DataFrame(p, r) ==
    /\ Owing(p) => Owing(r)
    /\ \A n \in Nat : Follows(p, n) => Follows(r, n)
    /\ r.unacked <= p.unacked /\ p.arrived <= r.arrived

LEMMA SameIsData ==
    ASSUME NEW p \in PeerConnection, NEW q \in PeerConnection, SameData(p, q)
    PROVE  DataFrame(p, q)
<1>1. p.unacked \in Nat /\ p.arrived \in Nat
  BY DEF PeerConnection
<1>2. q.unacked <= p.unacked /\ p.arrived <= q.arrived
  BY <1>1 DEF SameData
<1> QED BY <1>2, SameFlow DEF DataFrame

LEMMA DataChain ==
    ASSUME NEW p \in PeerConnection, NEW q \in PeerConnection, NEW r \in PeerConnection,
           DataFrame(p, q), DataFrame(q, r)
    PROVE  DataFrame(p, r)
<1>1. /\ p.unacked \in Nat /\ p.arrived \in Nat /\ q.unacked \in Nat /\ q.arrived \in Nat
      /\ r.unacked \in Nat /\ r.arrived \in Nat
  BY DEF PeerConnection
<1> QED BY <1>1 DEF DataFrame

-----------------------------------------------------------------------------
(* The peer connection: chunks.                                            *)

\* What chunks leave alone, and what they may change.
ChunkFrame(p, r, open) ==
    /\ (r.described <=> p.described) /\ r.ice = p.ice /\ (r.iceEv <=> p.iceEv)
    /\ r.dtls = p.dtls /\ (r.dtlsEv <=> p.dtlsEv) /\ r.channel = p.channel
    /\ (r.note <=> p.note) /\ (r.onOpen <=> p.onOpen)
    /\ r.reads = p.reads /\ r.sctpEv = p.sctpEv
    /\ Associated(p) => Associated(r)
    /\ r.assoc # "none" => p.assoc # "none"
    /\ ~open => r.unread = p.unread

\* The association changes, and says so.
Move(p, a, u, e, n) ==
    [p EXCEPT !.assoc = a, !.unacked = u, !.unread = e, !.assocEv = Append(@, n)]

LEMMA MoveKeeps ==
    ASSUME NEW p \in PeerConnection, Chained(p), NEW open \in BOOLEAN,
           p.assoc = "connecting" \/ p.assoc = "connected",
           NEW a \in {"connected", "lost"}, NEW n \in Notice, a = "lost" => n.kind = "lost",
           NEW u \in Nat, u + Freed(n) <= p.unacked,
           NEW e \in Seq({"message", "long"}), open \/ e = p.unread
    PROVE  LET r == Move(p, a, u, e, n) IN
           r \in PeerConnection /\ Chained(r) /\ ChunkFrame(p, r, open) /\ DataFrame(p, r)
<1> DEFINE r == Move(p, a, u, e, n)
           w == p.assocEv
           v == Append(w, n)
<1> SUFFICES r \in PeerConnection /\ Chained(r) /\ ChunkFrame(p, r, open) /\ DataFrame(p, r)
  OBVIOUS
<1>1. w \in Seq(Notice) /\ p.unacked \in Nat /\ p.arrived \in Nat
  BY DEF PeerConnection
<1>2. v \in Seq(Notice) /\ (n.kind = "lost" => Lost(v))
  <2> HIDE DEF w
  <2>1. v \in Seq(Notice) /\ DOMAIN v = 1..(Len(w) + 1) /\ v[Len(w) + 1] = n
    BY <1>1
  <2>2. Len(w) + 1 \in 1..(Len(w) + 1)
    BY <1>1
  <2> HIDE DEF v
  <2> QED BY <2>1, <2>2 DEF Lost
<1>3. r = [p EXCEPT !.assoc = a, !.unacked = u, !.unread = e, !.assocEv = v]
  BY DEF Move, PeerConnection
<1> HIDE DEF r, v
<1>4. r \in PeerConnection
  BY <1>2, <1>3, Zenon DEF PeerConnection
<1>5. /\ r.assoc = a /\ r.unacked = u /\ r.unread = e /\ r.assocEv = v /\ r.sctpEv = p.sctpEv
      /\ r.ice = p.ice /\ r.dtls = p.dtls /\ r.channel = p.channel /\ r.reads = p.reads
      /\ r.arrived = p.arrived /\ r.outstanding = p.outstanding /\ r.empties = p.empties
  BY <1>3 DEF PeerConnection
<1>6. /\ r.described = p.described /\ r.iceEv = p.iceEv /\ r.dtlsEv = p.dtlsEv
      /\ r.note = p.note /\ r.onOpen = p.onOpen
  BY <1>3 DEF PeerConnection
<1>7. Chained(r)
  BY <1>2, <1>5, <1>6 DEF Chained, Associated
<1>8. ChunkFrame(p, r, open)
  BY <1>5, <1>6 DEF ChunkFrame, Associated
<1>9. DataFrame(p, r)
  <2>1. Owing(p) => Owing(r)
    BY <1>4, <1>5, LedgerGrows DEF v, w
  <2>2. Freed(n) \in Nat
    BY FreedIsNat
  <2>3. u <= p.unacked /\ p.arrived <= p.arrived
    BY <1>1, <2>2
  <2> QED BY <1>5, <2>1, <2>3 DEF DataFrame, Follows
<1> QED BY <1>4, <1>7, <1>8, <1>9

LEMMA ChunkStep ==
    ASSUME NEW p \in PeerConnection, Chained(p), NEW c \in Chunks, NEW open \in BOOLEAN
    PROVE  LET r == HandleChunk(p, c, open) IN
           r \in PeerConnection /\ Chained(r) /\ ChunkFrame(p, r, open) /\ DataFrame(p, r)
<1> DEFINE r == HandleChunk(p, c, open)
           u == p.unacked
           e == p.unread
           Kept == r \in PeerConnection /\ Chained(r) /\ ChunkFrame(p, r, open) /\ DataFrame(p, r)
<1> SUFFICES Kept
  OBVIOUS
<1>1. u \in Nat /\ e \in Seq({"message", "long"}) /\ u + 0 <= u
  BY DEF PeerConnection
<1>2. ASSUME NEW k \in {"complete", "lost", "readable"}
      PROVE  [kind |-> k, bytes |-> 0] \in Notice /\ Freed([kind |-> k, bytes |-> 0]) = 0
  BY DEF Notice, Freed
<1>3. CASE c = "complete" /\ p.assoc = "connecting"
  <2> DEFINE n == [kind |-> "complete", bytes |-> 0]
  <2>1. r = Move(p, "connected", u, e, n)
    BY <1>3 DEF HandleChunk, Move, Says, PeerConnection
  <2>2. n \in Notice /\ Freed(n) = 0
    BY <1>2
  <2> HIDE DEF n, r, u, e
  <2>3. u + Freed(n) <= p.unacked
    BY <1>1, <2>2 DEF u
  <2> QED BY <1>1, <1>3, <2>1, <2>2, <2>3, MoveKeeps DEF e
<1>4. CASE c = "lost" /\ p.assoc = "connected"
  <2> DEFINE n == [kind |-> "lost", bytes |-> 0]
  <2>1. r = Move(p, "lost", u, e, n)
    BY <1>4 DEF HandleChunk, Move, Says, PeerConnection
  <2>2. n \in Notice /\ Freed(n) = 0 /\ n.kind = "lost"
    BY <1>2
  <2> HIDE DEF n, r, u, e
  <2>3. u + Freed(n) <= p.unacked
    BY <1>1, <2>2 DEF u
  <2> QED BY <1>1, <1>4, <2>1, <2>2, <2>3, MoveKeeps DEF e
<1>5. CASE c = "ack" /\ p.assoc = "connected" /\ p.unacked > 0
  <2> DEFINE n == [kind |-> "released", bytes |-> p.unacked]
  <2>1. r = Move(p, "connected", 0, e, n)
    BY <1>5 DEF HandleChunk, Move, Says, PeerConnection
  <2>2. n \in Notice /\ Freed(n) = p.unacked
    BY <1>1 DEF Notice, Freed
  <2>3. 0 + p.unacked <= p.unacked /\ 0 \in Nat
    BY <1>1
  <2> HIDE DEF n, r, u, e
  <2> QED BY <1>1, <1>5, <2>1, <2>2, <2>3, MoveKeeps DEF e
<1>6. CASE c \in {"data", "long"} /\ p.assoc = "connected" /\ open
  <2> DEFINE n == [kind |-> "readable", bytes |-> 0]
             m == IF c = "long" THEN "long" ELSE "message"
             d == Append(e, m)
  <2>1. r = Move(p, "connected", u, d, n)
    BY <1>6, ZenonT(60) DEF HandleChunk, Move, Says, PeerConnection
  <2>2. n \in Notice /\ Freed(n) = 0
    BY <1>2
  <2>3. m \in {"message", "long"}
    OBVIOUS
  <2> HIDE DEF n, r, u, e, m
  <2>4. d \in Seq({"message", "long"})
    BY <1>1, <2>3
  <2> HIDE DEF d
  <2>5. u + Freed(n) <= p.unacked
    BY <1>1, <2>2 DEF u
  <2> QED BY <1>1, <1>6, <2>1, <2>2, <2>4, <2>5, MoveKeeps
<1>7. CASE /\ ~(c = "complete" /\ p.assoc = "connecting") /\ ~(c = "lost" /\ p.assoc = "connected")
           /\ ~(c = "ack" /\ p.assoc = "connected" /\ p.unacked > 0)
           /\ ~(c \in {"data", "long"} /\ p.assoc = "connected" /\ open)
  <2>1. r = p
    BY <1>7 DEF HandleChunk
  <2>2. DataFrame(p, p)
    BY SameIsData DEF SameData
  <2> QED BY <2>1, <2>2 DEF ChunkFrame
<1> QED BY <1>3, <1>4, <1>5, <1>6, <1>7

LEMMA ChunksKeep ==
    ASSUME NEW p \in PeerConnection, Chained(p), NEW chunks \in Seq(Chunks), NEW open \in BOOLEAN
    PROVE  LET r == HandleChunks(p, chunks, open) IN
           r \in PeerConnection /\ Chained(r) /\ ChunkFrame(p, r, open) /\ DataFrame(p, r)
<1> DEFINE n == Len(chunks)
           D == {r \in PeerConnection : Chained(r) /\ ChunkFrame(p, r, open) /\ DataFrame(p, r)}
           f == CHOOSE f : f = [i \in 0..n |-> IF i = 0 THEN p
                                               ELSE HandleChunk(f[i - 1], chunks[i], open)]
           s == [i \in 1..n |-> [r \in D |-> HandleChunk(r, chunks[i], open)]]
           G == [i \in 0..n |-> D]
<1>1. n \in Nat /\ \A i \in 1..n : chunks[i] \in Chunks
  OBVIOUS
<1>2. p \in D
  <2>1. DataFrame(p, p)
    BY SameIsData DEF SameData
  <2> QED BY <2>1 DEF ChunkFrame
<1>3. ASSUME NEW r \in D, NEW i \in 1..n PROVE HandleChunk(r, chunks[i], open) \in D
  <2> DEFINE q == HandleChunk(r, chunks[i], open)
  <2>1. q \in PeerConnection /\ Chained(q) /\ ChunkFrame(r, q, open) /\ DataFrame(r, q)
    BY <1>1, ChunkStep
  <2> HIDE DEF q
  <2>2. ChunkFrame(p, q, open)
    BY <2>1 DEF ChunkFrame
  <2>3. DataFrame(p, q)
    BY <2>1, DataChain
  <2>4. q \in D
    BY <2>1, <2>2, <2>3
  <2> QED BY <2>4 DEF q
<1> HIDE DEF D
<1>4. s \in [1..n -> [D -> D]]
  BY <1>3
<1>5. \E g : g = [i \in 0..n |-> IF i = 0 THEN p ELSE HandleChunk(g[i - 1], chunks[i], open)]
  <2>0. PICK g \in [0..n -> D] : Loop(g, n, p, s)
    <3> HIDE DEF s, n
    <3> QED BY <1>1, <1>2, <1>4, LoopExists
  <2>1. g = [i \in 0..n |-> IF i = 0 THEN p ELSE s[i][g[i - 1]]]
    <3> HIDE DEF s, n
    <3> QED BY <2>0 DEF Loop
  <2>2. ASSUME NEW i \in 0..n, i # 0 PROVE s[i][g[i - 1]] = HandleChunk(g[i - 1], chunks[i], open)
    <3>1. i \in 1..n /\ i - 1 \in 0..n
      BY <1>1, <2>2
    <3>2. g[i - 1] \in D
      BY <2>0, <3>1
    <3> QED BY <3>1, <3>2
  <2> HIDE DEF s
  <2>3. [i \in 0..n |-> IF i = 0 THEN p ELSE s[i][g[i - 1]]]
        = [i \in 0..n |-> IF i = 0 THEN p ELSE HandleChunk(g[i - 1], chunks[i], open)]
    BY <2>2
  <2> QED BY <2>1, <2>3
<1>6. f = [i \in 0..n |-> IF i = 0 THEN p ELSE HandleChunk(f[i - 1], chunks[i], open)]
  BY <1>5
<1>7. HandleChunks(p, chunks, open) = f[n]
  BY DEF HandleChunks
<1> HIDE DEF f, n
<1>8. f[0] = p /\ \A i \in 1..n : f[i] = HandleChunk(f[i - 1], chunks[i], open)
  BY <1>1, <1>6
<1>9. f[0] \in G[0] /\ \A i \in 1..n : f[i - 1] \in G[i - 1] => f[i] \in G[i]
  BY <1>1, <1>2, <1>3, <1>8
<1>10. f[n] \in G[n]
  <2> HIDE DEF G
  <2> QED BY <1>1, <1>9, RoundByRound
<1>11. f[n] \in D
  BY <1>1, <1>10
<1> QED BY <1>7, <1>11 DEF D

-----------------------------------------------------------------------------
(* The peer connection: reading.                                           *)

LEMMA SubSeqIn ==
    ASSUME NEW S, NEW w \in Seq(S), NEW m \in Int, NEW n \in Int, 1 <= m, n <= Len(w)
    PROVE  SubSeq(w, m, n) \in Seq(S) /\ (w = <<>> => SubSeq(w, m, n) = <<>>)
<1>1. ASSUME NEW i \in m..n PROVE w[i] \in S
  <2>1. i \in 1..Len(w)
    OBVIOUS
  <2> QED BY <2>1
<1>2. SubSeq(w, m, n) \in Seq(S)
  BY <1>1, SubSeqProperties
<1>3. ASSUME w = <<>> PROVE SubSeq(w, m, n) = <<>>
  <2>1. n < m
    BY <1>3
  <2> QED BY <2>1, SubSeqEmpty
<1> QED BY <1>2, <1>3

LEMMA LeastIn ==
    ASSUME NEW S, S \subseteq Nat, S # {}
    PROVE  Least(S) \in S
BY LeastExists DEF Least

LEMMA InFrontRange ==
    ASSUME NEW p \in PeerConnection
    PROVE  /\ InFront(p) \in 0..Len(p.unread) /\ Len(p.unread) \in Nat
           /\ TooLong(p) # {} => InFront(p) + 1 <= Len(p.unread)
           /\ p.unread = <<>> => TooLong(p) = {}
<1> DEFINE w == p.unread
<1>1. w \in Seq({"message", "long"}) /\ TooLong(p) = {i \in DOMAIN w : w[i] = "long"}
  BY DEF PeerConnection, TooLong
<1>2. Len(w) \in Nat /\ DOMAIN w = 1..Len(w)
  BY <1>1
<1>3. TooLong(p) \subseteq 1..Len(w) /\ TooLong(p) \subseteq Nat
  BY <1>1, <1>2
<1>4. w = <<>> => TooLong(p) = {}
  BY <1>3
<1> HIDE DEF w
<1>5. CASE TooLong(p) = {}
  BY <1>2, <1>4, <1>5 DEF InFront, w
<1>6. CASE TooLong(p) # {}
  <2>1. Least(TooLong(p)) \in 1..Len(w)
    BY <1>3, <1>6, LeastIn
  <2>2. InFront(p) = Least(TooLong(p)) - 1
    BY <1>6 DEF InFront
  <2> QED BY <1>2, <1>4, <2>1, <2>2 DEF w
<1> QED BY <1>5, <1>6

\* Reading leaves the transports and the channel alone.
Reading(p, r) ==
    /\ (r.described <=> p.described) /\ r.ice = p.ice /\ (r.iceEv <=> p.iceEv)
    /\ r.dtls = p.dtls /\ (r.dtlsEv <=> p.dtlsEv) /\ r.assoc = p.assoc /\ r.channel = p.channel
    /\ (r.note <=> p.note) /\ (r.onOpen <=> p.onOpen)
    /\ r.reads # <<>> => p.reads # <<>> \/ p.channel = "open"
    /\ p.unread = <<>> => r.unread = <<>>
    /\ DataFrame(p, r)

LEMMA ReadingChain ==
    ASSUME NEW p \in PeerConnection, NEW q \in PeerConnection, NEW r \in PeerConnection,
           Reading(p, q), Reading(q, r)
    PROVE  Reading(p, r)
<1>1. DataFrame(p, r)
  BY DataChain DEF Reading
<1> QED BY <1>1 DEF Reading

LEMMA ReadingLinked ==
    ASSUME NEW p, NEW r, Reading(p, r), r.sctpEv = p.sctpEv, r.assocEv = p.assocEv
    PROVE  (Chained(p) => Chained(r)) /\ (Linked(p) => Linked(r))
<1>1. Chained(p) => Chained(r)
  BY DEF Reading, Chained, Associated
<1>2. Idle(p) => Idle(r)
  BY DEF Reading, Idle
<1> QED BY <1>1, <1>2 DEF Linked

LEMMA TakeKeeps ==
    ASSUME NEW p \in PeerConnection, NEW n \in 0..Len(p.unread)
    PROVE  LET r == Take(p, n) IN
           /\ r \in PeerConnection /\ Reading(p, r)
           /\ r.sctpEv = p.sctpEv /\ r.assocEv = p.assocEv
<1> DEFINE r == Take(p, n)
           k == IF p.channel = "open" THEN n ELSE 0
           w == p.unread
           v == SubSeq(w, n + 1, Len(w))
           a == p.arrived
           b == a + k
           g == [i \in 1..k |-> a + i]
           e == p.reads
           f == e \o g
<1> SUFFICES /\ r \in PeerConnection /\ Reading(p, r)
             /\ r.sctpEv = p.sctpEv /\ r.assocEv = p.assocEv
  OBVIOUS
<1>1. w \in Seq({"message", "long"}) /\ a \in Nat /\ p.unacked \in Nat /\ e \in Seq(Nat)
  BY DEF PeerConnection
<1>2. n \in Nat /\ Len(w) \in Nat
  BY <1>1
<1>3. k \in Nat /\ (p.channel # "open" => k = 0)
  BY <1>2
<1>4. r = [p EXCEPT !.unread = v, !.arrived = b, !.reads = f]
  BY DEF Take, PeerConnection
<1> HIDE DEF k, w, a, e, r
<1>5. v \in Seq({"message", "long"}) /\ (w = <<>> => v = <<>>)
  BY <1>1, <1>2, SubSeqIn
<1>6. b \in Nat /\ a <= b
  BY <1>1, <1>3
<1>7. g \in Seq(Nat) /\ (k = 0 => g = <<>>)
  <2>1. g \in [1..k -> Nat] /\ Len(g) = k
    BY <1>1, <1>3
  <2>2. g \in Seq(Nat)
    BY <1>3, <2>1
  <2> QED BY <2>1, <2>2
<1>8. g = [i \in 1..k |-> a + i]
  OBVIOUS
<1> HIDE DEF g
<1>9. f \in Seq(Nat) /\ (g = <<>> /\ e = <<>> => f = <<>>)
  BY <1>1, <1>7, ConcatEmptySeq
<1>10. f = e \o g /\ b = a + k
  OBVIOUS
<1> HIDE DEF v, b, f
<1>11. r \in PeerConnection
  BY <1>4, <1>5, <1>6, <1>9, Zenon DEF PeerConnection
<1>12. /\ r.unread = v /\ r.arrived = b /\ r.reads = f /\ r.sctpEv = p.sctpEv
       /\ r.assocEv = p.assocEv /\ r.ice = p.ice /\ r.dtls = p.dtls /\ r.assoc = p.assoc
       /\ r.channel = p.channel /\ r.outstanding = p.outstanding /\ r.unacked = p.unacked
       /\ r.empties = p.empties
  BY <1>4 DEF PeerConnection
<1>13. /\ r.described = p.described /\ r.iceEv = p.iceEv /\ r.dtlsEv = p.dtlsEv
       /\ r.note = p.note /\ r.onOpen = p.onOpen
  BY <1>4 DEF PeerConnection
<1>14. DataFrame(p, r)
  <2>1. \A j \in Nat : Follows(p, j) => Follows(r, j)
    BY <1>3, <1>8, <1>10, <1>11, <1>12, FollowsGrows DEF a, e
  <2>2. Owing(p) => Owing(r)
    <3>1. \A c : Ledger(c, p) => Ledger(c, r)
      BY <1>12 DEF Ledger, Notices
    <3> QED BY <1>12, <3>1 DEF Owing
  <2>3. r.unacked <= p.unacked
    BY <1>1, <1>12
  <2>4. p.arrived <= r.arrived
    BY <1>6, <1>12 DEF a
  <2> QED BY <2>1, <2>2, <2>3, <2>4 DEF DataFrame
<1>15. r.reads # <<>> => p.reads # <<>> \/ p.channel = "open"
  BY <1>3, <1>7, <1>9, <1>12 DEF e
<1>16. p.unread = <<>> => r.unread = <<>>
  BY <1>5, <1>12 DEF w
<1>17. Reading(p, r)
  BY <1>12, <1>13, <1>14, <1>15, <1>16 DEF Reading
<1> QED BY <1>11, <1>12, <1>17

\* Some of what the association keeps for itself changes.
LEMMA KeptReading ==
    ASSUME NEW p \in PeerConnection, NEW w \in Seq({"message", "long"}), NEW b \in BOOLEAN,
           p.unread = <<>> => w = <<>>
    PROVE  LET r == [p EXCEPT !.unread = w, !.pending = b] IN
           /\ r \in PeerConnection /\ Reading(p, r)
           /\ r.sctpEv = p.sctpEv /\ r.assocEv = p.assocEv
<1> DEFINE r == [p EXCEPT !.unread = w, !.pending = b]
<1>1. r = [p EXCEPT !.unread = w, !.pending = b]
  OBVIOUS
<1> SUFFICES /\ r \in PeerConnection /\ Reading(p, r)
             /\ r.sctpEv = p.sctpEv /\ r.assocEv = p.assocEv
  OBVIOUS
<1> HIDE DEF r
<1>2. r \in PeerConnection
  BY <1>1, Zenon DEF PeerConnection
<1>3. SameData(p, r) /\ r.unread = w
  BY <1>1 DEF SameData, PeerConnection
<1>4. /\ r.ice = p.ice /\ r.dtls = p.dtls /\ r.assoc = p.assoc /\ r.channel = p.channel
      /\ r.sctpEv = p.sctpEv /\ r.assocEv = p.assocEv /\ r.reads = p.reads
  BY <1>1 DEF PeerConnection
<1>5. /\ r.described = p.described /\ r.iceEv = p.iceEv /\ r.dtlsEv = p.dtlsEv
      /\ r.note = p.note /\ r.onOpen = p.onOpen
  BY <1>1 DEF PeerConnection
<1>6. DataFrame(p, r)
  BY <1>2, <1>3, SameIsData
<1>7. Reading(p, r)
  BY <1>3, <1>4, <1>5, <1>6 DEF Reading
<1> QED BY <1>2, <1>4, <1>7

LEMMA RefuseKeeps ==
    ASSUME NEW p \in PeerConnection
    PROVE  LET r == Refuse(p) IN
           /\ r \in PeerConnection /\ Reading(p, r)
           /\ r.sctpEv = p.sctpEv /\ r.assocEv = p.assocEv
<1> DEFINE w == p.unread
           i == InFront(p) + 2
           v == SubSeq(w, i, Len(w))
           b == p.pending
<1>1. w \in Seq({"message", "long"}) /\ b \in BOOLEAN
  BY DEF PeerConnection
<1>2. i \in Int /\ 1 <= i /\ Len(w) \in Int
  BY InFrontRange
<1>3. Refuse(p) = [p EXCEPT !.unread = v, !.pending = b]
  BY DEF Refuse, PeerConnection
<1>4. Len(w) <= Len(w)
  BY <1>2
<1> HIDE DEF w, i, b
<1>5. v \in Seq({"message", "long"}) /\ (w = <<>> => v = <<>>)
  BY <1>1, <1>2, <1>4, SubSeqIn
<1> HIDE DEF v
<1>6. p.unread = <<>> => v = <<>>
  BY <1>5 DEF w
<1>7. LET r == [p EXCEPT !.unread = v, !.pending = b] IN
      /\ r \in PeerConnection /\ Reading(p, r)
      /\ r.sctpEv = p.sctpEv /\ r.assocEv = p.assocEv
  BY <1>1, <1>5, <1>6, KeptReading
<1> QED BY <1>3, <1>7, Zenon

LEMMA DropKeeps ==
    ASSUME NEW p \in PeerConnection
    PROVE  LET r == Drop(p) IN
           /\ r \in PeerConnection /\ Reading(p, r)
           /\ r.sctpEv = p.sctpEv /\ r.assocEv = <<>> /\ r.unread = <<>> /\ r.reads = p.reads
<1> DEFINE r == Drop(p)
           no == FALSE
           e == <<>>
           z == 0
<1> SUFFICES /\ r \in PeerConnection /\ Reading(p, r)
             /\ r.sctpEv = p.sctpEv /\ r.assocEv = <<>> /\ r.unread = <<>> /\ r.reads = p.reads
  OBVIOUS
<1>1. e \in Seq({"message", "long"}) /\ e \in Seq(Notice) /\ no \in BOOLEAN /\ z \in Nat
  OBVIOUS
<1>2. r = [p EXCEPT !.unread = e, !.assocEv = e, !.pending = no, !.unacked = z]
  BY DEF Drop
<1>3. e = <<>> /\ z = 0
  OBVIOUS
<1> HIDE DEF r, no, e, z
<1>4. r \in PeerConnection
  BY <1>1, <1>2, Zenon DEF PeerConnection
<1>5. /\ r.unread = e /\ r.assocEv = e /\ r.unacked = z /\ r.sctpEv = p.sctpEv
      /\ r.arrived = p.arrived /\ r.reads = p.reads /\ r.ice = p.ice /\ r.dtls = p.dtls
      /\ r.assoc = p.assoc /\ r.channel = p.channel /\ r.outstanding = p.outstanding
      /\ r.empties = p.empties
  BY <1>2 DEF PeerConnection
<1>6. /\ r.described = p.described /\ r.iceEv = p.iceEv /\ r.dtlsEv = p.dtlsEv
      /\ r.note = p.note /\ r.onOpen = p.onOpen
  BY <1>2 DEF PeerConnection
<1>7. p.unacked \in Nat /\ p.arrived \in Nat
  BY DEF PeerConnection
<1>8. Owing(p) => Owing(r)
  BY <1>3, <1>4, <1>5, LedgerCut
<1>9. r.unacked <= p.unacked /\ p.arrived <= r.arrived
  BY <1>3, <1>5, <1>7
<1>10. DataFrame(p, r)
  BY <1>5, <1>8, <1>9 DEF DataFrame, Follows
<1>11. Reading(p, r)
  BY <1>3, <1>5, <1>6, <1>10 DEF Reading
<1> QED BY <1>3, <1>4, <1>5, <1>11

LEMMA DropLinked ==
    ASSUME NEW p \in PeerConnection, Linked(p)
    PROVE  Linked(Drop(p))
<1> DEFINE r == Drop(p)
<1>1. /\ Reading(p, r) /\ r.sctpEv = p.sctpEv /\ r.assocEv = <<>> /\ r.unread = <<>>
      /\ r.reads = p.reads
  BY DropKeeps
<1> HIDE DEF r
<1>2. Chained(r)
  BY <1>1 DEF Reading, Linked, Chained, Idle, Associated
<1>3. Idle(r)
  BY <1>1 DEF Idle
<1> QED BY <1>2, <1>3 DEF Linked, r

LEMMA LostSplit ==
    ASSUME NEW a \in Seq(Notice), NEW b \in Seq(Notice)
    PROVE  Lost(a \o b) <=> Lost(a) \/ Lost(b)
<1> DEFINE m == Len(a)
           n == Len(b)
           v == a \o b
<1>1. m \in Nat /\ n \in Nat /\ DOMAIN a = 1..m /\ DOMAIN b = 1..n
  OBVIOUS
<1>2. DOMAIN v = 1..(m + n) /\ \A i \in 1..(m + n) : v[i] = IF i <= m THEN a[i] ELSE b[i - m]
  <2>1. v \in Seq(Notice) /\ Len(v) = m + n
    OBVIOUS
  <2>2. DOMAIN v = 1..Len(v)
    BY <2>1
  <2>3. \A i \in 1..(m + n) : v[i] = IF i <= m THEN a[i] ELSE b[i - m]
    BY ConcatProperties
  <2> QED BY <2>1, <2>2, <2>3
<1> HIDE DEF m, n, v
<1>3. ASSUME NEW i \in DOMAIN v, v[i].kind = "lost" PROVE Lost(a) \/ Lost(b)
  <2>1. CASE i <= m
    <3>1. i \in DOMAIN a /\ v[i] = a[i]
      BY <1>1, <1>2, <2>1
    <3> QED BY <1>3, <3>1 DEF Lost
  <2>2. CASE ~(i <= m)
    <3>1. i - m \in DOMAIN b /\ v[i] = b[i - m]
      BY <1>1, <1>2, <2>2
    <3> QED BY <1>3, <3>1 DEF Lost
  <2> QED BY <2>1, <2>2
<1>4. ASSUME NEW i \in DOMAIN a, a[i].kind = "lost" PROVE Lost(v)
  <2>1. i \in DOMAIN v /\ v[i] = a[i]
    BY <1>1, <1>2
  <2> QED BY <1>4, <2>1 DEF Lost
<1>5. ASSUME NEW i \in DOMAIN b, b[i].kind = "lost" PROVE Lost(v)
  <2>1. m + i \in 1..(m + n) /\ ~(m + i <= m) /\ (m + i) - m = i
    BY <1>1
  <2>2. m + i \in DOMAIN v /\ v[m + i] = b[i]
    BY <1>2, <2>1
  <2> QED BY <1>5, <2>2 DEF Lost
<1>6. Lost(v) => Lost(a) \/ Lost(b)
  BY <1>3 DEF Lost
<1>7. Lost(a) \/ Lost(b) => Lost(v)
  BY <1>4, <1>5 DEF Lost
<1> QED BY <1>6, <1>7 DEF v

LEMMA ConcatThree ==
    ASSUME NEW a \in Seq(Notice), NEW b \in Seq(Notice), NEW c \in Seq(Notice)
    PROVE  (a \o b) \o c = a \o (b \o c)
BY ConcatAssociative

LEMMA ConcatEmpty ==
    ASSUME NEW a \in Seq(Notice), NEW b \in Seq(Notice)
    PROVE  a \o b = <<>> <=> a = <<>> /\ b = <<>>
<1>1. Len(a \o b) = Len(a) + Len(b) /\ Len(a) \in Nat /\ Len(b) \in Nat /\ a \o b \in Seq(Notice)
  OBVIOUS
<1>2. ASSUME a \o b = <<>> PROVE a = <<>> /\ b = <<>>
  <2>1. Len(a \o b) = 0
    BY <1>2
  <2>2. Len(a) = 0 /\ Len(b) = 0
    BY <1>1, <2>1
  <2> QED BY <2>2
<1>3. ASSUME a = <<>>, b = <<>> PROVE a \o b = <<>>
  BY <1>3, ConcatEmptySeq
<1> QED BY <1>2, <1>3

\* The first k things the association has to say are told.
HandOn(p, k, b) ==
    [p EXCEPT !.sctpEv = @ \o SubSeq(p.assocEv, 1, k),
              !.assocEv = SubSeq(@, k + 1, Len(@)), !.pending = b]

LEMMA SaidKeeps ==
    ASSUME NEW p \in PeerConnection, Chained(p), NEW k \in 0..Len(p.assocEv), NEW b \in BOOLEAN
    PROVE  LET r == HandOn(p, k, b) IN
           /\ r \in PeerConnection /\ Reading(p, r) /\ Chained(r) /\ r.unread = p.unread
           /\ k = Len(p.assocEv) => r.assocEv = <<>>
<1> DEFINE r == HandOn(p, k, b)
           a == p.sctpEv
           w == p.assocEv
           x == SubSeq(w, 1, k)
           z == SubSeq(w, k + 1, Len(w))
           y == a \o x
<1> SUFFICES /\ r \in PeerConnection /\ Reading(p, r) /\ Chained(r) /\ r.unread = p.unread
             /\ k = Len(p.assocEv) => r.assocEv = <<>>
  OBVIOUS
<1>1. a \in Seq(Notice) /\ w \in Seq(Notice) /\ p.unacked \in Nat /\ p.arrived \in Nat
  BY DEF PeerConnection
<1>2. r = [p EXCEPT !.sctpEv = y, !.assocEv = z, !.pending = b]
  BY DEF HandOn, PeerConnection
<1>3. k \in 0..Len(w) /\ Len(w) \in Nat
  BY <1>1
<1> HIDE DEF a, w, r
<1>4. x \in Seq(Notice) /\ z \in Seq(Notice)
  <2>1. k \in Int /\ k + 1 \in Int /\ Len(w) \in Int /\ 1 <= k + 1 /\ k <= Len(w) /\ Len(w) <= Len(w)
        /\ 1 \in Int /\ 1 <= 1
    BY <1>3
  <2>2. x \in Seq(Notice)
    BY <1>1, <2>1, SubSeqIn
  <2>3. z \in Seq(Notice)
    BY <1>1, <2>1, SubSeqIn
  <2> QED BY <2>2, <2>3
<1>5. x \o z = w
  <2>1. 1 \in 1..(Len(w) + 1) /\ k \in (1 - 1)..Len(w) /\ Len(w) \in k..Len(w)
    BY <1>3
  <2>2. x \o z = SubSeq(w, 1, Len(w))
    BY <1>1, <2>1, ConcatAdjacentSubSeq
  <2>3. SubSeq(w, 1, Len(w)) = w
    BY <1>1, SubSeqFull
  <2> QED BY <2>2, <2>3
<1>6. k = Len(w) => z = <<>>
  <2> SUFFICES ASSUME k = Len(w) PROVE SubSeq(w, k + 1, Len(w)) = <<>>
    OBVIOUS
  <2>1. k + 1 \in Int /\ Len(w) \in Int /\ Len(w) < k + 1
    BY <1>3
  <2> QED BY <2>1, SubSeqEmpty
<1> HIDE DEF x, z
<1>7. y \in Seq(Notice) /\ y \o z = a \o w
  <2>1. y \in Seq(Notice)
    BY <1>1, <1>4, ConcatProperties
  <2>2. (a \o x) \o z = a \o (x \o z)
    BY <1>1, <1>4, ConcatThree
  <2> QED BY <1>5, <2>1, <2>2
<1> HIDE DEF y
<1>8. r \in PeerConnection
  BY <1>2, <1>4, <1>7, Zenon DEF PeerConnection
<1>9. /\ r.sctpEv = y /\ r.assocEv = z /\ r.unread = p.unread /\ r.reads = p.reads
      /\ r.arrived = p.arrived /\ r.ice = p.ice /\ r.dtls = p.dtls /\ r.assoc = p.assoc
      /\ r.channel = p.channel /\ r.outstanding = p.outstanding /\ r.unacked = p.unacked
      /\ r.empties = p.empties
  BY <1>2 DEF PeerConnection
<1>10. /\ r.described = p.described /\ r.iceEv = p.iceEv /\ r.dtlsEv = p.dtlsEv
       /\ r.note = p.note /\ r.onOpen = p.onOpen
  BY <1>2 DEF PeerConnection
<1>11. Notices(r) = Notices(p)
  BY <1>7, <1>9 DEF Notices, a, w
<1>12. \A c : Ledger(c, p) => Ledger(c, r)
  BY <1>9, <1>11 DEF Ledger
<1>13. r.unacked <= p.unacked /\ p.arrived <= r.arrived
  BY <1>1, <1>9
<1>14. DataFrame(p, r)
  BY <1>9, <1>12, <1>13 DEF DataFrame, Follows, Owing
<1>15. Reading(p, r)
  BY <1>9, <1>10, <1>14 DEF Reading
<1>16. a = <<>> /\ w = <<>> => y = <<>> /\ z = <<>>
  BY <1>1, <1>4, <1>7, ConcatEmpty
<1>17. Lost(a) \/ Lost(w) => Lost(y) \/ Lost(z)
  BY <1>1, <1>4, <1>7, LostSplit
<1>18. Chained(r)
  BY <1>9, <1>10, <1>16, <1>17 DEF Chained, Associated, a, w
<1> QED BY <1>6, <1>8, <1>9, <1>15, <1>18 DEF w

LEMMA AssociationKeeps ==
    ASSUME NEW p \in PeerConnection, Chained(p), NEW budget \in Nat,
           p.channel = "connecting" => p.unread = <<>>
    PROVE  LET r == PollAssociation(p, budget) IN
           r \in PeerConnection /\ Linked(r) /\ Reading(p, r)
<1> DEFINE r == PollAssociation(p, budget)
           readable == {i \in DOMAIN p.assocEv : p.assocEv[i].kind = "readable"}
           lost == \E i \in DOMAIN p.assocEv : p.assocEv[i].kind = "lost"
           fails == /\ InFront(p) < budget /\ TooLong(p) # {}
                    /\ readable # {} \/ (p.pending /\ ~lost)
           last == IF fails /\ readable # {} THEN Least(readable) ELSE Len(p.assocEv)
           b == p.pending \/ (readable # {} /\ ~fails)
           q == HandOn(p, last, b)
           n == IF InFront(p) < budget THEN InFront(p) ELSE budget
           taken == Take(q, n)
<1> SUFFICES r \in PeerConnection /\ Linked(r) /\ Reading(p, r)
  OBVIOUS
<1>1. r = IF fails THEN Refuse(q) ELSE IF lost THEN Drop(IF readable = {} THEN q ELSE taken) ELSE q
  BY Zenon DEF PollAssociation, HandOn
<1>2. last \in 0..Len(p.assocEv) /\ (~fails => last = Len(p.assocEv))
  <2> DEFINE w == p.assocEv
  <2>1. w \in Seq(Notice)
    BY DEF PeerConnection
  <2>2. DOMAIN w = 1..Len(w) /\ Len(w) \in Nat
    BY <2>1
  <2>3. readable \subseteq 1..Len(w) /\ readable \subseteq Nat
    BY <2>2
  <2>4. readable # {} => Least(readable) \in 1..Len(w)
    BY <2>3, LeastIn
  <2> HIDE DEF readable, fails
  <2> QED BY <2>2, <2>4
<1>3. b \in BOOLEAN
  OBVIOUS
<1>4. p.channel = "connecting" => ~fails
  BY InFrontRange
<1>5. n \in 0..Len(p.unread)
  BY InFrontRange
<1> HIDE DEF r, readable, lost, fails, last, b, n
<1>6. /\ q \in PeerConnection /\ Reading(p, q) /\ Chained(q) /\ q.unread = p.unread
      /\ last = Len(p.assocEv) => q.assocEv = <<>>
  BY <1>2, <1>3, SaidKeeps
<1> HIDE DEF q
<1>7. Linked(q)
  BY <1>2, <1>4, <1>6 DEF Linked, Idle, Reading
<1>8. ASSUME NEW x \in PeerConnection, Reading(q, x) PROVE Reading(p, x)
  BY <1>6, <1>8, ReadingChain
<1>9. CASE fails
  <2>1. r = Refuse(q)
    BY <1>1, <1>9
  <2>2. /\ r \in PeerConnection /\ Reading(q, r)
        /\ r.sctpEv = q.sctpEv /\ r.assocEv = q.assocEv
    BY <1>6, <2>1, RefuseKeeps
  <2>3. Linked(r)
    BY <1>7, <2>2, ReadingLinked
  <2> QED BY <1>8, <2>2, <2>3
<1>10. ASSUME NEW x \in PeerConnection, Linked(x), Reading(p, x), r = Drop(x)
       PROVE  r \in PeerConnection /\ Linked(r) /\ Reading(p, r)
  <2>1. r \in PeerConnection /\ Reading(x, r)
    BY <1>10, DropKeeps
  <2>2. Linked(r)
    BY <1>10, DropLinked
  <2> QED BY <1>10, <2>1, <2>2, ReadingChain
<1>11. CASE ~fails /\ lost /\ readable = {}
  <2>1. r = Drop(q)
    BY <1>1, <1>11
  <2> QED BY <1>6, <1>7, <1>10, <2>1
<1>12. CASE ~fails /\ lost /\ readable # {}
  <2>1. r = Drop(taken)
    BY <1>1, <1>12
  <2>2. /\ taken \in PeerConnection /\ Reading(q, taken)
        /\ taken.sctpEv = q.sctpEv /\ taken.assocEv = q.assocEv
    BY <1>5, <1>6, TakeKeeps
  <2>3. Linked(taken)
    BY <1>7, <2>2, ReadingLinked
  <2> QED BY <1>8, <1>10, <2>1, <2>2, <2>3
<1>13. CASE ~fails /\ ~lost
  <2>1. r = q
    BY <1>1, <1>13
  <2> QED BY <1>6, <1>7, <2>1
<1> QED BY <1>9, <1>11, <1>12, <1>13

LEMMA Remainder ==
    ASSUME NEW a \in Nat, NEW b \in Nat \ {0}
    PROVE  a % b \in 0..a
OBVIOUS

LEMMA ResumeKeeps ==
    ASSUME NEW p \in PeerConnection, Linked(p), NEW budget \in Nat
    PROVE  LET r == ResumePendingReads(p, budget) IN
           r \in PeerConnection /\ Linked(r) /\ Reading(p, r) /\ r.sctpEv = p.sctpEv
<1> DEFINE r == ResumePendingReads(p, budget)
<1> SUFFICES r \in PeerConnection /\ Linked(r) /\ Reading(p, r) /\ r.sctpEv = p.sctpEv
  OBVIOUS
<1>1. ASSUME NEW x \in PeerConnection, NEW y \in PeerConnection, Reading(p, x), Reading(x, y),
             x.sctpEv = p.sctpEv, x.assocEv = p.assocEv, y.sctpEv = x.sctpEv, y.assocEv = x.assocEv
      PROVE  Linked(y) /\ Reading(p, y) /\ y.sctpEv = p.sctpEv
  BY <1>1, ReadingChain, ReadingLinked
<1>2. CASE ~p.pending \/ budget = 0
  <2>1. r = p
    BY <1>2 DEF ResumePendingReads
  <2>2. Reading(p, p)
    BY SameIsData DEF Reading, SameData
  <2> QED BY <2>1, <2>2
<1>3. CASE ~(~p.pending \/ budget = 0) /\ TooLong(p) = {}
  <2> DEFINE x == Take(p, Len(p.unread))
             no == FALSE
             w == x.unread
  <2>1. /\ x \in PeerConnection /\ Reading(p, x)
        /\ x.sctpEv = p.sctpEv /\ x.assocEv = p.assocEv
    <3>1. Len(p.unread) \in 0..Len(p.unread)
      BY InFrontRange
    <3> QED BY <3>1, TakeKeeps
  <2>2. r = [x EXCEPT !.pending = FALSE]
    BY <1>3 DEF ResumePendingReads
  <2> HIDE DEF x, r
  <2>3. w \in Seq({"message", "long"}) /\ no \in BOOLEAN
    BY <2>1 DEF PeerConnection
  <2>4. r = [x EXCEPT !.unread = w, !.pending = no]
    BY <2>1, <2>2 DEF PeerConnection
  <2>5. x.unread = <<>> => w = <<>>
    OBVIOUS
  <2> HIDE DEF w, no
  <2>6. LET y == [x EXCEPT !.unread = w, !.pending = no] IN
        /\ y \in PeerConnection /\ Reading(x, y)
        /\ y.sctpEv = x.sctpEv /\ y.assocEv = x.assocEv
    BY <2>1, <2>3, <2>5, KeptReading
  <2>7. r \in PeerConnection /\ Reading(x, r) /\ r.sctpEv = x.sctpEv /\ r.assocEv = x.assocEv
    BY <2>4, <2>6, Zenon
  <2> QED BY <1>1, <2>1, <2>7
<1>4. CASE ~(~p.pending \/ budget = 0) /\ TooLong(p) # {}
  <2> DEFINE k == InFront(p) - (InFront(p) % budget)
             x == Take(p, k)
  <2>1. k \in 0..Len(p.unread)
    <3>1. InFront(p) \in Nat /\ InFront(p) \in 0..Len(p.unread) /\ Len(p.unread) \in Nat
      BY InFrontRange
    <3>2. budget \in Nat \ {0}
      BY <1>4
    <3>3. InFront(p) % budget \in 0..InFront(p)
      BY <3>1, <3>2, Remainder
    <3> QED BY <3>1, <3>3
  <2> HIDE DEF k
  <2>2. /\ x \in PeerConnection /\ Reading(p, x)
        /\ x.sctpEv = p.sctpEv /\ x.assocEv = p.assocEv
    BY <2>1, TakeKeeps
  <2>3. r = Refuse(x)
    BY <1>4 DEF ResumePendingReads, k
  <2> HIDE DEF x, r
  <2>4. r \in PeerConnection /\ Reading(x, r) /\ r.sctpEv = x.sctpEv /\ r.assocEv = x.assocEv
    BY <2>2, <2>3, RefuseKeeps
  <2> QED BY <1>1, <2>2, <2>4
<1> QED BY <1>2, <1>3, <1>4

-----------------------------------------------------------------------------
(* The peer connection: notices.                                           *)

NoticeFrame(p, r) ==
    /\ (r.described <=> p.described) /\ r.ice = p.ice /\ (r.iceEv <=> p.iceEv)
    /\ r.dtls = p.dtls /\ (r.dtlsEv <=> p.dtlsEv) /\ r.assoc = p.assoc
    /\ r.state = p.state /\ r.out = p.out
    /\ r.reads = p.reads /\ r.arrived = p.arrived /\ r.unacked = p.unacked
    /\ r.empties = p.empties /\ r.unread = p.unread /\ r.assocEv = p.assocEv
    /\ p.channel = "gone" => r.channel = "gone"
    /\ p.channel # "connecting" => r.channel # "connecting"
    /\ r.note => p.note \/ (p.channel = "connecting" /\ r.channel # "connecting")

LEMMA NoticeStep ==
    ASSUME NEW p \in PeerConnection, NEW n \in Notice
    PROVE  LET r == HandleNotice(p, n) IN
           /\ r \in PeerConnection /\ NoticeFrame(p, r) /\ (n.kind = "lost" => r.channel = "gone")
           /\ r.channel # "gone" => p.outstanding <= r.outstanding + Freed(n)
<1> DEFINE r == HandleNotice(p, n)
<1> SUFFICES /\ r \in PeerConnection /\ NoticeFrame(p, r) /\ (n.kind = "lost" => r.channel = "gone")
             /\ r.channel # "gone" => p.outstanding <= r.outstanding + Freed(n)
  OBVIOUS
<1>0. p.outstanding \in Nat /\ n.bytes \in Nat /\ Freed(n) \in Nat
  BY DEF PeerConnection, Notice, Freed
<1>1. CASE n.kind = "complete" /\ p.channel = "connecting"
  <2>1. r = [p EXCEPT !.channel = "open", !.note = TRUE]
    BY <1>1 DEF HandleNotice
  <2> HIDE DEF r
  <2>2. r \in PeerConnection
    BY <2>1, Zenon DEF PeerConnection
  <2>3. /\ r.ice = p.ice /\ r.dtls = p.dtls /\ r.assoc = p.assoc /\ r.state = p.state
        /\ r.out = p.out /\ r.reads = p.reads /\ r.channel = "open"
        /\ r.arrived = p.arrived /\ r.unacked = p.unacked /\ r.outstanding = p.outstanding
        /\ r.empties = p.empties /\ r.unread = p.unread /\ r.assocEv = p.assocEv
    BY <2>1 DEF PeerConnection
  <2>4. r.described = p.described /\ r.iceEv = p.iceEv /\ r.dtlsEv = p.dtlsEv
    BY <2>1 DEF PeerConnection
  <2>5. p.outstanding <= r.outstanding + Freed(n)
    BY <1>0, <2>3
  <2> QED BY <1>1, <2>2, <2>3, <2>4, <2>5 DEF NoticeFrame
<1>2. CASE n.kind = "lost"
  <2>1. r = [p EXCEPT !.channel = "gone"]
    BY <1>2 DEF HandleNotice
  <2> HIDE DEF r
  <2>2. r \in PeerConnection
    BY <2>1, Zenon DEF PeerConnection
  <2>3. /\ r.ice = p.ice /\ r.dtls = p.dtls /\ r.assoc = p.assoc /\ r.state = p.state
        /\ r.out = p.out /\ r.reads = p.reads /\ r.channel = "gone"
        /\ r.arrived = p.arrived /\ r.unacked = p.unacked
        /\ r.empties = p.empties /\ r.unread = p.unread /\ r.assocEv = p.assocEv
    BY <2>1 DEF PeerConnection
  <2>4. r.described = p.described /\ r.iceEv = p.iceEv /\ r.dtlsEv = p.dtlsEv /\ r.note = p.note
    BY <2>1 DEF PeerConnection
  <2> QED BY <2>2, <2>3, <2>4 DEF NoticeFrame
<1>3. CASE n.kind = "released" /\ p.channel # "gone"
  <2> DEFINE k == IF n.bytes > p.outstanding THEN 0 ELSE p.outstanding - n.bytes
  <2>1. k \in Nat /\ p.outstanding <= k + Freed(n)
    BY <1>0, <1>3 DEF Freed
  <2>2. r = [p EXCEPT !.outstanding = k]
    BY <1>3 DEF HandleNotice
  <2> HIDE DEF r, k
  <2>3. r \in PeerConnection
    BY <2>1, <2>2, Zenon DEF PeerConnection
  <2>4. /\ r.ice = p.ice /\ r.dtls = p.dtls /\ r.assoc = p.assoc /\ r.state = p.state
        /\ r.out = p.out /\ r.reads = p.reads /\ r.channel = p.channel
        /\ r.arrived = p.arrived /\ r.unacked = p.unacked /\ r.outstanding = k
        /\ r.empties = p.empties /\ r.unread = p.unread /\ r.assocEv = p.assocEv
    BY <2>2 DEF PeerConnection
  <2>5. r.described = p.described /\ r.iceEv = p.iceEv /\ r.dtlsEv = p.dtlsEv /\ r.note = p.note
    BY <2>2 DEF PeerConnection
  <2> QED BY <1>3, <2>1, <2>3, <2>4, <2>5 DEF NoticeFrame
<1>4. CASE /\ ~(n.kind = "complete" /\ p.channel = "connecting") /\ n.kind # "lost"
           /\ ~(n.kind = "released" /\ p.channel # "gone")
  <2>1. r = p
    BY <1>4 DEF HandleNotice
  <2>2. p.outstanding <= p.outstanding + Freed(n)
    BY <1>0
  <2> QED BY <1>4, <2>1, <2>2 DEF NoticeFrame
<1> QED BY <1>1, <1>2, <1>3, <1>4

LEMMA NoticesKeep ==
    ASSUME NEW p \in PeerConnection
    PROVE  LET r == HandleNotices(p) IN
           /\ r \in PeerConnection /\ NoticeFrame(p, r)
           /\ Lost(p.sctpEv) => r.channel = "gone"
           /\ p.sctpEv = <<>> => r = p
           /\ \A b : Ledger(b, p) /\ r.channel # "gone"
                    => b[Len(p.sctpEv)] <= r.outstanding + r.empties
<1> DEFINE e == p.sctpEv
           n == Len(p.sctpEv)
           D == {r \in PeerConnection : NoticeFrame(p, r)}
           f == CHOOSE f : f = [i \in 0..n |-> IF i = 0 THEN p ELSE HandleNotice(f[i - 1], p.sctpEv[i])]
           s == [i \in 1..n |-> [r \in D |-> HandleNotice(r, e[i])]]
           lost(i) == \E j \in 1..i : e[j].kind = "lost"
           covered(i, r) == \A b : Ledger(b, p) /\ r.channel # "gone" => b[i] <= r.outstanding + p.empties
           G == [i \in 0..n |-> {r \in D : (lost(i) => r.channel = "gone") /\ covered(i, r)}]
<1>1. n \in Nat /\ DOMAIN e = 1..n /\ \A i \in 1..n : e[i] \in Notice
  BY DEF PeerConnection
<1>0. p.empties \in Nat
  BY DEF PeerConnection
<1>16. ASSUME NEW b, Ledger(b, p)
       PROVE  /\ \A i \in 0..n : b[i] \in Nat
              /\ b[0] <= p.outstanding + p.empties
              /\ \A i \in 1..n : b[i] + Freed(e[i]) <= b[i - 1]
  <2> DEFINE w == p.assocEv
             m == Len(w)
             v == e \o w
  <2>1. e \in Seq(Notice) /\ w \in Seq(Notice)
    BY DEF PeerConnection
  <2>2. /\ b \in [0..Len(v) -> Nat] /\ b[0] <= p.outstanding + p.empties
        /\ \A i \in 1..Len(v) : b[i] + Freed(v[i]) <= b[i - 1]
    BY <1>16, Zenon DEF Ledger, Covers, Notices
  <2>3. n = Len(e)
    OBVIOUS
  <2> HIDE DEF e, w, n
  <2>4. Len(v) = n + m /\ m \in Nat /\ \A i \in 1..n : v[i] = e[i]
    BY <2>1, <2>3
  <2> HIDE DEF v, m
  <2>5. \A i \in 0..n : i \in 0..Len(v)
    BY <1>1, <2>4
  <2>6. \A i \in 1..n : i \in 1..Len(v)
    BY <1>1, <2>4
  <2>7. \A i \in 0..n : b[i] \in Nat
    BY <2>2, <2>5
  <2>8. \A i \in 1..n : b[i] + Freed(e[i]) <= b[i - 1]
    BY <2>2, <2>4, <2>6
  <2> QED BY <2>2, <2>7, <2>8
<1>2. p \in D
  BY DEF NoticeFrame
<1>3. ASSUME NEW r \in D, NEW i \in 1..n
      PROVE  LET q == HandleNotice(r, e[i]) IN
             /\ q \in D
             /\ e[i].kind = "lost" \/ r.channel = "gone" => q.channel = "gone"
             /\ q.channel # "gone" => r.outstanding <= q.outstanding + Freed(e[i])
  <2> DEFINE q == HandleNotice(r, e[i])
  <2>1. /\ q \in PeerConnection /\ NoticeFrame(r, q)
        /\ (e[i].kind = "lost" => q.channel = "gone")
        /\ (q.channel # "gone" => r.outstanding <= q.outstanding + Freed(e[i]))
    BY <1>1, NoticeStep
  <2> HIDE DEF q, e
  <2>2. NoticeFrame(p, q)
    BY <2>1 DEF NoticeFrame
  <2>3. r.channel = "gone" => q.channel = "gone"
    BY <2>1 DEF NoticeFrame
  <2>4. q \in D
    BY <2>1, <2>2
  <2> QED BY <2>1, <2>3, <2>4 DEF q
<1> HIDE DEF D
<1>4. s \in [1..n -> [D -> D]]
  BY <1>3
<1>5. \E g : g = [i \in 0..n |-> IF i = 0 THEN p ELSE HandleNotice(g[i - 1], p.sctpEv[i])]
  <2>0. PICK g \in [0..n -> D] : Loop(g, n, p, s)
    <3> HIDE DEF s, n
    <3> QED BY <1>1, <1>2, <1>4, LoopExists
  <2>1. g = [i \in 0..n |-> IF i = 0 THEN p ELSE s[i][g[i - 1]]]
    <3> HIDE DEF s, n
    <3> QED BY <2>0 DEF Loop
  <2>2. ASSUME NEW i \in 0..n, i # 0 PROVE s[i][g[i - 1]] = HandleNotice(g[i - 1], p.sctpEv[i])
    <3>1. i \in 1..n /\ i - 1 \in 0..n
      BY <1>1, <2>2
    <3>2. g[i - 1] \in D
      BY <2>0, <3>1
    <3> QED BY <3>1, <3>2
  <2> HIDE DEF s
  <2>3. [i \in 0..n |-> IF i = 0 THEN p ELSE s[i][g[i - 1]]]
        = [i \in 0..n |-> IF i = 0 THEN p ELSE HandleNotice(g[i - 1], p.sctpEv[i])]
    BY <2>2
  <2> QED BY <2>1, <2>3
<1>6. f = [i \in 0..n |-> IF i = 0 THEN p ELSE HandleNotice(f[i - 1], p.sctpEv[i])]
  BY <1>5
<1>7. HandleNotices(p) = f[n]
  BY DEF HandleNotices
<1> HIDE DEF f
<1>8. f[0] = p /\ \A i \in 1..n : f[i] = HandleNotice(f[i - 1], e[i])
  <2>1. p.sctpEv = e
    OBVIOUS
  <2> HIDE DEF e, n
  <2> QED BY <1>1, <1>6, <2>1
<1>9. p.sctpEv = <<>> => f[n] = p
  BY <1>8
<1>10. DOMAIN p.sctpEv = 1..n /\ e = p.sctpEv
  BY <1>1
<1> HIDE DEF n, e
<1>11. f[0] \in G[0]
  <2>1. ~lost(0) /\ 0 \in 0..n
    BY <1>1
  <2>2. covered(0, p)
    BY <1>16
  <2> HIDE DEF covered
  <2> QED BY <1>2, <1>8, <2>1, <2>2
<1>12. ASSUME NEW i \in 1..n, f[i - 1] \in G[i - 1] PROVE f[i] \in G[i]
  <2>1. i \in 0..n /\ i - 1 \in 0..n
    BY <1>1
  <2>2. lost(i) => lost(i - 1) \/ e[i].kind = "lost"
    BY <1>1
  <2>3. f[i - 1] \in D /\ (lost(i - 1) => f[i - 1].channel = "gone") /\ covered(i - 1, f[i - 1])
    BY <1>12, <2>1
  <2> HIDE DEF lost
  <2>4. /\ f[i] \in D /\ (e[i].kind = "lost" \/ f[i - 1].channel = "gone" => f[i].channel = "gone")
        /\ f[i].channel # "gone" => f[i - 1].outstanding <= f[i].outstanding + Freed(e[i])
    BY <1>3, <1>8, <2>3
  <2>5. ASSUME NEW b, Ledger(b, p), f[i].channel # "gone"
        PROVE  b[i] <= f[i].outstanding + p.empties
    <3>1. b[i] \in Nat /\ b[i - 1] \in Nat /\ b[i] + Freed(e[i]) <= b[i - 1]
      BY <1>16, <2>1, <2>5
    <3>2. b[i - 1] <= f[i - 1].outstanding + p.empties
      BY <2>3, <2>4, <2>5
    <3>3. f[i - 1].outstanding \in Nat /\ f[i].outstanding \in Nat
      BY <2>3, <2>4 DEF D, PeerConnection
    <3>4. Freed(e[i]) \in Nat
      BY <1>1, FreedIsNat
    <3> QED BY <1>0, <2>4, <2>5, <3>1, <3>2, <3>3, <3>4
  <2> QED BY <2>1, <2>2, <2>3, <2>4, <2>5
<1>13. f[n] \in G[n]
  <2> HIDE DEF G
  <2> QED BY <1>1, <1>11, <1>12, RoundByRound
<1>14. f[n] \in D /\ (lost(n) => f[n].channel = "gone") /\ covered(n, f[n])
  BY <1>1, <1>13
<1>15. f[n].empties = p.empties
  BY <1>14 DEF D, NoticeFrame
<1>17. Lost(p.sctpEv) => f[n].channel = "gone"
  <2>1. Lost(p.sctpEv) => lost(n)
    BY <1>10 DEF Lost
  <2> HIDE DEF lost
  <2> QED BY <1>14, <2>1
<1>18. \A b : Ledger(b, p) /\ f[n].channel # "gone" => b[n] <= f[n].outstanding + f[n].empties
  BY <1>14, <1>15
<1> HIDE DEF lost, covered
<1> QED BY <1>7, <1>9, <1>14, <1>17, <1>18 DEF D, n

-----------------------------------------------------------------------------
(* The peer connection: its calls.                                         *)

\* A datagram leaves the channel to the next pass; with an association it
\* changes nothing below it.
ReadFrame(p, r) ==
    /\ (r.described <=> p.described) /\ r.channel = p.channel
    /\ ~r.note /\ (r.onOpen => p.onOpen \/ p.note)
    /\ Associated(p) => Associated(r) /\ (r.iceEv <=> p.iceEv) /\ (r.dtlsEv <=> p.dtlsEv)
    /\ r.assoc # "none" => p.assoc # "none"
    /\ r.dtls # "new" => p.dtls # "new"
    /\ r.reads # <<>> => p.reads # <<>> \/ p.channel = "open"
    /\ r.sctpEv # <<>> => p.sctpEv # <<>> \/ ((r.iceEv <=> p.iceEv) /\ (r.dtlsEv <=> p.dtlsEv))

\* handle_read, until a parked stream is read on.
Arrived(p, d, budget) ==
    LET q == [p EXCEPT !.onOpen = p.onOpen \/ p.note, !.note = FALSE]
    IN  CASE d.kind = "stun" /\ p.described /\ p.ice = "checking" ->
                [q EXCEPT !.ice = "connected", !.iceEv = TRUE]
          [] d.kind = "dtls" /\ p.dtls = "connecting" ->
                [q EXCEPT !.dtls = "connected", !.dtlsEv = TRUE]
          [] d.kind = "sctp" /\ p.dtls = "connected" ->
                PollAssociation(HandleChunks(q, d.chunks, p.channel = "open"), budget)
          [] OTHER -> q

LEMMA ArrivedKeeps ==
    ASSUME NEW p \in PeerConnection, Linked(p), NEW d \in Datagram, NEW budget \in Nat
    PROVE  LET r == Arrived(p, d, budget) IN
           r \in PeerConnection /\ Linked(r) /\ ReadFrame(p, r) /\ DataFrame(p, r)
<1> DEFINE r == Arrived(p, d, budget)
           b == p.onOpen \/ p.note
           q == [p EXCEPT !.onOpen = p.onOpen \/ p.note, !.note = FALSE]
<1> SUFFICES r \in PeerConnection /\ Linked(r) /\ ReadFrame(p, r) /\ DataFrame(p, r)
  OBVIOUS
<1>1. b \in BOOLEAN /\ q = [p EXCEPT !.onOpen = b, !.note = FALSE]
  OBVIOUS
<1>2. /\ (d.kind = "stun" /\ p.described /\ p.ice = "checking"
            => r = [q EXCEPT !.ice = "connected", !.iceEv = TRUE])
      /\ (d.kind = "dtls" /\ p.dtls = "connecting"
            => r = [q EXCEPT !.dtls = "connected", !.dtlsEv = TRUE])
      /\ (d.kind = "sctp" /\ p.dtls = "connected"
            => r = PollAssociation(HandleChunks(q, d.chunks, p.channel = "open"), budget))
      /\ (~(d.kind = "stun" /\ p.described /\ p.ice = "checking")
            /\ ~(d.kind = "dtls" /\ p.dtls = "connecting")
            /\ ~(d.kind = "sctp" /\ p.dtls = "connected") => r = q)
  <2>1. r = CASE d.kind = "stun" /\ p.described /\ p.ice = "checking" ->
                   [q EXCEPT !.ice = "connected", !.iceEv = TRUE]
              [] d.kind = "dtls" /\ p.dtls = "connecting" ->
                   [q EXCEPT !.dtls = "connected", !.dtlsEv = TRUE]
              [] d.kind = "sctp" /\ p.dtls = "connected" ->
                   PollAssociation(HandleChunks(q, d.chunks, p.channel = "open"), budget)
              [] OTHER -> q
    BY Zenon DEF Arrived
  <2> DEFINE stun == d.kind = "stun" /\ p.described /\ p.ice = "checking"
             dtls == d.kind = "dtls" /\ p.dtls = "connecting"
             sctp == d.kind = "sctp" /\ p.dtls = "connected"
             r1 == [q EXCEPT !.ice = "connected", !.iceEv = TRUE]
             r2 == [q EXCEPT !.dtls = "connected", !.dtlsEv = TRUE]
             r3 == PollAssociation(HandleChunks(q, d.chunks, p.channel = "open"), budget)
  <2>2. r = CASE stun -> r1 [] dtls -> r2 [] sctp -> r3 [] OTHER -> q
    BY <2>1, Zenon
  <2>3. ~(stun /\ dtls) /\ ~(stun /\ sctp) /\ ~(dtls /\ sctp)
    OBVIOUS
  <2> HIDE DEF q, r, stun, dtls, sctp, r1, r2, r3
  <2>4. (stun => r = r1) /\ (dtls => r = r2) /\ (sctp => r = r3) /\ (~stun /\ ~dtls /\ ~sctp => r = q)
    BY <2>2, <2>3
  <2>5. stun => r = [q EXCEPT !.ice = "connected", !.iceEv = TRUE]
    BY <2>4 DEF r1
  <2>6. dtls => r = [q EXCEPT !.dtls = "connected", !.dtlsEv = TRUE]
    BY <2>4 DEF r2
  <2>7. sctp => r = PollAssociation(HandleChunks(q, d.chunks, p.channel = "open"), budget)
    BY <2>4 DEF r3
  <2>8. ~stun /\ ~dtls /\ ~sctp => r = q
    BY <2>4
  <2> QED BY <2>5, <2>6, <2>7, <2>8, Zenon DEF stun, dtls, sctp
<1> HIDE DEF b, q, r
<1>3. q \in PeerConnection
  BY <1>1, Zenon DEF PeerConnection
<1>4. /\ q.ice = p.ice /\ q.dtls = p.dtls /\ q.assoc = p.assoc /\ q.sctpEv = p.sctpEv
      /\ q.channel = p.channel /\ q.reads = p.reads /\ q.assocEv = p.assocEv /\ q.unread = p.unread
  BY <1>1 DEF PeerConnection
<1>5. /\ q.described = p.described /\ q.iceEv = p.iceEv /\ q.dtlsEv = p.dtlsEv
      /\ q.onOpen = b /\ q.note = FALSE
  BY <1>1 DEF PeerConnection
<1>6. Linked(q)
  BY <1>4, <1>5 DEF Linked, Chained, Idle, Associated, b
<1>11. SameData(p, q)
  BY <1>1 DEF SameData, PeerConnection
<1>7. CASE d.kind = "stun" /\ p.described /\ p.ice = "checking"
  <2>1. r = [q EXCEPT !.ice = "connected", !.iceEv = TRUE]
    BY <1>2, <1>7
  <2>2. r \in PeerConnection
    BY <1>3, <2>1, Zenon DEF PeerConnection
  <2>3. /\ r.ice = "connected" /\ r.dtls = q.dtls /\ r.assoc = q.assoc /\ r.sctpEv = q.sctpEv
        /\ r.channel = q.channel /\ r.reads = q.reads /\ r.assocEv = q.assocEv
        /\ r.unread = q.unread
    BY <1>3, <2>1 DEF PeerConnection
  <2>4. /\ r.described = q.described /\ r.dtlsEv = q.dtlsEv
        /\ r.onOpen = q.onOpen /\ r.note = q.note
    BY <1>3, <2>1 DEF PeerConnection
  <2>5. Linked(r)
    BY <1>4, <1>5, <1>6, <1>7, <2>3, <2>4 DEF Linked, Chained, Idle, Associated
  <2>6. ReadFrame(p, r)
    BY <1>4, <1>5, <1>7, <2>3, <2>4 DEF ReadFrame, Linked, Chained, Associated, b
  <2>7. SameData(p, r)
    BY <1>3, <1>11, <2>1 DEF SameData, PeerConnection
  <2> QED BY <2>2, <2>5, <2>6, <2>7, SameIsData
<1>8. CASE d.kind = "dtls" /\ p.dtls = "connecting"
  <2>1. r = [q EXCEPT !.dtls = "connected", !.dtlsEv = TRUE]
    BY <1>2, <1>8
  <2>2. r \in PeerConnection
    BY <1>3, <2>1, Zenon DEF PeerConnection
  <2>3. /\ r.ice = q.ice /\ r.dtls = "connected" /\ r.assoc = q.assoc /\ r.sctpEv = q.sctpEv
        /\ r.channel = q.channel /\ r.reads = q.reads /\ r.assocEv = q.assocEv
        /\ r.unread = q.unread
    BY <1>3, <2>1 DEF PeerConnection
  <2>4. /\ r.described = q.described /\ r.iceEv = q.iceEv
        /\ r.onOpen = q.onOpen /\ r.note = q.note
    BY <1>3, <2>1 DEF PeerConnection
  <2>5. Linked(r)
    BY <1>4, <1>5, <1>6, <1>8, <2>3, <2>4 DEF Linked, Chained, Idle, Associated
  <2>6. ReadFrame(p, r)
    BY <1>4, <1>5, <1>8, <2>3, <2>4 DEF ReadFrame, Linked, Chained, Associated, b
  <2>7. SameData(p, r)
    BY <1>3, <1>11, <2>1 DEF SameData, PeerConnection
  <2> QED BY <2>2, <2>5, <2>6, <2>7, SameIsData
<1>9. CASE d.kind = "sctp" /\ p.dtls = "connected"
  <2> DEFINE open == p.channel = "open"
             c == HandleChunks(q, d.chunks, open)
  <2>1. r = PollAssociation(c, budget)
    BY <1>2, <1>9
  <2>2. d.chunks \in Seq(Chunks) /\ open \in BOOLEAN
    BY DEF Datagram
  <2>3. p.channel = "connecting" => ~open
    OBVIOUS
  <2> HIDE DEF open, r
  <2>4. c \in PeerConnection /\ Chained(c) /\ ChunkFrame(q, c, open) /\ DataFrame(q, c)
    BY <1>3, <1>6, <2>2, ChunksKeep DEF Linked
  <2> HIDE DEF c
  <2>5. c.channel = "connecting" => c.unread = <<>>
    BY <1>4, <1>6, <2>3, <2>4 DEF ChunkFrame, Linked, Idle
  <2>6. r \in PeerConnection /\ Linked(r) /\ Reading(c, r)
    BY <2>1, <2>4, <2>5, AssociationKeeps
  <2>7. ReadFrame(p, r)
    BY <1>4, <1>5, <1>9, <2>4, <2>6 DEF ReadFrame, ChunkFrame, Reading, Associated, b
  <2>8. DataFrame(p, q)
    BY <1>3, <1>11, SameIsData
  <2>9. DataFrame(p, c)
    BY <1>3, <2>4, <2>8, DataChain
  <2>10. DataFrame(p, r)
    BY <2>4, <2>6, <2>9, DataChain DEF Reading
  <2> QED BY <2>6, <2>7, <2>10
<1>10. CASE /\ ~(d.kind = "stun" /\ p.described /\ p.ice = "checking")
            /\ ~(d.kind = "dtls" /\ p.dtls = "connecting")
            /\ ~(d.kind = "sctp" /\ p.dtls = "connected")
  <2>1. r = q
    BY <1>2, <1>10
  <2>2. ReadFrame(p, q)
    BY <1>4, <1>5 DEF ReadFrame, Associated, b
  <2> QED BY <1>3, <1>6, <1>11, <2>1, <2>2, SameIsData
<1> QED BY <1>7, <1>8, <1>9, <1>10

LEMMA ReadKeeps ==
    ASSUME NEW p \in PeerConnection, Linked(p), NEW d \in Datagram
    PROVE  LET r == handle_read(p, d) IN
           r \in PeerConnection /\ Linked(r) /\ ReadFrame(p, r) /\ DataFrame(p, r)
<1> DEFINE budget == IF Len(p.reads) < BacklogLimit THEN BacklogLimit - Len(p.reads) ELSE 0
           c == Arrived(p, d, budget)
           r == handle_read(p, d)
<1> SUFFICES r \in PeerConnection /\ Linked(r) /\ ReadFrame(p, r) /\ DataFrame(p, r)
  OBVIOUS
<1>1. budget \in Nat
  <2>1. Len(p.reads) \in Nat
    BY DEF PeerConnection
  <2>2. BacklogLimit \in Nat
    BY RtcAssumption
  <2> QED BY <2>1, <2>2
<1>2. r = ResumePendingReads(c, budget)
  BY Zenon DEF handle_read, Arrived
<1> HIDE DEF r, budget
<1>3. c \in PeerConnection /\ Linked(c) /\ ReadFrame(p, c) /\ DataFrame(p, c)
  BY <1>1, ArrivedKeeps
<1> HIDE DEF c
<1>4. r \in PeerConnection /\ Linked(r) /\ Reading(c, r) /\ r.sctpEv = c.sctpEv
  BY <1>1, <1>2, <1>3, ResumeKeeps
<1>5. ReadFrame(p, r)
  BY <1>3, <1>4 DEF ReadFrame, Reading, Associated
<1>6. DataFrame(p, r)
  BY <1>3, <1>4, DataChain DEF Reading
<1> QED BY <1>4, <1>5, <1>6

\* A timeout reaches ICE, or removes the association.
TimeoutFrame(p, r) ==
    /\ (r.described <=> p.described) /\ r.dtls = p.dtls /\ (r.dtlsEv <=> p.dtlsEv)
    /\ (r.assoc # "none" => p.assoc # "none") /\ r.sctpEv = p.sctpEv /\ r.channel = p.channel
    /\ (r.note <=> p.note) /\ (r.onOpen <=> p.onOpen) /\ r.reads = p.reads

LEMMA TimeoutKeeps ==
    ASSUME NEW p \in PeerConnection, Linked(p), NEW what,
           p.channel = "connecting" => p.sctpEv = <<>>
    PROVE  LET r == handle_timeout(p, what) IN
           r \in PeerConnection /\ Linked(r) /\ TimeoutFrame(p, r) /\ DataFrame(p, r)
<1> DEFINE r == handle_timeout(p, what)
<1> SUFFICES r \in PeerConnection /\ Linked(r) /\ TimeoutFrame(p, r) /\ DataFrame(p, r)
  OBVIOUS
<1>1. CASE what = "retransmit"
  <2> DEFINE n == p.out + 1
  <2>1. r = [p EXCEPT !.out = n] /\ n \in Nat
    BY <1>1 DEF handle_timeout, PeerConnection
  <2> HIDE DEF r, n
  <2>2. r \in PeerConnection
    BY <2>1, Zenon DEF PeerConnection
  <2>3. /\ r.ice = p.ice /\ r.dtls = p.dtls /\ r.assoc = p.assoc /\ r.sctpEv = p.sctpEv
        /\ r.channel = p.channel /\ r.reads = p.reads /\ r.assocEv = p.assocEv
        /\ r.unread = p.unread
    BY <2>1 DEF PeerConnection
  <2>4. /\ r.described = p.described /\ r.iceEv = p.iceEv /\ r.dtlsEv = p.dtlsEv
        /\ r.note = p.note /\ r.onOpen = p.onOpen
    BY <2>1 DEF PeerConnection
  <2>5. SameData(p, r)
    BY <2>1 DEF SameData, PeerConnection
  <2> QED BY <2>2, <2>3, <2>4, <2>5, SameIsData DEF Linked, Chained, Idle, Associated, TimeoutFrame
<1>2. ASSUME NEW i \in {"disconnected", "failed"}, p.described, r = [p EXCEPT !.ice = i, !.iceEv = TRUE]
      PROVE  r \in PeerConnection /\ Linked(r) /\ TimeoutFrame(p, r) /\ DataFrame(p, r)
  <2> HIDE DEF r
  <2>2. r \in PeerConnection
    BY <1>2, Zenon DEF PeerConnection
  <2>3. /\ r.ice = i /\ r.dtls = p.dtls /\ r.assoc = p.assoc /\ r.sctpEv = p.sctpEv
        /\ r.channel = p.channel /\ r.reads = p.reads /\ r.assocEv = p.assocEv
        /\ r.unread = p.unread
    BY <1>2 DEF PeerConnection
  <2>4. /\ r.described = p.described /\ r.dtlsEv = p.dtlsEv
        /\ r.note = p.note /\ r.onOpen = p.onOpen
    BY <1>2 DEF PeerConnection
  <2>5. Linked(r)
    BY <1>2, <2>3, <2>4 DEF Linked, Chained, Idle, Associated
  <2>6. SameData(p, r)
    BY <1>2 DEF SameData, PeerConnection
  <2> QED BY <2>2, <2>3, <2>4, <2>5, <2>6, SameIsData DEF TimeoutFrame
<1>3. CASE what = "disconnected" /\ p.ice = "connected"
  <2>1. p.described
    BY <1>3 DEF Linked, Chained
  <2> QED BY <1>2, <1>3, <2>1 DEF handle_timeout
<1>4. CASE what = "failed" /\ p.described /\ p.ice # "failed"
  BY <1>2, <1>4 DEF handle_timeout
<1>5. CASE what = "drained" /\ p.assoc # "none"
  <2> DEFINE q == Drop(p)
  <2>1. /\ q \in PeerConnection /\ Reading(p, q)
        /\ q.sctpEv = p.sctpEv /\ q.assocEv = <<>> /\ q.unread = <<>> /\ q.reads = p.reads
    BY DropKeeps
  <2>2. Linked(q)
    BY DropLinked
  <2>3. r = [q EXCEPT !.assoc = "lost"]
    BY <1>5 DEF handle_timeout
  <2> HIDE DEF q, r
  <2>4. r \in PeerConnection
    BY <2>1, <2>3, Zenon DEF PeerConnection
  <2>5. /\ r.ice = q.ice /\ r.dtls = q.dtls /\ r.assoc = "lost" /\ r.sctpEv = q.sctpEv
        /\ r.channel = q.channel /\ r.reads = q.reads /\ r.assocEv = q.assocEv
        /\ r.unread = q.unread
    BY <2>1, <2>3 DEF PeerConnection
  <2>6. /\ r.described = q.described /\ r.iceEv = q.iceEv /\ r.dtlsEv = q.dtlsEv
        /\ r.note = q.note /\ r.onOpen = q.onOpen
    BY <2>1, <2>3 DEF PeerConnection
  <2>7. SameData(q, r)
    BY <2>1, <2>3 DEF SameData, PeerConnection
  <2>8. DataFrame(p, q) /\ DataFrame(q, r)
    BY <2>1, <2>4, <2>7, SameIsData DEF Reading
  <2>9. DataFrame(p, r)
    BY <2>1, <2>4, <2>8, DataChain
  <2>10. p.dtls = "connected" /\ ~p.dtlsEv
    BY <1>5 DEF Linked, Chained
  <2>11. Chained(r)
    BY <2>1, <2>2, <2>5, <2>6, <2>10 DEF Linked, Chained, Associated, Reading
  <2>12. Idle(r)
    BY <2>1, <2>5 DEF Idle
  <2>13. TimeoutFrame(p, r)
    BY <1>5, <2>1, <2>5, <2>6 DEF TimeoutFrame, Reading
  <2> QED BY <2>4, <2>9, <2>11, <2>12, <2>13 DEF Linked
<1>6. CASE /\ what # "retransmit" /\ ~(what = "disconnected" /\ p.ice = "connected")
           /\ ~(what = "failed" /\ p.described /\ p.ice # "failed")
           /\ ~(what = "drained" /\ p.assoc # "none")
  <2>1. r = p
    BY <1>6 DEF handle_timeout
  <2>2. DataFrame(p, p)
    BY SameIsData DEF SameData
  <2> QED BY <2>1, <2>2 DEF TimeoutFrame
<1> QED BY <1>1, <1>3, <1>4, <1>5, <1>6

\* A pass hands the notices to the channel and starts the next transport.
PassFrame(p, q) ==
    /\ q.sctpEv = <<>> /\ ~q.onOpen /\ ~q.iceEv /\ ~q.dtlsEv
    /\ (q.described <=> p.described) /\ q.ice = p.ice /\ q.reads = p.reads
    /\ q.dtls # "new" => p.dtls # "new" \/ q.ice = "connected"
    /\ q.assoc # "none" => p.assoc # "none" \/ p.dtls = "connected"
    /\ Associated(p) => Associated(q)
    /\ q.channel = "open" => q.assoc = "connected" \/ p.channel = "open"
    /\ p.channel # "connecting" => q.channel # "connecting"
    /\ q.note => p.note \/ (p.channel = "connecting" /\ q.channel # "connecting")
    /\ p.sctpEv = <<>> => q.channel = p.channel /\ (q.note <=> p.note)
    /\ ~p.iceEv /\ ~p.dtlsEv => q.state = p.state
    /\ q.arrived = p.arrived /\ q.unacked = p.unacked /\ q.empties = p.empties
    /\ Owing(p) => Owing(q)

LEMMA PassKeeps ==
    ASSUME NEW p \in PeerConnection, Linked(p)
    PROVE  LET q == Pass(p) IN q \in PeerConnection /\ Linked(q) /\ PassFrame(p, q)
<1> DEFINE n == HandleNotices(p)
           q == Pass(p)
           dt == IF p.iceEv /\ p.ice = "connected" /\ n.dtls = "new" THEN "connecting" ELSE n.dtls
           as == IF p.dtlsEv THEN "connecting" ELSE n.assoc
           st == IF p.iceEv \/ p.dtlsEv THEN ConnectionState(p) ELSE n.state
           k == n.out + (IF p.dtlsEv \/ (p.iceEv /\ p.ice = "connected") THEN 1 ELSE 0)
<1> SUFFICES q \in PeerConnection /\ Linked(q) /\ PassFrame(p, q)
  OBVIOUS
<1>1. /\ n \in PeerConnection /\ NoticeFrame(p, n)
      /\ Lost(p.sctpEv) => n.channel = "gone"
      /\ p.sctpEv = <<>> => n = p
      /\ \A b : Ledger(b, p) /\ n.channel # "gone" => b[Len(p.sctpEv)] <= n.outstanding + n.empties
  BY NoticesKeep
<1>2. q = [n EXCEPT !.sctpEv = <<>>, !.onOpen = FALSE, !.iceEv = FALSE, !.dtlsEv = FALSE,
                    !.dtls = dt, !.assoc = as, !.state = st, !.out = k]
  BY DEF Pass
<1> HIDE DEF n, q
<1>3. /\ dt \in {"new", "connecting", "connected"}
      /\ as \in {"none", "connecting", "connected", "lost"} /\ k \in Nat
      /\ st \in ConnectionStates
      /\ <<>> \in Seq(Notice)
  BY <1>1, SMTT(30) DEF ConnectionState, ConnectionStates, PeerConnection
<1>4. /\ (~p.iceEv /\ ~p.dtlsEv => st = n.state)
      /\ dt = n.dtls \/ (dt = "connecting" /\ p.ice = "connected" /\ n.dtls = "new")
      /\ (as = n.assoc /\ ~p.dtlsEv) \/ (as = "connecting" /\ p.dtlsEv)
  OBVIOUS
<1> HIDE DEF dt, as, st, k
<1>5. q \in PeerConnection
  <2> DEFINE e == <<>>
             j == [n EXCEPT !.sctpEv = e]
             l == [j EXCEPT !.state = st, !.out = k]
             m == [l EXCEPT !.dtls = dt, !.assoc = as]
  <2>0. e \in Seq(Notice)
    BY <1>3
  <2>1. m \in PeerConnection
    <3> HIDE DEF e
    <3>1. k \in Nat /\ st \in ConnectionStates
      BY <1>3
    <3>2. l \in PeerConnection
      <4>1. n \in PeerConnection
        BY <1>1
      <4>2. j \in PeerConnection
        BY <2>0, <4>1, Zenon DEF PeerConnection
      <4> HIDE DEF j
      <4> QED BY <3>1, <4>2, Zenon DEF PeerConnection
    <3> HIDE DEF l
    <3>3. /\ dt \in {"new", "connecting", "connected"}
          /\ as \in {"none", "connecting", "connected", "lost"}
      BY <1>3
    <3> QED BY <3>2, <3>3, Zenon DEF PeerConnection
  <2>2. q = [m EXCEPT !.onOpen = FALSE, !.iceEv = FALSE, !.dtlsEv = FALSE]
    BY <1>1, <1>2 DEF PeerConnection
  <2> HIDE DEF m, l, j
  <2> QED BY <2>1, <2>2, Zenon DEF PeerConnection
<1>6. /\ q.sctpEv = <<>> /\ q.dtls = dt /\ q.assoc = as /\ q.state = st
      /\ q.ice = n.ice /\ q.channel = n.channel /\ q.reads = n.reads
      /\ q.arrived = n.arrived /\ q.unacked = n.unacked /\ q.outstanding = n.outstanding
      /\ q.empties = n.empties /\ q.unread = n.unread /\ q.assocEv = n.assocEv
  BY <1>1, <1>2 DEF PeerConnection
<1>7. q.onOpen = FALSE /\ q.iceEv = FALSE /\ q.dtlsEv = FALSE
  BY <1>1, <1>2, Zenon DEF PeerConnection
<1>8. q.described = n.described /\ q.note = n.note
  BY <1>1, <1>2 DEF PeerConnection
<1>9. /\ n.ice = p.ice /\ n.dtls = p.dtls /\ n.assoc = p.assoc /\ n.reads = p.reads /\ n.state = p.state
      /\ (n.described <=> p.described) /\ n.unread = p.unread /\ n.assocEv = p.assocEv
      /\ n.empties = p.empties /\ n.unacked = p.unacked /\ n.arrived = p.arrived
  BY <1>1 DEF NoticeFrame
<1>10. Linked(q)
  <2>1. /\ q.dtls # "new" => q.ice # "checking"
        /\ q.assoc # "none" => q.dtls = "connected"
    BY <1>4, <1>6, <1>9 DEF Linked, Chained
  <2>2. ~Associated(q) => q.channel = "connecting" /\ q.reads = <<>> /\ q.assocEv = <<>>
    <3>1. CASE Associated(p)
      BY <1>4, <1>6, <1>9, <3>1 DEF Linked, Chained, Associated
    <3>2. CASE ~Associated(p)
      <4>1. p.sctpEv = <<>> /\ p.channel = "connecting" /\ p.reads = <<>> /\ p.assocEv = <<>>
        BY <3>2 DEF Linked, Chained
      <4> QED BY <1>1, <1>6, <4>1
    <3> QED BY <3>1, <3>2
  <2>3. q.note => q.channel # "connecting"
    BY <1>1, <1>6, <1>8 DEF Linked, Chained, NoticeFrame
  <2>4. Idle(q)
    BY <1>1, <1>6, <1>9 DEF Linked, Idle, NoticeFrame
  <2>5. ~q.described => q.ice = "checking"
    BY <1>6, <1>8, <1>9 DEF Linked, Chained
  <2>6. q.channel = "connecting" => q.assocEv = <<>>
    BY <2>4 DEF Idle
  <2>7. Chained(q)
    BY <1>6, <1>7, <2>1, <2>2, <2>3, <2>5, <2>6 DEF Chained
  <2> QED BY <2>4, <2>7 DEF Linked
<1>11. ASSUME q.channel = "open", p.channel # "open" PROVE q.assoc = "connected"
  <2>1. p.channel = "connecting"
    BY <1>1, <1>6, <1>11 DEF NoticeFrame, PeerConnection
  <2>2. p.sctpEv # <<>> /\ ~Lost(p.sctpEv)
    BY <1>1, <1>6, <1>11, <2>1
  <2>3. p.assocEv = <<>>
    BY <2>1 DEF Linked, Idle
  <2>4. ~Lost(p.assocEv)
    BY <2>3 DEF Lost
  <2>5. p.assoc = "connected"
    BY <2>1, <2>2, <2>4 DEF Linked, Chained, Associated
  <2>6. ~p.dtlsEv
    BY <2>5 DEF Linked, Chained
  <2> QED BY <1>4, <1>6, <1>9, <2>5, <2>6
<1>20. p.channel # "connecting" => q.channel # "connecting"
  BY <1>1, <1>6 DEF NoticeFrame
<1>12. Associated(p) => Associated(q)
  BY <1>4, <1>6, <1>9 DEF Linked, Chained, Associated
<1>13. q.dtls # "new" => p.dtls # "new" \/ q.ice = "connected"
  BY <1>4, <1>6, <1>9
<1>14. q.assoc # "none" => p.assoc # "none" \/ p.dtls = "connected"
  BY <1>4, <1>6, <1>9 DEF Linked, Chained
<1>15. q.note => p.note \/ (p.channel = "connecting" /\ q.channel # "connecting")
  BY <1>1, <1>6, <1>8 DEF NoticeFrame
<1>16. p.sctpEv = <<>> => q.channel = p.channel /\ (q.note <=> p.note)
  BY <1>1, <1>6, <1>8
<1>17. ~p.iceEv /\ ~p.dtlsEv => q.state = p.state
  BY <1>4, <1>6, <1>9
<1>18. q.arrived = p.arrived /\ q.unacked = p.unacked /\ q.empties = p.empties
  BY <1>6, <1>9
<1>19. ASSUME Owing(p) PROVE Owing(q)
  <2> SUFFICES ASSUME q.channel # "gone" PROVE \E b : Ledger(b, q)
    BY DEF Owing
  <2>1. p.channel # "gone"
    BY <1>1, <1>6, <1>19 DEF NoticeFrame
  <2>2. PICK b : Ledger(b, p)
    BY <1>19, <2>1 DEF Owing
  <2> DEFINE a == p.sctpEv
             w == p.assocEv
             o == q.outstanding + q.empties
             u == p.unacked
  <2>3. a \in Seq(Notice) /\ w \in Seq(Notice)
    BY DEF PeerConnection
  <2>4. o \in Nat
    <3>1. q.outstanding \in Nat /\ q.empties \in Nat
      BY <1>5 DEF PeerConnection
    <3> QED BY <3>1
  <2>5. Covers(b, a \o w, p.outstanding + p.empties, u)
    BY <2>2 DEF Ledger, Notices
  <2>6. b[Len(a)] <= o
    BY <1>1, <1>6, <2>2
  <2>7. Notices(q) = <<>> \o w
    BY <1>6, <1>9 DEF Notices
  <2>8. q.unacked = u
    BY <1>18
  <2> HIDE DEF a, w, u
  <2>9. PICK c : Covers(c, w, o, u)
    <3> HIDE DEF o
    <3> QED BY <2>3, <2>4, <2>5, <2>6, CoversSpent
  <2>10. Notices(q) = w
    BY <2>3, <2>7, ConcatEmptySeq
  <2>11. Ledger(c, q)
    BY <2>8, <2>9, <2>10 DEF Ledger
  <2> QED BY <2>11
<1> QED BY <1>5, <1>6, <1>7, <1>8, <1>9, <1>10, <1>11, <1>12, <1>13, <1>14, <1>15, <1>16, <1>17,
           <1>18, <1>19, <1>20 DEF PassFrame

LEMMA FlowPassed ==
    ASSUME NEW ev, NEW p, NEW q, NEW finished, NEW h, Flow(ev, p, finished, h), PassFrame(p, q)
    PROVE  Flow(ev, q, finished, h)
<1>1. q.reads = p.reads /\ q.arrived = p.arrived /\ Owing(q)
  BY DEF PassFrame, Flow
<1>2. \A n : Follows(p, n) => Follows(q, n)
  BY <1>1 DEF Follows
<1> QED BY <1>1, <1>2 DEF Flow

-----------------------------------------------------------------------------
(* The queue of events.                                                    *)

LEMMA ConcatFacts ==
    ASSUME NEW S, NEW a \in Seq(S), NEW b \in Seq(S)
    PROVE  /\ a \o b \in Seq(S)
           /\ \A i \in DOMAIN a : i \in DOMAIN (a \o b) /\ (a \o b)[i] = a[i]
           /\ \A i \in DOMAIN (a \o b) :
                 i \notin DOMAIN a => \E j \in DOMAIN b : i = Len(a) + j /\ (a \o b)[i] = b[j]
           /\ \A i \in DOMAIN (a \o b) : i \notin DOMAIN a => \A j \in DOMAIN a : j < i
<1> DEFINE c == a \o b
           m == Len(a)
           n == Len(b)
<1>1. c \in Seq(S) /\ m \in Nat /\ n \in Nat /\ DOMAIN a = 1..m /\ DOMAIN b = 1..n
  OBVIOUS
<1>2. Len(c) = m + n
  OBVIOUS
<1>3. \A i \in 1..(m + n) : c[i] = IF i <= m THEN a[i] ELSE b[i - m]
  OBVIOUS
<1>4. DOMAIN c = 1..(m + n)
  <2> HIDE DEF c, m, n
  <2> QED BY <1>1, <1>2
<1> HIDE DEF c, m, n
<1>5. \A i \in DOMAIN a : i \in DOMAIN c /\ c[i] = a[i]
  <2> TAKE i \in DOMAIN a
  <2>1. i \in 1..(m + n) /\ i <= m
    BY <1>1
  <2> QED BY <1>3, <1>4, <2>1
<1>6. ASSUME NEW i \in DOMAIN c, i \notin DOMAIN a
      PROVE  (\E j \in DOMAIN b : i = m + j /\ c[i] = b[j]) /\ \A j \in DOMAIN a : j < i
  <2>1. i \in 1..(m + n) /\ ~(i <= m) /\ i - m \in 1..n /\ i = m + (i - m)
    BY <1>1, <1>4, <1>6
  <2>2. c[i] = b[i - m]
    BY <1>3, <2>1
  <2>3. \A j \in DOMAIN a : j < i
    BY <1>1, <2>1
  <2> QED BY <1>1, <2>1, <2>2, <2>3
<1> QED BY <1>1, <1>5, <1>6 DEF c, m

LEMMA AppendFacts ==
    ASSUME NEW S, NEW a \in Seq(S), NEW e \in S
    PROVE  /\ Append(a, e) \in Seq(S)
           /\ \A i \in DOMAIN a : i \in DOMAIN Append(a, e) /\ Append(a, e)[i] = a[i] /\ i < Len(a) + 1
           /\ \A i \in DOMAIN Append(a, e) : i \in DOMAIN a \/ i = Len(a) + 1
           /\ Len(a) + 1 \in DOMAIN Append(a, e) /\ Append(a, e)[Len(a) + 1] = e
           /\ ~(Len(a) + 1 < Len(a) + 1)
<1> DEFINE c == Append(a, e)
           m == Len(a)
<1>1. c \in Seq(S) /\ m \in Nat /\ DOMAIN a = 1..m /\ Len(c) = m + 1 /\ c[m + 1] = e
  OBVIOUS
<1>2. \A i \in 1..m : c[i] = a[i]
  OBVIOUS
<1>3. DOMAIN c = 1..(m + 1)
  <2> HIDE DEF c, m
  <2> QED BY <1>1
<1> HIDE DEF c, m
<1>4. /\ \A i \in 1..m : i \in 1..(m + 1) /\ i < m + 1
      /\ \A i \in 1..(m + 1) : i \in 1..m \/ i = m + 1
      /\ m + 1 \in 1..(m + 1) /\ ~(m + 1 < m + 1)
  BY <1>1
<1> QED BY <1>1, <1>2, <1>3, <1>4 DEF c, m

\* Datagrams always follow, messages while the tunnel is open.
LEMMA LawfulConcat ==
    ASSUME NEW ev \in Seq(Event), NEW g \in Seq(Event), NEW opened, NEW finished, NEW h \in Polled,
           Lawful(ev, opened, finished, h),
           \A i \in DOMAIN g : \/ g[i].kind = "SendDatagram"
                               \/ g[i].kind = "Message" /\ opened /\ ~finished
    PROVE  /\ ev \o g \in Seq(Event)
           /\ Lawful(ev \o g, opened, finished, h)
           /\ TimedOut(ev \o g, h) => TimedOut(ev, h)
<1> DEFINE es == ev \o g
<1>1. /\ es \in Seq(Event)
      /\ \A i \in DOMAIN ev : i \in DOMAIN es /\ es[i] = ev[i]
      /\ \A i \in DOMAIN es : i \notin DOMAIN ev => \E j \in DOMAIN g : es[i] = g[j]
      /\ \A i \in DOMAIN es : i \notin DOMAIN ev => \A j \in DOMAIN ev : j < i
  BY ConcatFacts
<1> HIDE DEF es
<1>2. DOMAIN ev \subseteq Nat /\ DOMAIN es \subseteq Nat
  BY <1>1
<1>3. \A i \in DOMAIN es : i \notin DOMAIN ev =>
            \/ es[i].kind = "SendDatagram"
            \/ es[i].kind = "Message" /\ opened /\ ~finished
  BY <1>1
<1>4. \A j \in DOMAIN es : es[j].kind = "Opened" =>
            h.opens = 0 /\ h.closes = 0 /\ \A i \in DOMAIN es : i < j => es[i].kind = "SendDatagram"
  <2> SUFFICES ASSUME NEW j \in DOMAIN es, es[j].kind = "Opened"
               PROVE  h.opens = 0 /\ h.closes = 0 /\ \A i \in DOMAIN es : i < j => es[i].kind = "SendDatagram"
    OBVIOUS
  <2>1. j \in DOMAIN ev /\ ev[j].kind = "Opened"
    BY <1>1, <1>3
  <2>2. \A i \in DOMAIN es : i < j => i \in DOMAIN ev
    BY <1>1, <1>2, <2>1
  <2> QED BY <1>1, <2>1, <2>2 DEF Lawful
<1>5. \A i \in DOMAIN es : es[i].kind = "Closed" =>
            /\ h.closes = 0 /\ es[i].reason \in CloseReasons
            /\ \A j \in DOMAIN es : i < j => es[j].kind = "SendDatagram"
  <2> SUFFICES ASSUME NEW i \in DOMAIN es, es[i].kind = "Closed"
               PROVE  /\ h.closes = 0 /\ es[i].reason \in CloseReasons
                      /\ \A j \in DOMAIN es : i < j => es[j].kind = "SendDatagram"
    OBVIOUS
  <2>1. i \in DOMAIN ev /\ ev[i].kind = "Closed" /\ es[i] = ev[i]
    BY <1>1, <1>3
  <2>2. finished
    BY <2>1 DEF Lawful
  <2> QED BY <1>1, <1>3, <2>1, <2>2 DEF Lawful
<1>6. \A i \in DOMAIN es : es[i].kind = "Message" => opened /\ h.closes = 0
  <2> SUFFICES ASSUME NEW i \in DOMAIN es, es[i].kind = "Message" PROVE opened /\ h.closes = 0
    OBVIOUS
  <2>1. CASE i \in DOMAIN ev
    BY <1>1, <2>1 DEF Lawful
  <2>2. CASE i \notin DOMAIN ev
    BY <1>3, <2>2 DEF Lawful, Polled
  <2> QED BY <2>1, <2>2
<1>7. /\ (\E i \in DOMAIN es : es[i].kind = "Opened") <=> (\E i \in DOMAIN ev : ev[i].kind = "Opened")
      /\ (\E i \in DOMAIN es : es[i].kind = "Closed") <=> (\E i \in DOMAIN ev : ev[i].kind = "Closed")
  BY <1>1, <1>3
<1>8. Lawful(es, opened, finished, h)
  BY <1>4, <1>5, <1>6, <1>7 DEF Lawful
<1>9. TimedOut(es, h) => TimedOut(ev, h)
  BY <1>1, <1>3 DEF TimedOut
<1> QED BY <1>1, <1>8, <1>9 DEF es

LEMMA LawfulOpened ==
    ASSUME NEW ev \in Seq(Event), NEW e \in Event, e.kind = "Opened", NEW h \in Polled,
           Lawful(ev, FALSE, FALSE, h)
    PROVE  /\ Append(ev, e) \in Seq(Event)
           /\ Lawful(Append(ev, e), TRUE, FALSE, h)
           /\ TimedOut(Append(ev, e), h) => TimedOut(ev, h)
<1> DEFINE es == Append(ev, e)
           m == Len(ev) + 1
<1>1. /\ es \in Seq(Event)
      /\ \A i \in DOMAIN ev : i \in DOMAIN es /\ es[i] = ev[i] /\ i < m
      /\ \A i \in DOMAIN es : i \in DOMAIN ev \/ i = m
      /\ m \in DOMAIN es /\ es[m] = e /\ ~(m < m)
  BY AppendFacts
<1>2. \A i \in DOMAIN ev : ev[i].kind = "SendDatagram"
  <2>0. \A i \in DOMAIN ev : ev[i] \in Event
    OBVIOUS
  <2>1. \A i \in DOMAIN ev : ev[i].kind \in {"SendDatagram", "Opened", "Message", "Closed"}
    BY <2>0 DEF Event
  <2> QED BY <2>1 DEF Lawful
<1>3. h.opens = 0 /\ h.closes = 0
  BY DEF Lawful, Polled
<1> HIDE DEF es, m
<1>4. Lawful(es, TRUE, FALSE, h)
  BY <1>1, <1>2, <1>3 DEF Lawful
<1>5. TimedOut(es, h) => TimedOut(ev, h)
  BY <1>1, <1>2 DEF TimedOut
<1> QED BY <1>1, <1>4, <1>5 DEF es

LEMMA LawfulClosed ==
    ASSUME NEW ev \in Seq(Event), NEW e \in Event, e.kind = "Closed", e.reason \in CloseReasons,
           NEW opened, NEW h \in Polled, Lawful(ev, opened, FALSE, h)
    PROVE  /\ Append(ev, e) \in Seq(Event)
           /\ Lawful(Append(ev, e), opened, TRUE, h)
           /\ TimedOut(Append(ev, e), h) => TimedOut(ev, h) \/ e.reason = "Timeout"
<1> DEFINE es == Append(ev, e)
           m == Len(ev) + 1
<1>1. /\ es \in Seq(Event)
      /\ \A i \in DOMAIN ev : i \in DOMAIN es /\ es[i] = ev[i] /\ i < m
      /\ \A i \in DOMAIN es : i \in DOMAIN ev \/ i = m
      /\ m \in DOMAIN es /\ es[m] = e /\ ~(m < m)
  BY AppendFacts
<1>2. \A i \in DOMAIN ev : ev[i].kind # "Closed"
  BY DEF Lawful
<1>3. h.closes = 0
  BY DEF Lawful, Polled
<1>0. m \in Nat /\ DOMAIN ev \subseteq Nat
  OBVIOUS
<1> HIDE DEF es, m
<1>4. \A j \in DOMAIN es : es[j].kind = "Opened" =>
            h.opens = 0 /\ h.closes = 0 /\ \A i \in DOMAIN es : i < j => es[i].kind = "SendDatagram"
  <2> SUFFICES ASSUME NEW j \in DOMAIN es, es[j].kind = "Opened"
               PROVE  h.opens = 0 /\ h.closes = 0 /\ \A i \in DOMAIN es : i < j => es[i].kind = "SendDatagram"
    OBVIOUS
  <2>1. j \in DOMAIN ev /\ ev[j].kind = "Opened"
    BY <1>1
  <2>2. ~(m < j)
    BY <1>0, <1>1, <2>1
  <2>3. \A i \in DOMAIN es : i < j => i \in DOMAIN ev
    BY <1>1, <2>2
  <2> QED BY <1>1, <2>1, <2>3 DEF Lawful
<1>5. \A i \in DOMAIN es : es[i].kind = "Closed" =>
            /\ h.closes = 0 /\ es[i].reason \in CloseReasons
            /\ \A j \in DOMAIN es : i < j => es[j].kind = "SendDatagram"
  <2> SUFFICES ASSUME NEW i \in DOMAIN es, es[i].kind = "Closed"
               PROVE  /\ h.closes = 0 /\ es[i].reason \in CloseReasons
                      /\ \A j \in DOMAIN es : i < j => es[j].kind = "SendDatagram"
    OBVIOUS
  <2>1. i = m
    BY <1>1, <1>2
  <2>2. \A j \in DOMAIN ev : ~(m < j)
    BY <1>0, <1>1
  <2> QED BY <1>1, <1>3, <2>1, <2>2
<1>6. \A i \in DOMAIN es : es[i].kind = "Message" => opened /\ h.closes = 0
  BY <1>1 DEF Lawful
<1>7. (\E i \in DOMAIN es : es[i].kind = "Opened") <=> (\E i \in DOMAIN ev : ev[i].kind = "Opened")
  BY <1>1
<1>8. \E i \in DOMAIN es : es[i].kind = "Closed"
  BY <1>1
<1>9. Lawful(es, opened, TRUE, h)
  BY <1>4, <1>5, <1>6, <1>7, <1>8 DEF Lawful
<1>10. TimedOut(es, h) => TimedOut(ev, h) \/ e.reason = "Timeout"
  BY <1>1 DEF TimedOut
<1> QED BY <1>1, <1>9, <1>10 DEF es

-----------------------------------------------------------------------------
(* The tunnel's private methods.                                           *)

\* Calls that leave the status, the clock, the deadline, the cap and the trace
\* alone.
Frame(x, y) ==
    /\ y.send_buffer_cap = x.send_buffer_cap
    /\ y.status = x.status /\ y.last_now = x.last_now /\ y.handshake_deadline = x.handshake_deadline
    /\ y.ice_ms = x.ice_ms /\ y.dtls_ms = x.dtls_ms
    /\ y.sctp_ms = x.sctp_ms /\ y.opened_ms = x.opened_ms

LEMMA EvFacts ==
    /\ \A kind \in {"SendDatagram", "Opened", "Message", "Closed"} :
            Ev(kind) \in Event /\ Ev(kind).kind = kind
    /\ \A why \in CloseReasons : LET e == [Ev("Closed") EXCEPT !.reason = why] IN
            e \in Event /\ e.kind = "Closed" /\ e.reason = why
    /\ \A n \in Nat : LET e == [Ev("Message") EXCEPT !.id = n] IN 
            e \in Event /\ e.kind = "Message" /\ e.id = n
BY DEF Ev, Event, CloseReasons

LEMMA FinishKeeps ==
    ASSUME NEW x \in Tunnel, NEW h \in Polled, Told(x, h), NEW why \in CloseReasons,
           why = "Timeout" => ~x.opened /\ x.last_now >= x.handshake_deadline
    PROVE  LET y == finish(x, why) IN
           /\ y \in Tunnel /\ Told(y, h) /\ Frame(x, y) /\ y.pc = x.pc
           /\ (y.opened <=> x.opened) /\ y.finished
<1> DEFINE y == finish(x, why)
           e == [Ev("Closed") EXCEPT !.reason = why]
           v == x.events
           es == Append(v, e)
<1> SUFFICES /\ y \in Tunnel /\ Told(y, h) /\ Frame(x, y) /\ y.pc = x.pc
             /\ (y.opened <=> x.opened) /\ y.finished
  OBVIOUS
<1>1. CASE x.finished
  <2>1. y = x
    BY <1>1 DEF finish
  <2> QED BY <1>1, <2>1 DEF Frame
<1>2. CASE ~x.finished
  <2>1. y = [x EXCEPT !.finished = TRUE, !.events = es]
    BY <1>2 DEF finish, Push, Tunnel
  <2>2. e \in Event /\ e.kind = "Closed" /\ e.reason = why
    BY EvFacts
  <2>3. v \in Seq(Event) /\ Lawful(v, x.opened, FALSE, h)
    BY <1>2 DEF Tunnel, Told, Lawful
  <2> HIDE DEF e, v, y
  <2>4. /\ es \in Seq(Event) /\ Lawful(es, x.opened, TRUE, h)
        /\ TimedOut(es, h) => TimedOut(v, h) \/ e.reason = "Timeout"
    BY <2>2, <2>3, LawfulClosed
  <2> HIDE DEF es
  <2>5. y \in Tunnel
    BY <2>1, <2>4, Zenon DEF Tunnel
  <2>6. Frame(x, y) /\ y.pc = x.pc /\ y.events = es
    BY <2>1 DEF Tunnel, Frame
  <2>7. y.opened = x.opened
    BY <2>1 DEF Tunnel
  <2>8. y.finished = TRUE
    BY <2>1, Zenon DEF Tunnel
  <2>9. ~TimedOut(v, h)
    BY <1>2 DEF Told, Honest, v
  <2>10. Honest(y, h)
    BY <2>2, <2>4, <2>6, <2>7, <2>8, <2>9 DEF Honest, Frame
  <2>11. Lawful(y.events, y.opened, y.finished, h)
    BY <2>4, <2>6, <2>7, <2>8
  <2>12. Flow(y.events, y.pc, y.finished, h)
    <3>1. Flow(v, x.pc, x.finished, h)
      BY DEF Told, v
    <3>2. ~IsMessage(e) /\ SameData(x.pc, x.pc)
      BY <2>2 DEF IsMessage, SameData
    <3>3. Flow(es, x.pc, TRUE, h)
      BY <1>2, <2>2, <3>1, <3>2, FlowKept DEF es
    <3> QED BY <2>6, <2>8, <3>3
  <2> QED BY <2>5, <2>6, <2>7, <2>8, <2>10, <2>11, <2>12 DEF Told
<1> QED BY <1>1, <1>2

LEMMA OpenKeeps ==
    ASSUME NEW x \in Tunnel, NEW h \in Polled, Told(x, h),
           x.pc.channel = "open" => x.opened \/ ~x.finished
    PROVE  LET y == maybe_open(x) IN
           /\ y \in Tunnel /\ Told(y, h) /\ Frame(x, y) /\ y.pc = x.pc
           /\ (y.opened <=> x.opened \/ x.pc.channel = "open") /\ (y.finished <=> x.finished)
<1> DEFINE y == maybe_open(x)
           e == Ev("Opened")
           v == x.events
           es == Append(v, e)
<1> SUFFICES /\ y \in Tunnel /\ Told(y, h) /\ Frame(x, y) /\ y.pc = x.pc
             /\ (y.opened <=> x.opened \/ x.pc.channel = "open") /\ (y.finished <=> x.finished)
  OBVIOUS
<1>1. CASE x.opened \/ x.pc.channel # "open"
  <2>1. y = x
    BY <1>1 DEF maybe_open
  <2> QED BY <1>1, <2>1 DEF Frame
<1>2. CASE ~x.opened /\ x.pc.channel = "open"
  <2>1. y = [x EXCEPT !.opened = TRUE, !.events = es]
    BY <1>2 DEF maybe_open, Push, Tunnel
  <2>2. e \in Event /\ e.kind = "Opened"
    BY EvFacts
  <2>3. v \in Seq(Event) /\ Lawful(v, FALSE, FALSE, h)
    BY <1>2 DEF Tunnel, Told, Lawful
  <2> HIDE DEF e, v, y
  <2>4. /\ es \in Seq(Event) /\ Lawful(es, TRUE, FALSE, h)
        /\ TimedOut(es, h) => TimedOut(v, h)
    BY <2>2, <2>3, LawfulOpened
  <2> HIDE DEF es
  <2>5. y \in Tunnel
    BY <2>1, <2>4, Zenon DEF Tunnel
  <2>6. Frame(x, y) /\ y.pc = x.pc /\ y.events = es
    BY <2>1 DEF Tunnel, Frame
  <2>7. y.finished = x.finished
    BY <2>1 DEF Tunnel
  <2>8. y.opened = TRUE
    BY <2>1, Zenon DEF Tunnel
  <2>9. ~TimedOut(v, h)
    BY <1>2 DEF Told, Honest, v
  <2>10. Honest(y, h)
    BY <2>4, <2>6, <2>9 DEF Honest
  <2>11. ~y.finished
    BY <1>2, <2>7
  <2>12. Lawful(y.events, y.opened, y.finished, h)
    BY <2>4, <2>6, <2>8, <2>11 DEF Lawful
  <2>13. Flow(y.events, y.pc, y.finished, h)
    <3>1. Flow(v, x.pc, x.finished, h)
      BY DEF Told, v
    <3>2. ~IsMessage(e) /\ SameData(x.pc, x.pc)
      BY <2>2 DEF IsMessage, SameData
    <3>3. Flow(es, x.pc, x.finished, h)
      BY <2>2, <3>1, <3>2, FlowKept DEF es
    <3> QED BY <2>6, <2>7, <3>3
  <2> QED BY <1>2, <2>5, <2>6, <2>7, <2>8, <2>10, <2>12, <2>13 DEF Told
<1> QED BY <1>1, <1>2

\* The peer connection once its output is taken.
Quiet(p) == [p EXCEPT !.out = 0]

LEMMA QuietKeeps ==
    ASSUME NEW p \in PeerConnection, Linked(p)
    PROVE  LET q == Quiet(p) IN
           /\ q \in PeerConnection /\ Linked(q)
           /\ q.ice = p.ice /\ q.dtls = p.dtls /\ q.assoc = p.assoc /\ q.sctpEv = p.sctpEv
           /\ q.channel = p.channel /\ q.state = p.state /\ q.reads = p.reads
           /\ (q.described <=> p.described) /\ (q.iceEv <=> p.iceEv) /\ (q.dtlsEv <=> p.dtlsEv)
           /\ (q.note <=> p.note) /\ (q.onOpen <=> p.onOpen) /\ SameData(p, q)
<1> DEFINE q == Quiet(p)
<1>1. q = [p EXCEPT !.out = 0]
  BY DEF Quiet
<1> HIDE DEF q
<1>2. q \in PeerConnection
  BY <1>1, Zenon DEF PeerConnection
<1>3. /\ q.ice = p.ice /\ q.dtls = p.dtls /\ q.assoc = p.assoc /\ q.sctpEv = p.sctpEv
      /\ q.channel = p.channel /\ q.state = p.state /\ q.reads = p.reads
      /\ q.unread = p.unread /\ q.assocEv = p.assocEv
  BY <1>1 DEF PeerConnection
<1>4. /\ q.described = p.described /\ q.iceEv = p.iceEv /\ q.dtlsEv = p.dtlsEv
      /\ q.note = p.note /\ q.onOpen = p.onOpen
  BY <1>1 DEF PeerConnection
<1>5. Linked(q)
  BY <1>3, <1>4 DEF Linked, Chained, Idle, Associated
<1>6. SameData(p, q)
  BY <1>1 DEF SameData, PeerConnection
<1> QED BY <1>2, <1>3, <1>4, <1>5, <1>6 DEF q

LEMMA WritesKeep ==
    ASSUME NEW x \in Tunnel, Linked(x.pc), NEW h \in Polled, Told(x, h)
    PROVE  LET y == drain_writes(x) IN
           /\ y \in Tunnel /\ Told(y, h) /\ Frame(x, y) /\ y.pc = Quiet(x.pc)
           /\ (y.opened <=> x.opened) /\ (y.finished <=> x.finished)
<1> DEFINE y == drain_writes(x)
           g == [i \in 1..x.pc.out |-> Ev("SendDatagram")]
           v == x.events
           es == v \o g
           q == Quiet(x.pc)
<1> SUFFICES /\ y \in Tunnel /\ Told(y, h) /\ Frame(x, y) /\ y.pc = q
             /\ (y.opened <=> x.opened) /\ (y.finished <=> x.finished)
  OBVIOUS
<1>1. y = [x EXCEPT !.pc = q, !.events = es]
  BY DEF drain_writes, Quiet, Tunnel, PeerConnection
<1>2. x.pc \in PeerConnection /\ v \in Seq(Event) /\ Lawful(v, x.opened, x.finished, h)
  BY DEF Tunnel, Told
<1>3. g \in Seq(Event) /\ \A i \in DOMAIN g : g[i].kind = "SendDatagram"
  <2>1. Ev("SendDatagram") \in Event /\ Ev("SendDatagram").kind = "SendDatagram"
    BY EvFacts
  <2>2. x.pc.out \in Nat
    BY <1>2 DEF PeerConnection
  <2> QED BY <2>1, <2>2
<1>4. q \in PeerConnection /\ SameData(x.pc, q)
  BY <1>2, QuietKeeps
<1> HIDE DEF v, g, y, q
<1>5. es \in Seq(Event) /\ Lawful(es, x.opened, x.finished, h) /\ (TimedOut(es, h) => TimedOut(v, h))
  BY <1>2, <1>3, LawfulConcat
<1>10. Flow(es, q, x.finished, h)
  <2>1. Flow(v, x.pc, x.finished, h)
    BY DEF Told, v
  <2>2. \A i \in DOMAIN g : ~IsMessage(g[i])
    BY <1>3 DEF IsMessage
  <2> QED BY <1>3, <1>4, <2>1, <2>2, FlowConcat
<1> HIDE DEF es
<1>6. y \in Tunnel
  BY <1>1, <1>4, <1>5, Zenon DEF Tunnel
<1>7. Frame(x, y) /\ y.pc = q /\ y.events = es
  BY <1>1 DEF Tunnel, Frame
<1>8. y.opened = x.opened /\ y.finished = x.finished
  BY <1>1 DEF Tunnel
<1>9. Told(y, h)
  BY <1>5, <1>7, <1>8, <1>10 DEF Told, Honest, Frame, v
<1> QED BY <1>6, <1>7, <1>8, <1>9

\* What an event of the peer connection does to the tunnel: it may end it.
\* Opening is left to maybe_open, at the end of drain.
Handled(x, y, h) ==
    /\ y \in Tunnel /\ Told(y, h) /\ Frame(x, y) /\ y.pc = x.pc
    /\ (y.opened <=> x.opened) /\ (x.finished => y.finished)

LEMMA EventStep ==
    ASSUME NEW x \in Tunnel, NEW h \in Polled, Told(x, h), NEW ev,
           ev = "nothing" \/ x.opened \/ x.pc.channel # "open",
           ev = "OnOpen" => x.opened \/ x.finished
    PROVE  LET y == HandleEvent(x, ev) IN
           /\ Handled(x, y, h) /\ (ev = "nothing" => y = x) /\ (ev = "OnClose" => y.finished)
<1> DEFINE y == HandleEvent(x, ev)
<1> SUFFICES Handled(x, y, h) /\ (ev = "nothing" => y = x) /\ (ev = "OnClose" => y.finished)
  OBVIOUS
<1>1. CASE y = x /\ (ev = "OnClose" => x.finished)
  BY <1>1 DEF Handled, Frame
<1>2. ASSUME NEW why \in {"Remote", "Failure"}, y = finish(x, why), ev # "nothing"
      PROVE  Handled(x, y, h) /\ (ev = "nothing" => y = x) /\ (ev = "OnClose" => y.finished)
  <2> HIDE DEF y
  <2>1. why \in CloseReasons /\ why # "Timeout"
    BY DEF CloseReasons
  <2>2. /\ y \in Tunnel /\ Told(y, h) /\ Frame(x, y) /\ y.pc = x.pc
        /\ (y.opened <=> x.opened) /\ y.finished
    BY <1>2, <2>1, FinishKeeps
  <2> QED BY <1>2, <2>2 DEF Handled
<1>3. CASE ~x.finished
  <2> DEFINE d == Push([x EXCEPT !.opened = TRUE], Ev("Opened"))
             a == ev = "OnOpen" /\ ~x.opened
             b == ev = "connected"
             c == ev \in {"OnClose", "disconnected", "closed"}
             e == ev \in {"failed", "IceFailed"}
             yb == maybe_open(x)
             yc == finish(x, "Remote")
             ye == finish(x, "Failure")
  <2>1. y = CASE a -> d [] b -> yb [] c -> yc [] e -> ye [] OTHER -> x
    BY <1>3 DEF HandleEvent
  <2>2. ~a
    BY <1>3
  <2>3. ~(b /\ c) /\ ~(b /\ e) /\ ~(c /\ e)
    OBVIOUS
  <2>4. b => yb = x
    BY <1>3 DEF maybe_open
  <2>5. (c \/ e => ev # "nothing") /\ (ev = "OnClose" => c)
    OBVIOUS
  <2> HIDE DEF y, a, b, c, e, d, yb, yc, ye
  <2>6. (b => y = yb) /\ (c => y = yc) /\ (e => y = ye) /\ (~b /\ ~c /\ ~e => y = x)
    BY <2>1, <2>2, <2>3
  <2>7. CASE c
    BY <1>2, <2>5, <2>6, <2>7 DEF yc
  <2>8. CASE e
    BY <1>2, <2>5, <2>6, <2>8 DEF ye
  <2>9. CASE ~c /\ ~e
    BY <1>1, <2>4, <2>5, <2>6, <2>9
  <2> QED BY <2>7, <2>8, <2>9
<1>4. CASE x.finished
  <2>1. y = x
    BY <1>4 DEF HandleEvent
  <2> QED BY <1>1, <1>4, <2>1
<1> QED BY <1>3, <1>4

LEMMA EventsKeep ==
    ASSUME NEW x \in Tunnel, Linked(x.pc), Ready(x), NEW h \in Polled, Told(x, h)
    PROVE  LET y == DrainEvents(x) IN
           /\ y \in Tunnel /\ Told(y, h) /\ Frame(x, y) /\ y.pc = Pass(x.pc)
           /\ (y.opened <=> x.opened) /\ (x.finished => y.finished)
           /\ y.pc.channel = "open" => x.opened \/ ~y.finished
           /\ y.pc.channel = "gone" /\ x.pc.channel # "gone" => y.finished
<1> DEFINE y == DrainEvents(x)
           p == x.pc
           q == Pass(p)
           y0 == [x EXCEPT !.pc = q]
           e1 == IF p.onOpen THEN "OnOpen" ELSE "nothing"
           e2 == IF q.channel = "gone" /\ p.channel # "gone" THEN "OnClose" ELSE "nothing"
           e3 == IF q.state # p.state THEN q.state ELSE "nothing"
           e4 == IF p.iceEv /\ p.ice = "failed" THEN "IceFailed" ELSE "nothing"
           y1 == HandleEvent(y0, e1)
           y2 == HandleEvent(y1, e2)
           y3 == HandleEvent(y2, e3)
           y4 == HandleEvent(y3, e4)
<1> SUFFICES /\ y \in Tunnel /\ Told(y, h) /\ Frame(x, y) /\ y.pc = q
             /\ (y.opened <=> x.opened) /\ (x.finished => y.finished)
             /\ y.pc.channel = "open" => x.opened \/ ~y.finished
             /\ y.pc.channel = "gone" /\ p.channel # "gone" => y.finished
  OBVIOUS
<1>1. p \in PeerConnection
  BY DEF Tunnel
<1>2. q \in PeerConnection /\ Linked(q) /\ PassFrame(p, q)
  BY <1>1, PassKeeps
<1>3. y = y4
  BY DEF DrainEvents, Surfaced
<1> HIDE DEF q, y
<1>4. /\ y0 \in Tunnel /\ Told(y0, h) /\ Frame(x, y0) /\ y0.pc = q
      /\ (y0.opened <=> x.opened) /\ (y0.finished <=> x.finished)
  <2>1. y0 \in Tunnel
    BY <1>2, Zenon DEF Tunnel
  <2>2. Frame(x, y0) /\ y0.pc = q /\ y0.events = x.events
    BY DEF Tunnel, Frame
  <2>3. y0.opened = x.opened /\ y0.finished = x.finished
    BY DEF Tunnel
  <2> HIDE DEF y0
  <2>4. Flow(x.events, q, x.finished, h)
    BY <1>2, FlowPassed DEF Told
  <2>5. Told(y0, h)
    BY <2>2, <2>3, <2>4 DEF Told, Honest, Frame
  <2> QED BY <2>1, <2>2, <2>3, <2>5
<1>5. e1 = "OnOpen" => x.opened \/ x.finished
  BY DEF Ready, Noticed
<1>6. ASSUME q.channel = "open", ~x.opened
      PROVE  /\ ~x.finished
             /\ e1 = "nothing" /\ e2 = "nothing" /\ e3 = "nothing" /\ e4 = "nothing"
  <2>1. p.sctpEv # <<>>
    BY <1>2, <1>6 DEF PassFrame, Ready, Noticed
  <2>2. ~p.iceEv /\ ~p.dtlsEv
    BY <1>6, <2>1 DEF Ready
  <2>3. ~x.finished
    BY <1>1, <2>1 DEF Ready, Linked, Chained, Associated, PeerConnection
  <2>4. q.state = p.state /\ ~p.onOpen
    BY <1>2, <1>5, <1>6, <2>2, <2>3 DEF PassFrame
  <2> QED BY <1>6, <2>2, <2>3, <2>4
<1>7. /\ e2 # "OnOpen" /\ e4 # "OnOpen" /\ e3 # "OnOpen"
      /\ (q.channel = "gone" /\ p.channel # "gone" => e2 = "OnClose")
  BY <1>2 DEF PeerConnection, ConnectionStates
<1> HIDE DEF y0, e1, e2, e3, e4
<1>8. /\ e1 = "nothing" \/ x.opened \/ q.channel # "open"
      /\ e2 = "nothing" \/ x.opened \/ q.channel # "open"
      /\ e3 = "nothing" \/ x.opened \/ q.channel # "open"
      /\ e4 = "nothing" \/ x.opened \/ q.channel # "open"
  BY <1>6
<1>9. Handled(y0, y1, h) /\ (e1 = "nothing" => y1 = y0)
  BY <1>4, <1>5, <1>8, EventStep
<1> HIDE DEF y1
<1>10. y1 \in Tunnel /\ Told(y1, h) /\ y1.pc = q /\ (y1.opened <=> x.opened)
  BY <1>4, <1>9 DEF Handled
<1>11. Handled(y1, y2, h) /\ (e2 = "nothing" => y2 = y1) /\ (e2 = "OnClose" => y2.finished)
  BY <1>7, <1>8, <1>10, EventStep
<1> HIDE DEF y2
<1>12. y2 \in Tunnel /\ Told(y2, h) /\ y2.pc = q /\ (y2.opened <=> x.opened)
  BY <1>10, <1>11 DEF Handled
<1>13. Handled(y2, y3, h) /\ (e3 = "nothing" => y3 = y2)
  BY <1>7, <1>8, <1>12, EventStep
<1> HIDE DEF y3
<1>14. y3 \in Tunnel /\ Told(y3, h) /\ y3.pc = q /\ (y3.opened <=> x.opened)
  BY <1>12, <1>13 DEF Handled
<1>15. Handled(y3, y4, h) /\ (e4 = "nothing" => y4 = y3)
  BY <1>7, <1>8, <1>14, EventStep
<1> HIDE DEF y4
<1>16. y \in Tunnel /\ Told(y, h) /\ y.pc = q /\ (y.opened <=> x.opened) /\ Frame(x, y)
  BY <1>3, <1>4, <1>9, <1>11, <1>13, <1>14, <1>15 DEF Handled, Frame
<1>17. x.finished => y.finished
  BY <1>3, <1>4, <1>9, <1>11, <1>13, <1>15 DEF Handled
<1>18. q.channel = "open" => x.opened \/ ~y.finished
  BY <1>3, <1>4, <1>6, <1>9, <1>11, <1>13, <1>15
<1>19. q.channel = "gone" /\ p.channel # "gone" => y.finished
  BY <1>3, <1>7, <1>11, <1>13, <1>15 DEF Handled
<1> QED BY <1>16, <1>17, <1>18, <1>19

\* The peer connection with other messages waiting.
Waiting(p, reads) == [p EXCEPT !.reads = reads]

\* The tunnel with other messages waiting and other events queued.
Read(x, reads, events) == [x EXCEPT !.pc = Waiting(x.pc, reads), !.events = events]

LEMMA WaitingKeeps ==
    ASSUME NEW p \in PeerConnection, Linked(p), NEW reads \in Seq(Nat), p.reads = <<>> => reads = <<>>
    PROVE  LET q == Waiting(p, reads) IN
           /\ q \in PeerConnection /\ Linked(q) /\ q.reads = reads
           /\ q.arrived = p.arrived /\ q.unacked = p.unacked /\ q.outstanding = p.outstanding
           /\ q.ice = p.ice /\ q.dtls = p.dtls /\ q.assoc = p.assoc /\ q.sctpEv = p.sctpEv
           /\ q.channel = p.channel /\ q.empties = p.empties /\ q.assocEv = p.assocEv
           /\ (q.described <=> p.described) /\ (q.iceEv <=> p.iceEv) /\ (q.dtlsEv <=> p.dtlsEv)
           /\ (q.note <=> p.note) /\ (q.onOpen <=> p.onOpen)
<1> DEFINE q == Waiting(p, reads)
<1>1. q = [p EXCEPT !.reads = reads]
  BY DEF Waiting
<1> HIDE DEF q
<1>2. q \in PeerConnection
  BY <1>1, Zenon DEF PeerConnection
<1>3. /\ q.ice = p.ice /\ q.dtls = p.dtls /\ q.assoc = p.assoc /\ q.sctpEv = p.sctpEv
      /\ q.channel = p.channel /\ q.reads = reads /\ q.unread = p.unread
      /\ q.empties = p.empties /\ q.assocEv = p.assocEv
      /\ q.arrived = p.arrived /\ q.unacked = p.unacked /\ q.outstanding = p.outstanding
  BY <1>1 DEF PeerConnection
<1>4. /\ q.described = p.described /\ q.iceEv = p.iceEv /\ q.dtlsEv = p.dtlsEv
      /\ q.note = p.note /\ q.onOpen = p.onOpen
  BY <1>1 DEF PeerConnection
<1>5. Linked(q)
  BY <1>3, <1>4 DEF Linked, Chained, Idle, Associated
<1> QED BY <1>2, <1>3, <1>4, <1>5 DEF q

\* What waits goes to the end of the queue, or is given up once finished.
LEMMA FlowRead ==
    ASSUME NEW ev, NEW p \in PeerConnection, Linked(p), NEW h, NEW finished,
           Flow(ev, p, finished, h)
    PROVE  /\ finished => \A r \in Seq(Nat) : (p.reads = <<>> => r = <<>>) =>
                               Flow(ev, Waiting(p, r), finished, h)
           /\ ~finished => \A g \in Seq(Event) :
                 /\ Len(g) = Len(p.reads)
                 /\ \A i \in DOMAIN p.reads : IsMessage(g[i]) /\ g[i].id = p.reads[i]
                 => Flow(ev \o g, Waiting(p, <<>>), finished, h)
<1>1. PICK last \in Nat : /\ Counts(ev, h.messages, last) /\ last <= p.arrived
                          /\ ~finished => Follows(p, last)
  BY DEF Flow
<1>2. ASSUME NEW r \in Seq(Nat), p.reads = <<>> => r = <<>>
      PROVE  LET q == Waiting(p, r) IN Owing(q) /\ q.arrived = p.arrived /\ q.reads = r
  <2> DEFINE q == Waiting(p, r)
  <2>1. /\ q.reads = r /\ q.sctpEv = p.sctpEv /\ q.channel = p.channel
        /\ q.empties = p.empties /\ q.assocEv = p.assocEv
        /\ q.arrived = p.arrived /\ q.unacked = p.unacked /\ q.outstanding = p.outstanding
    BY <1>2, WaitingKeeps
  <2> HIDE DEF q
  <2>2. \A b : Ledger(b, p) => Ledger(b, q)
    BY <2>1 DEF Ledger, Notices
  <2>3. Owing(q)
    BY <2>1, <2>2 DEF Flow, Owing
  <2> QED BY <2>1, <2>3 DEF q
<1>3. ASSUME finished, NEW r \in Seq(Nat), p.reads = <<>> => r = <<>>
      PROVE  Flow(ev, Waiting(p, r), finished, h)
  BY <1>1, <1>2, <1>3 DEF Flow
<1>4. ASSUME ~finished, NEW g \in Seq(Event), Len(g) = Len(p.reads),
             \A i \in DOMAIN p.reads : IsMessage(g[i]) /\ g[i].id = p.reads[i]
      PROVE  Flow(ev \o g, Waiting(p, <<>>), finished, h)
  <2> DEFINE w == p.reads
             k == Len(w)
             q == Waiting(p, <<>>)
             n == p.arrived
             e == <<>>
  <2>1. w \in Seq(Nat) /\ n \in Nat
    BY DEF PeerConnection
  <2>2. n = last + k /\ \A i \in DOMAIN w : w[i] = last + i
    BY <1>1, <1>4 DEF Follows
  <2>3. k \in Nat /\ DOMAIN w = 1..k /\ e \in Seq(Nat)
    <3> HIDE DEF w
    <3> QED BY <2>1
  <2>4. Len(g) = k /\ \A i \in 1..k : IsMessage(g[i]) /\ g[i].id = last + i
    <3>1. \A i \in DOMAIN w : IsMessage(g[i]) /\ g[i].id = w[i]
      BY <1>4
    <3>2. Len(g) = k
      BY <1>4
    <3> HIDE DEF w, k
    <3> QED BY <2>2, <2>3, <3>1, <3>2
  <2>5. Owing(q) /\ q.arrived = n /\ q.reads = e
    BY <1>2, <2>3
  <2> HIDE DEF w, k, q, n, e
  <2>6. Counts(g, last, n)
    BY <2>2, <2>3, <2>4, CountsRun
  <2>7. Counts(ev \o g, h.messages, n)
    BY <1>1, <2>6, CountsJoin
  <2>8. q.arrived = n + Len(q.reads) /\ DOMAIN q.reads = {}
    BY <2>1, <2>5 DEF e
  <2>9. Follows(q, n) /\ n <= q.arrived
    BY <2>1, <2>5, <2>8 DEF Follows
  <2>10. Flow(ev \o g, q, finished, h)
    BY <2>1, <2>5, <2>7, <2>9 DEF Flow
  <2> QED BY <2>10 DEF q
<1> QED BY <1>3, <1>4

LEMMA ReadsKeep ==
    ASSUME NEW x \in Tunnel, Linked(x.pc), NEW h \in Polled, Told(x, h), x.pc.reads # <<>> => x.opened
    PROVE  LET y == DrainReads(x) IN
           /\ y \in Tunnel /\ Told(y, h) /\ Frame(x, y)
           /\ (y.opened <=> x.opened) /\ (y.finished <=> x.finished)
           /\ \E reads \in Seq(Nat) : /\ y.pc = Waiting(x.pc, reads)
                                      /\ x.pc.reads = <<>> \/ ~y.finished => reads = <<>>
<1> DEFINE y == DrainReads(x)
           v == x.events
           w == x.pc.reads
           g == MessageEvents(x)
<1> SUFFICES /\ y \in Tunnel /\ Told(y, h) /\ Frame(x, y)
             /\ (y.opened <=> x.opened) /\ (y.finished <=> x.finished)
             /\ \E reads \in Seq(Nat) : /\ y.pc = Waiting(x.pc, reads)
                                        /\ w = <<>> \/ ~y.finished => reads = <<>>
  OBVIOUS
<1>1. x.pc \in PeerConnection /\ v \in Seq(Event) /\ Lawful(v, x.opened, x.finished, h)
  BY DEF Tunnel, Told
<1>2. w \in Seq(Nat)
  BY <1>1 DEF PeerConnection
<1>3. ASSUME NEW r \in Seq(Nat), w = <<>> \/ ~x.finished => r = <<>>,
             NEW es \in Seq(Event), y = Read(x, r, es),
             Lawful(es, x.opened, x.finished, h), TimedOut(es, h) => TimedOut(v, h),
             Flow(es, Waiting(x.pc, r), x.finished, h)
      PROVE  /\ y \in Tunnel /\ Told(y, h) /\ Frame(x, y)
             /\ (y.opened <=> x.opened) /\ (y.finished <=> x.finished)
             /\ \E reads \in Seq(Nat) : /\ y.pc = Waiting(x.pc, reads)
                                        /\ w = <<>> \/ ~y.finished => reads = <<>>
  <2> DEFINE q == Waiting(x.pc, r)
  <2>1. y = [x EXCEPT !.pc = q, !.events = es]
    BY <1>3 DEF Read
  <2>2. q \in PeerConnection
    BY <1>1, <1>3, WaitingKeeps
  <2> HIDE DEF q, y
  <2>3. y \in Tunnel
    BY <2>1, <2>2, Zenon DEF Tunnel
  <2>4. Frame(x, y) /\ y.pc = q /\ y.events = es
    BY <2>1 DEF Tunnel, Frame
  <2>5. y.opened = x.opened /\ y.finished = x.finished
    BY <2>1 DEF Tunnel
  <2>6. Told(y, h)
    <3>1. Flow(es, q, x.finished, h)
      BY <1>3 DEF q
    <3> QED BY <1>3, <2>4, <2>5, <3>1 DEF Told, Honest, Frame
  <2>7. y.pc = Waiting(x.pc, r)
    BY <2>4 DEF q
  <2> HIDE DEF w
  <2> QED BY <1>3, <2>3, <2>4, <2>5, <2>6, <2>7
<1>6. Flow(v, x.pc, x.finished, h)
  BY DEF Told
<1>4. CASE x.finished
  <2> DEFINE r == IF w = <<>> THEN w ELSE Tail(w)
  <2>1. r \in Seq(Nat) /\ (w = <<>> => r = <<>>)
    <3> HIDE DEF w
    <3> QED BY <1>2
  <2>2. y = Read(x, r, v)
    BY <1>4 DEF DrainReads, Read, Waiting, Tunnel, PeerConnection
  <2>3. x.pc.reads = <<>> => r = <<>>
    BY <2>1
  <2> HIDE DEF r, y, v, w
  <2>4. Flow(v, Waiting(x.pc, r), x.finished, h)
    BY <1>1, <1>4, <1>6, <2>1, <2>3, FlowRead
  <2> QED BY <1>1, <1>3, <1>4, <2>1, <2>2, <2>4
<1>5. CASE ~x.finished
  <2> DEFINE es == v \o g
  <2>1. y = Read(x, <<>>, es)
    BY <1>5 DEF DrainReads, Read, Waiting, Tunnel, PeerConnection
  <2>2. /\ g \in Seq(Event) /\ \A i \in DOMAIN g : g[i].kind = "Message"
        /\ Len(g) = Len(w) /\ \A i \in DOMAIN w : IsMessage(g[i]) /\ g[i].id = w[i]
    <3>1. g = [i \in DOMAIN w |-> [Ev("Message") EXCEPT !.id = w[i]]]
      BY DEF MessageEvents
    <3>2. \A n \in Nat : LET e == [Ev("Message") EXCEPT !.id = n] IN
             e \in Event /\ e.kind = "Message" /\ e.id = n
      BY EvFacts
    <3> HIDE DEF w, g
    <3>3. Len(w) \in Nat /\ DOMAIN w = 1..Len(w) /\ \A i \in 1..Len(w) : w[i] \in Nat
      BY <1>2
    <3> DEFINE k == Len(w)
               m(n) == [Ev("Message") EXCEPT !.id = n]
    <3>4. g = [i \in 1..k |-> m(w[i])]
      BY <3>1, <3>3
    <3>5. \A n \in Nat : m(n) \in Event /\ m(n).kind = "Message" /\ m(n).id = n
      BY <3>2
    <3> HIDE DEF k, m
    <3>6. k \in Nat /\ DOMAIN w = 1..k /\ k = Len(w) /\ \A i \in 1..k : w[i] \in Nat
      BY <3>3 DEF k
    <3>7. \A i \in 1..k : g[i] \in Event /\ g[i].kind = "Message" /\ g[i].id = w[i]
      BY <3>4, <3>5, <3>6
    <3>8. g \in Seq(Event) /\ Len(g) = k /\ DOMAIN g = 1..k
      BY <3>4, <3>6, <3>7
    <3> QED BY <3>6, <3>7, <3>8 DEF IsMessage
  <2>3. ~(w = <<>>) => x.opened
    OBVIOUS
  <2>4. \A i \in DOMAIN g : g[i].kind = "Message" /\ x.opened /\ ~x.finished
    <3>1. w = <<>> => DOMAIN g = {}
      BY DEF MessageEvents
    <3> HIDE DEF w, g
    <3> QED BY <1>5, <2>2, <2>3, <3>1
  <2>7. Flow(es, Waiting(x.pc, <<>>), x.finished, h)
    <3>1. /\ Len(g) = Len(x.pc.reads)
          /\ \A i \in DOMAIN x.pc.reads : IsMessage(g[i]) /\ g[i].id = x.pc.reads[i]
      BY <2>2
    <3> HIDE DEF g, v
    <3> QED BY <1>1, <1>5, <1>6, <2>2, <3>1, FlowRead
  <2> HIDE DEF g, v, y, w
  <2>5. /\ es \in Seq(Event) /\ Lawful(es, x.opened, x.finished, h)
        /\ (TimedOut(es, h) => TimedOut(v, h))
    BY <1>1, <2>2, <2>4, LawfulConcat
  <2> HIDE DEF es
  <2>6. <<>> \in Seq(Nat)
    OBVIOUS
  <2> QED BY <1>3, <2>1, <2>5, <2>6, <2>7
<1> QED BY <1>4, <1>5

LEMMA SampleKeeps ==
    ASSUME NEW x \in Tunnel, Linked(x.pc), Stages(x),
           x.pc.dtls # "new" => x.ice_ms # NoTime \/ x.pc.ice = "connected",
           x.opened => x.opened_ms # NoTime \/ x.pc.assoc = "connected"
    PROVE  LET y == sample_handshake(x) IN
           /\ y \in Tunnel /\ Traced(y) /\ y.pc = x.pc /\ y.events = x.events
           /\ y.status = x.status /\ y.send_buffer_cap = x.send_buffer_cap
           /\ y.last_now = x.last_now /\ y.handshake_deadline = x.handshake_deadline
           /\ (y.opened <=> x.opened) /\ (y.finished <=> x.finished)
<1> DEFINE y == sample_handshake(x)
           i == First(x.ice_ms, x.pc.ice = "connected", x.last_now)
           d == First(x.dtls_ms, x.pc.dtls = "connected", x.last_now)
           s == First(x.sctp_ms, x.pc.assoc = "connected", x.last_now)
           o == First(x.opened_ms, x.opened, x.last_now)
<1> SUFFICES /\ y \in Tunnel /\ Traced(y) /\ y.pc = x.pc /\ y.events = x.events
             /\ y.status = x.status /\ y.send_buffer_cap = x.send_buffer_cap
             /\ y.last_now = x.last_now /\ y.handshake_deadline = x.handshake_deadline
             /\ (y.opened <=> x.opened) /\ (y.finished <=> x.finished)
  OBVIOUS
<1>1. CASE x.opened_ms # NoTime
  <2>1. y = x
    BY <1>1 DEF sample_handshake
  <2>2. Traced(x)
    BY <1>1 DEF Traced, Stages
  <2> QED BY <2>1, <2>2
<1>2. CASE x.opened_ms = NoTime
  <2>1. y = [x EXCEPT !.ice_ms = i, !.dtls_ms = d, !.sctp_ms = s, !.opened_ms = o]
    BY <1>2 DEF sample_handshake
  <2>2. /\ x.last_now \in Nat
        /\ x.ice_ms \in Stage /\ x.dtls_ms \in Stage /\ x.sctp_ms \in Stage /\ x.opened_ms \in Stage
    BY DEF Tunnel
  <2>3. i \in Stage /\ d \in Stage /\ s \in Stage /\ o \in Stage
    BY <2>2 DEF First, Stage
  <2>4. /\ x.pc.dtls # "new" => i # NoTime
        /\ x.pc.assoc # "none" => d # NoTime
        /\ x.opened => o # NoTime
    BY <2>2 DEF First, Stage, NoTime, Linked, Chained
  <2>5. /\ d # NoTime => i # NoTime /\ i <= d
        /\ s # NoTime => d # NoTime /\ d <= s
        /\ o # NoTime => s # NoTime /\ s <= o /\ x.opened
        /\ i <= x.last_now /\ d <= x.last_now /\ s <= x.last_now /\ o <= x.last_now
    <3>1. /\ x.pc.assoc = "connected" => x.pc.dtls = "connected"
          /\ x.pc.dtls = "connected" => x.ice_ms # NoTime \/ x.pc.ice = "connected"
      BY DEF Linked, Chained
    <3> QED BY <1>2, <2>2, <3>1 DEF First, Stage, Stages, NoTime
  <2> HIDE DEF y, i, d, s, o
  <2>6. y \in Tunnel
    <3> DEFINE u == [x EXCEPT !.ice_ms = i, !.dtls_ms = d]
    <3>1. u \in Tunnel
      BY <2>3, Zenon DEF Tunnel
    <3>2. y = [u EXCEPT !.sctp_ms = s, !.opened_ms = o]
      BY <2>1 DEF Tunnel
    <3> HIDE DEF u
    <3> QED BY <2>3, <3>1, <3>2, Zenon DEF Tunnel
  <2>7. /\ y.ice_ms = i /\ y.dtls_ms = d /\ y.sctp_ms = s /\ y.opened_ms = o
        /\ y.pc = x.pc /\ y.events = x.events /\ y.status = x.status
        /\ y.last_now = x.last_now /\ y.handshake_deadline = x.handshake_deadline
        /\ y.send_buffer_cap = x.send_buffer_cap
    BY <2>1 DEF Tunnel
  <2>8. y.opened = x.opened /\ y.finished = x.finished
    BY <2>1 DEF Tunnel
  <2>9. Traced(y)
    BY <2>4, <2>5, <2>7, <2>8 DEF Traced, Stages
  <2> QED BY <2>6, <2>7, <2>8, <2>9
<1> QED BY <1>1, <1>2

-----------------------------------------------------------------------------
(* drain: what is queued inside the peer connection takes effect, and the  *)
(* tunnel is at rest again.                                                *)

LEMMA DrainKeeps ==
    ASSUME NEW x \in Tunnel, Linked(x.pc), Ready(x), Traced(x), NEW h \in Polled, Told(x, h)
    PROVE  LET y == drain(x) IN
           /\ Rest(y, h) /\ y.last_now = x.last_now /\ y.status = x.status
           /\ (y.pc.described <=> x.pc.described)
           /\ y.pc.unacked = x.pc.unacked /\ y.pc.empties = x.pc.empties
           /\ y.send_buffer_cap = x.send_buffer_cap
<1> DEFINE y == drain(x)
           a == drain_writes(x)
           b == DrainEvents(a)
           c == drain_writes(b)
           d == DrainReads(c)
           e == [d EXCEPT !.deferred = FALSE]
           f == maybe_open(e)
           p == x.pc
           q == f.pc
<1> SUFFICES /\ Rest(y, h) /\ y.last_now = x.last_now /\ y.status = x.status
             /\ (y.pc.described <=> p.described)
             /\ y.pc.unacked = p.unacked /\ y.pc.empties = p.empties
             /\ y.send_buffer_cap = x.send_buffer_cap
  OBVIOUS
<1>1. y = sample_handshake(f)
  BY DEF drain
<1>2. p \in PeerConnection
  BY DEF Tunnel
<1>3. /\ a \in Tunnel /\ Told(a, h) /\ Frame(x, a) /\ a.pc = Quiet(p)
      /\ (a.opened <=> x.opened) /\ (a.finished <=> x.finished)
  BY WritesKeep
<1>4. /\ a.pc \in PeerConnection /\ Linked(a.pc)
      /\ a.pc.ice = p.ice /\ a.pc.dtls = p.dtls /\ a.pc.assoc = p.assoc /\ a.pc.sctpEv = p.sctpEv
      /\ a.pc.channel = p.channel /\ a.pc.state = p.state /\ a.pc.reads = p.reads
      /\ (a.pc.described <=> p.described) /\ (a.pc.iceEv <=> p.iceEv) /\ (a.pc.dtlsEv <=> p.dtlsEv)
      /\ (a.pc.note <=> p.note) /\ (a.pc.onOpen <=> p.onOpen) /\ a.pc.unacked = p.unacked
      /\ a.pc.empties = p.empties
  BY <1>2, <1>3, QuietKeeps DEF SameData
<1>5. Ready(a)
  <2> HIDE DEF a
  <2> QED BY <1>3, <1>4 DEF Ready, Noticed, Associated
<1> HIDE DEF y, a
<1>6. /\ b \in Tunnel /\ Told(b, h) /\ Frame(a, b) /\ b.pc = Pass(a.pc)
      /\ (b.opened <=> a.opened) /\ (a.finished => b.finished)
      /\ b.pc.channel = "open" => a.opened \/ ~b.finished
      /\ b.pc.channel = "gone" /\ a.pc.channel # "gone" => b.finished
  BY <1>3, <1>4, <1>5, EventsKeep
<1> HIDE DEF b
<1>7. b.pc \in PeerConnection /\ Linked(b.pc) /\ PassFrame(a.pc, b.pc)
  BY <1>4, <1>6, PassKeeps
<1>8. /\ c \in Tunnel /\ Told(c, h) /\ Frame(b, c) /\ c.pc = Quiet(b.pc)
      /\ (c.opened <=> b.opened) /\ (c.finished <=> b.finished)
  BY <1>6, <1>7, WritesKeep
<1> HIDE DEF c
<1>9. /\ c.pc \in PeerConnection /\ Linked(c.pc)
      /\ c.pc.ice = b.pc.ice /\ c.pc.dtls = b.pc.dtls /\ c.pc.assoc = b.pc.assoc
      /\ c.pc.sctpEv = b.pc.sctpEv /\ c.pc.channel = b.pc.channel /\ c.pc.reads = b.pc.reads
      /\ (c.pc.described <=> b.pc.described)
      /\ (c.pc.iceEv <=> b.pc.iceEv) /\ (c.pc.dtlsEv <=> b.pc.dtlsEv)
      /\ (c.pc.note <=> b.pc.note) /\ (c.pc.onOpen <=> b.pc.onOpen) /\ c.pc.unacked = b.pc.unacked
      /\ c.pc.empties = b.pc.empties
  BY <1>7, <1>8, QuietKeeps DEF SameData
<1>10. c.pc.reads # <<>> => c.opened
  BY <1>3, <1>4, <1>6, <1>7, <1>8, <1>9 DEF PassFrame, Ready, Noticed
<1>11. /\ d \in Tunnel /\ Told(d, h) /\ Frame(c, d)
       /\ (d.opened <=> c.opened) /\ (d.finished <=> c.finished)
       /\ \E reads \in Seq(Nat) : /\ d.pc = Waiting(c.pc, reads)
                                  /\ c.pc.reads = <<>> \/ ~d.finished => reads = <<>>
  BY <1>8, <1>9, <1>10, ReadsKeep
<1> HIDE DEF d
<1>12. /\ d.pc \in PeerConnection /\ Linked(d.pc)
       /\ d.pc.ice = c.pc.ice /\ d.pc.dtls = c.pc.dtls /\ d.pc.assoc = c.pc.assoc
       /\ d.pc.sctpEv = c.pc.sctpEv /\ d.pc.channel = c.pc.channel
       /\ (d.pc.reads # <<>> => c.pc.reads # <<>> /\ d.finished) /\ d.pc.unacked = c.pc.unacked
       /\ d.pc.empties = c.pc.empties
       /\ (d.pc.described <=> c.pc.described) /\ (d.pc.iceEv <=> c.pc.iceEv) /\ (d.pc.dtlsEv <=> c.pc.dtlsEv)
       /\ (d.pc.note <=> c.pc.note) /\ (d.pc.onOpen <=> c.pc.onOpen)
  <2>1. PICK reads \in Seq(Nat) : /\ d.pc = Waiting(c.pc, reads)
                                  /\ c.pc.reads = <<>> \/ ~d.finished => reads = <<>>
    BY <1>11
  <2> QED BY <1>9, <2>1, WaitingKeeps
<1>13. /\ e \in Tunnel /\ Told(e, h) /\ Frame(d, e) /\ e.pc = d.pc
       /\ (e.opened <=> d.opened) /\ (e.finished <=> d.finished)
  <2>1. e \in Tunnel
    BY <1>11, Zenon DEF Tunnel
  <2>2. Frame(d, e) /\ e.pc = d.pc /\ e.events = d.events
    BY <1>11 DEF Tunnel, Frame
  <2>3. e.opened = d.opened /\ e.finished = d.finished
    BY <1>11 DEF Tunnel
  <2> HIDE DEF e
  <2>4. Told(e, h)
    BY <1>11, <2>2, <2>3 DEF Told, Honest, Frame
  <2> QED BY <2>1, <2>2, <2>3, <2>4
<1> HIDE DEF e
<1>14. e.pc.channel = "open" => e.opened \/ ~e.finished
  BY <1>6, <1>8, <1>9, <1>11, <1>12, <1>13
<1>15. /\ f \in Tunnel /\ Told(f, h) /\ Frame(e, f) /\ f.pc = e.pc
       /\ (f.opened <=> e.opened \/ e.pc.channel = "open") /\ (f.finished <=> e.finished)
  BY <1>13, <1>14, OpenKeeps
<1> HIDE DEF f
<1>16. /\ Linked(q) /\ q.sctpEv = <<>> /\ ~q.onOpen /\ ~q.iceEv /\ ~q.dtlsEv
       /\ q.dtls # "new" => p.dtls # "new" \/ q.ice = "connected"
       /\ p.channel # "connecting" => q.channel # "connecting"
       /\ q.channel = "open" => q.assoc = "connected" \/ p.channel = "open"
       /\ q.note => p.note \/ (p.channel = "connecting" /\ q.channel # "connecting")
       /\ q.reads # <<>> => p.reads # <<>> /\ f.finished
       /\ (q.described <=> p.described) /\ q.unacked = p.unacked /\ q.empties = p.empties
  <2>1. q = d.pc
    BY <1>13, <1>15
  <2> HIDE DEF q
  <2>2. Linked(q)
    BY <1>12, <2>1
  <2>3. q.channel = b.pc.channel /\ q.sctpEv = b.pc.sctpEv /\ q.dtls = b.pc.dtls
        /\ q.ice = b.pc.ice /\ q.assoc = b.pc.assoc
        /\ (q.reads # <<>> => b.pc.reads # <<>> /\ f.finished) /\ q.unacked = b.pc.unacked
        /\ q.empties = b.pc.empties
    BY <1>9, <1>12, <1>13, <1>15, <2>1
  <2>4. /\ (q.iceEv <=> b.pc.iceEv) /\ (q.dtlsEv <=> b.pc.dtlsEv)
        /\ (q.note <=> b.pc.note) /\ (q.onOpen <=> b.pc.onOpen) /\ (q.described <=> b.pc.described)
    BY <1>9, <1>12, <2>1
  <2> QED BY <1>4, <1>7, <2>2, <2>3, <2>4 DEF PassFrame, Associated
<1>17. /\ (f.opened <=> x.opened \/ q.channel = "open")
       /\ (x.finished => f.finished)
       /\ q.channel = "gone" /\ p.channel # "gone" => f.finished
  <2>1. q.channel = b.pc.channel /\ e.pc.channel = q.channel
    BY <1>9, <1>12, <1>13, <1>15
  <2> HIDE DEF q, p
  <2> QED BY <1>3, <1>4, <1>6, <1>8, <1>11, <1>13, <1>15, <2>1
<1>18. Frame(x, f)
  BY <1>3, <1>6, <1>8, <1>11, <1>13, <1>15 DEF Frame
<1>19. Stages(f)
  BY <1>17, <1>18 DEF Traced, Stages, Frame
<1>20. /\ q.dtls # "new" => f.ice_ms # NoTime \/ q.ice = "connected"
       /\ f.opened => f.opened_ms # NoTime \/ q.assoc = "connected"
  BY <1>16, <1>17, <1>18 DEF Traced, Frame, Ready, Noticed
<1>21. q \in PeerConnection
  BY <1>15 DEF Tunnel
<1>22. /\ y \in Tunnel /\ Traced(y) /\ y.pc = q /\ y.events = f.events
       /\ y.status = f.status /\ y.last_now = f.last_now /\ y.handshake_deadline = f.handshake_deadline
       /\ y.send_buffer_cap = f.send_buffer_cap
       /\ (y.opened <=> f.opened) /\ (y.finished <=> f.finished)
  BY <1>1, <1>15, <1>16, <1>19, <1>20, SampleKeeps
<1> HIDE DEF q
<1>23. Told(y, h)
  <2>1. TimedOut(f.events, h) => f.finished /\ ~f.opened /\ f.last_now >= f.handshake_deadline
    BY <1>15 DEF Told, Honest
  <2>2. Lawful(f.events, f.opened, f.finished, h)
    BY <1>15 DEF Told
  <2>3. Lawful(y.events, y.opened, y.finished, h)
    BY <1>22, <2>2 DEF Lawful
  <2>4. Flow(f.events, q, f.finished, h)
    BY <1>15 DEF Told, q
  <2>5. Flow(y.events, y.pc, y.finished, h)
    BY <1>22, <2>4 DEF Flow
  <2> QED BY <1>22, <2>1, <2>3, <2>5 DEF Told, Honest
<1>24. Noticed(y)
  <2>1. y.pc.channel = "open" => y.opened
    BY <1>17, <1>22
  <2>2. y.opened => y.pc.channel # "connecting"
    BY <1>16, <1>17, <1>22 DEF Ready, Noticed
  <2>3. y.pc.note \/ y.pc.onOpen => y.opened \/ y.finished
    <3> SUFFICES ASSUME q.note PROVE y.opened \/ y.finished
      BY <1>16, <1>22
    <3>1. CASE p.note
      BY <1>17, <1>22, <3>1 DEF Ready, Noticed
    <3>2. CASE p.channel = "connecting" /\ q.channel # "connecting"
      <4>1. q.channel \in {"open", "gone"}
        BY <1>21, <3>2 DEF PeerConnection
      <4> QED BY <1>17, <1>22, <3>2, <4>1
    <3> QED BY <1>16, <3>1, <3>2
  <2>4. y.pc.reads # <<>> => y.opened
    BY <1>16, <1>17, <1>22 DEF Ready, Noticed
  <2> QED BY <2>1, <2>2, <2>3, <2>4 DEF Noticed
<1>25. Settled(y)
  BY <1>16, <1>22, <1>24 DEF Settled
<1>26. y.last_now = x.last_now /\ y.status = x.status /\ y.send_buffer_cap = x.send_buffer_cap
  BY <1>18, <1>22 DEF Frame
<1>27. Batched(y)
  BY <1>16, <1>22 DEF Batched
<1> QED BY <1>16, <1>22, <1>23, <1>25, <1>26, <1>27 DEF Rest

-----------------------------------------------------------------------------
(* The host's calls, each from rest to rest.                               *)

\* A call happens at n and hands the tunnel a changed peer connection.
Fed(x, n, r) == [x EXCEPT !.last_now = n, !.pc = r]

LEMMA FlowFed ==
    ASSUME NEW ev, NEW p \in PeerConnection, NEW r \in PeerConnection, NEW finished, NEW h,
           Flow(ev, p, finished, h), DataFrame(p, r)
    PROVE  Flow(ev, r, finished, h)
<1>1. PICK last \in Nat : /\ Counts(ev, h.messages, last) /\ last <= p.arrived
                          /\ ~finished => Follows(p, last)
  BY DEF Flow
<1>2. p.arrived \in Nat /\ r.arrived \in Nat /\ p.arrived <= r.arrived
  BY DEF PeerConnection, DataFrame
<1>3. last <= r.arrived
  BY <1>1, <1>2
<1>4. Owing(r) /\ (~finished => Follows(r, last))
  BY <1>1 DEF Flow, DataFrame
<1> QED BY <1>1, <1>3, <1>4 DEF Flow

LEMMA FedKeeps ==
    ASSUME NEW x, NEW h \in Polled, Rest(x, h), NEW n \in Nat, x.last_now <= n, NEW r \in PeerConnection,
           Flow(x.events, r, x.finished, h)
    PROVE  LET y == Fed(x, n, r) IN
           /\ y \in Tunnel /\ Told(y, h) /\ Stages(y) /\ y.pc = r /\ y.last_now = n
           /\ (y.opened <=> x.opened) /\ (y.finished <=> x.finished)
           /\ y.status = x.status /\ y.handshake_deadline = x.handshake_deadline
           /\ y.ice_ms = x.ice_ms /\ y.dtls_ms = x.dtls_ms /\ y.opened_ms = x.opened_ms
           /\ y.send_buffer_cap = x.send_buffer_cap
<1> DEFINE y == Fed(x, n, r)
<1>1. x \in Tunnel
  BY DEF Rest
<1>2. y = [x EXCEPT !.last_now = n, !.pc = r]
  BY DEF Fed
<1> HIDE DEF y
<1>3. y \in Tunnel
  BY <1>1, <1>2, Zenon DEF Tunnel
<1>4. /\ y.pc = r /\ y.last_now = n /\ y.events = x.events
      /\ y.status = x.status /\ y.handshake_deadline = x.handshake_deadline
      /\ y.ice_ms = x.ice_ms /\ y.dtls_ms = x.dtls_ms /\ y.sctp_ms = x.sctp_ms /\ y.opened_ms = x.opened_ms
      /\ y.send_buffer_cap = x.send_buffer_cap
  BY <1>1, <1>2 DEF Tunnel
<1>5. y.opened = x.opened /\ y.finished = x.finished
  BY <1>1, <1>2 DEF Tunnel
<1>6. /\ x.last_now \in Nat /\ x.handshake_deadline \in Nat
      /\ x.ice_ms \in Int /\ x.dtls_ms \in Int /\ x.sctp_ms \in Int /\ x.opened_ms \in Int
  BY <1>1 DEF Tunnel, Stage, NoTime
<1>7. Stages(y)
  BY <1>4, <1>5, <1>6 DEF Rest, Traced, Stages
<1>8. Told(y, h)
  <2>1. Honest(x, h) /\ Lawful(x.events, x.opened, x.finished, h)
    BY DEF Rest, Told
  <2>2. Honest(y, h)
    BY <1>4, <1>5, <1>6, <2>1 DEF Honest
  <2> QED BY <1>4, <1>5, <2>1, <2>2 DEF Told
<1> QED BY <1>3, <1>4, <1>5, <1>7, <1>8 DEF y

\* What every datagram does, before it is drained.
LEMMA DatagramFed ==
    ASSUME NEW x, NEW h \in Polled, Rest(x, h), ~x.finished, NEW d \in Datagram,
           NEW n \in Nat, x.last_now <= n
    PROVE  LET y == Fed(x, n, handle_read(x.pc, d)) IN
           /\ y \in Tunnel /\ Linked(y.pc) /\ Ready(y) /\ Traced(y) /\ Told(y, h)
           /\ y.last_now = n /\ y.status = x.status
           /\ (y.opened <=> x.opened) /\ (y.finished <=> x.finished)
           /\ x.opened => Settled(y)
           /\ y.pc.unacked <= x.pc.unacked /\ y.send_buffer_cap = x.send_buffer_cap
<1> DEFINE r == handle_read(x.pc, d)
           y == Fed(x, n, r)
           p == x.pc
<1>1. x \in Tunnel /\ p \in PeerConnection /\ Linked(p) /\ Settled(x) /\ Traced(x)
  BY DEF Rest, Tunnel
<1>2. r \in PeerConnection /\ Linked(r) /\ ReadFrame(p, r) /\ DataFrame(p, r)
  BY <1>1, ReadKeeps
<1> HIDE DEF r
<1>8. Flow(x.events, r, x.finished, h)
  BY <1>1, <1>2, FlowFed DEF Rest, Told
<1>3. /\ y \in Tunnel /\ Told(y, h) /\ Stages(y) /\ y.pc = r /\ y.last_now = n
      /\ (y.opened <=> x.opened) /\ (y.finished <=> x.finished)
      /\ y.status = x.status
      /\ y.ice_ms = x.ice_ms /\ y.dtls_ms = x.dtls_ms /\ y.opened_ms = x.opened_ms
      /\ y.send_buffer_cap = x.send_buffer_cap
  BY <1>2, <1>8, FedKeeps
<1> HIDE DEF y
<1>4. Traced(y)
  BY <1>1, <1>2, <1>3 DEF Traced, ReadFrame
<1>5. Noticed(y)
  BY <1>1, <1>2, <1>3 DEF Noticed, Settled, ReadFrame
<1>6. Ready(y)
  BY <1>1, <1>2, <1>3, <1>5 DEF Ready, Settled, ReadFrame
<1>7. x.opened => Settled(y)
  <2>1. x.opened => Associated(p)
    BY <1>1 DEF Settled, Noticed, Linked, Chained
  <2> QED BY <1>1, <1>2, <1>3, <1>5, <2>1 DEF Settled, ReadFrame
<1>9. y.pc.unacked <= p.unacked
  BY <1>2, <1>3 DEF DataFrame
<1> QED BY <1>2, <1>3, <1>4, <1>6, <1>7, <1>9 DEF y, r

\* What is unacknowledged grows within the cap, but for empty messages.
WithinCap(x, y) ==
    y.pc.unacked > x.pc.unacked => y.pc.unacked <= y.send_buffer_cap + y.pc.empties

\* A call that keeps the invariant.
Kept(x, y, h) == Rest(y, h) /\ y.last_now <= now /\ y.status = x.status /\ WithinCap(x, y)

LEMMA NoMore ==
    ASSUME NEW x \in Tunnel, NEW y \in Tunnel, y.pc.unacked <= x.pc.unacked \/ y.pc.unacked = x.pc.unacked
    PROVE  WithinCap(x, y)
<1>1. x.pc \in PeerConnection /\ y.pc \in PeerConnection
  BY DEF Tunnel
<1>2. x.pc.unacked \in Nat /\ y.pc.unacked \in Nat
  BY <1>1 DEF PeerConnection
<1> QED BY <1>2 DEF WithinCap

LEMMA SameKept ==
    ASSUME NEW x, NEW h, Rest(x, h), x.last_now <= now
    PROVE  Kept(x, x, h)
<1>1. x \in Tunnel
  BY DEF Rest
<1> QED BY <1>1, NoMore DEF Kept

LEMMA ReceiveKeeps ==
    ASSUME now \in Nat, NEW x, NEW h \in Polled, Rest(x, h), x.last_now <= now, NEW d \in Datagram
    PROVE  Kept(x, receive(x, d), h)
<1>1. CASE x.finished
  BY <1>1, SameKept DEF receive
<1>2. CASE ~x.finished
  <2> DEFINE y == Fed(x, now, handle_read(x.pc, d))
             z == drain(y)
  <2>1. receive(x, d) = z
    BY <1>2 DEF receive, Fed, Rest, Tunnel
  <2>2. /\ y \in Tunnel /\ Linked(y.pc) /\ Ready(y) /\ Traced(y) /\ Told(y, h)
        /\ y.last_now = now /\ y.status = x.status /\ y.pc.unacked <= x.pc.unacked
    BY <1>2, DatagramFed
  <2> HIDE DEF y
  <2>3. Rest(z, h) /\ z.last_now = y.last_now /\ z.status = y.status /\ z.pc.unacked = y.pc.unacked
    BY <2>2, DrainKeeps
  <2> HIDE DEF z
  <2>4. WithinCap(x, z)
    BY <2>2, <2>3, NoMore DEF Rest
  <2> QED BY <2>1, <2>2, <2>3, <2>4 DEF Kept
<1> QED BY <1>1, <1>2

LEMMA ReceiveDeferredKeeps ==
    ASSUME now \in Nat, NEW x, NEW h \in Polled, Rest(x, h), x.last_now <= now, NEW d \in Datagram
    PROVE  Kept(x, receive_deferred(x, d), h)
<1>1. CASE x.finished
  BY <1>1, SameKept DEF receive_deferred
<1>2. CASE ~x.finished /\ ~x.opened
  <2>1. receive_deferred(x, d) = receive(x, d)
    BY <1>2 DEF receive_deferred
  <2> QED BY <2>1, ReceiveKeeps
<1>3. CASE ~x.finished /\ x.opened
  <2> DEFINE y == Fed(x, now, handle_read(x.pc, d))
             z == [y EXCEPT !.deferred = TRUE]
  <2>1. receive_deferred(x, d) = z
    BY <1>3 DEF receive_deferred, Fed, Rest, Tunnel
  <2>2. /\ y \in Tunnel /\ Linked(y.pc) /\ Traced(y) /\ Told(y, h)
        /\ y.last_now = now /\ y.status = x.status /\ Settled(y)
        /\ y.pc.unacked <= x.pc.unacked
    BY <1>3, DatagramFed
  <2> HIDE DEF y
  <2>3. z \in Tunnel
    BY <2>2, Zenon DEF Tunnel
  <2>4. Frame(y, z) /\ z.pc = y.pc /\ z.events = y.events
    BY <2>2 DEF Tunnel, Frame
  <2>5. z.opened = y.opened /\ z.finished = y.finished
    BY <2>2 DEF Tunnel
  <2>9. z.deferred = TRUE
    BY <2>2, Zenon DEF Tunnel
  <2> HIDE DEF z
  <2>6. Told(z, h)
    BY <2>2, <2>4, <2>5 DEF Told, Honest, Frame
  <2>7. Settled(z) /\ Traced(z)
    BY <2>2, <2>4, <2>5 DEF Settled, Noticed, Traced, Stages, Frame
  <2>8. Linked(z.pc) /\ z.last_now = now /\ z.status = x.status
    BY <2>2, <2>4 DEF Frame
  <2>10. WithinCap(x, z)
    BY <2>2, <2>3, <2>4, NoMore DEF Rest
  <2> QED BY <2>1, <2>3, <2>6, <2>7, <2>8, <2>9, <2>10 DEF Kept, Rest, Batched
<1> QED BY <1>1, <1>2, <1>3

LEMMA FinishInputBatchKeeps ==
    ASSUME NEW x, NEW h \in Polled, Rest(x, h), x.last_now <= now
    PROVE  Kept(x, finish_input_batch(x), h)
<1>1. CASE x.finished \/ ~x.opened
  BY <1>1, SameKept DEF finish_input_batch
<1>2. CASE ~x.finished /\ x.opened
  <2> DEFINE z == drain(x)
  <2>1. finish_input_batch(x) = z
    BY <1>2 DEF finish_input_batch
  <2>2. x \in Tunnel /\ Linked(x.pc) /\ Ready(x) /\ Traced(x) /\ Told(x, h)
    BY <1>2 DEF Rest, Settled, Ready
  <2>3. Rest(z, h) /\ z.last_now = x.last_now /\ z.status = x.status /\ z.pc.unacked = x.pc.unacked
    BY <2>2, DrainKeeps
  <2> HIDE DEF z
  <2>4. WithinCap(x, z)
    BY <2>2, <2>3, NoMore DEF Rest
  <2> QED BY <2>1, <2>3, <2>4 DEF Kept
<1> QED BY <1>1, <1>2

LEMMA TickKeeps ==
    ASSUME now \in Nat, NEW x, NEW h \in Polled, Rest(x, h), x.last_now <= now, NEW what
    PROVE  Kept(x, tick(x, what), h)
<1>1. CASE x.finished
  BY <1>1, SameKept DEF tick
<1>2. CASE ~x.finished
  <2> DEFINE p == x.pc
             r == handle_timeout(p, what)
             y == Fed(x, now, r)
             f == finish(y, "Timeout")
             g == drain(y)
  <2>1. tick(x, what) = IF ~y.opened /\ now >= y.handshake_deadline THEN f ELSE g
    BY <1>2 DEF tick, Fed, Rest, Tunnel
  <2>2. x \in Tunnel /\ p \in PeerConnection /\ Linked(p) /\ Settled(x) /\ Traced(x)
    BY DEF Rest, Tunnel
  <2>11. p.channel = "connecting" => p.sctpEv = <<>>
    BY <2>2 DEF Settled, Noticed
  <2>3. r \in PeerConnection /\ Linked(r) /\ TimeoutFrame(p, r) /\ DataFrame(p, r)
    BY <2>2, <2>11, TimeoutKeeps
  <2> HIDE DEF r
  <2>9. Flow(x.events, r, x.finished, h)
    BY <2>2, <2>3, FlowFed DEF Rest, Told
  <2>4. /\ y \in Tunnel /\ Told(y, h) /\ Stages(y) /\ y.pc = r /\ y.last_now = now
        /\ (y.opened <=> x.opened) /\ (y.finished <=> x.finished)
        /\ y.status = x.status /\ y.handshake_deadline = x.handshake_deadline
        /\ y.ice_ms = x.ice_ms /\ y.dtls_ms = x.dtls_ms /\ y.opened_ms = x.opened_ms
    BY <2>3, <2>9, FedKeeps
  <2> HIDE DEF y
  <2>10. y.pc.unacked <= x.pc.unacked
    BY <2>3, <2>4 DEF DataFrame
  <2>5. Traced(y) /\ Linked(y.pc)
    BY <2>2, <2>3, <2>4 DEF Traced, TimeoutFrame
  <2>6. Noticed(y) /\ (~y.opened => y.pc.sctpEv = <<>>)
    BY <2>2, <2>3, <2>4 DEF Noticed, Settled, TimeoutFrame, Associated
  <2>7. CASE ~y.opened /\ now >= y.handshake_deadline
    <3>1. "Timeout" \in CloseReasons
      BY DEF CloseReasons
    <3>2. /\ f \in Tunnel /\ Told(f, h) /\ Frame(y, f) /\ f.pc = y.pc
          /\ (f.opened <=> y.opened) /\ f.finished
      BY <2>4, <2>7, <3>1, FinishKeeps
    <3>3. tick(x, what) = f
      BY <2>1, <2>7
    <3> HIDE DEF f
    <3>4. Settled(f) /\ Traced(f)
      BY <2>5, <2>6, <3>2 DEF Settled, Noticed, Traced, Stages, Frame
    <3>5. f.last_now = now /\ f.status = x.status
      BY <2>4, <3>2 DEF Frame
    <3>6. WithinCap(x, f)
      BY <2>2, <2>10, <3>2, NoMore
    <3> QED BY <2>5, <3>2, <3>3, <3>4, <3>5, <3>6 DEF Kept, Rest, Batched
  <2>8. CASE ~(~y.opened /\ now >= y.handshake_deadline)
    <3>1. tick(x, what) = g
      BY <2>1, <2>8
    <3>2. Ready(y)
      BY <1>2, <2>4, <2>6 DEF Ready
    <3>3. Rest(g, h) /\ g.last_now = y.last_now /\ g.status = y.status /\ g.pc.unacked = y.pc.unacked
      BY <2>4, <2>5, <3>2, DrainKeeps
    <3> HIDE DEF g
    <3>4. WithinCap(x, g)
      BY <2>2, <2>10, <3>3, NoMore DEF Rest
    <3> QED BY <2>4, <3>1, <3>3, <3>4 DEF Kept
  <2> QED BY <2>7, <2>8
<1> QED BY <1>1, <1>2

\* What is charged, with a byte for each empty message, covers what SCTP holds.
LEMMA OwedCovered ==
    ASSUME NEW p \in PeerConnection, Owing(p), p.channel # "gone"
    PROVE  p.unacked <= p.outstanding + p.empties
<1>1. PICK b : Ledger(b, p)
  BY DEF Owing
<1> DEFINE w == Notices(p)
           n == Len(w)
           G == [i \in 0..n |-> 0..b[0]]
           o == p.outstanding + p.empties
<1>2. w \in Seq(Notice)
  <2>1. p.sctpEv \in Seq(Notice) /\ p.assocEv \in Seq(Notice)
    BY DEF PeerConnection
  <2> QED BY <2>1, ConcatProperties DEF Notices
<1>3. /\ b \in [0..n -> Nat] /\ b[0] <= o /\ p.unacked <= b[n]
      /\ \A i \in 1..n : b[i] + Freed(w[i]) <= b[i - 1]
  BY <1>1 DEF Ledger, Covers
<1>10. p.unacked \in Nat /\ o \in Nat
  BY DEF PeerConnection
<1> HIDE DEF w, o
<1>4. n \in Nat /\ \A i \in 1..n : Freed(w[i]) \in Nat
  BY <1>2, FreedIsNat
<1> HIDE DEF n
<1>5. b[0] \in Nat /\ b[0] \in 0..b[0]
  BY <1>3, <1>4
<1>6. ASSUME NEW i \in 1..n, b[i - 1] \in 0..b[0] PROVE b[i] \in 0..b[0]
  <2>1. i \in 0..n /\ i - 1 \in 0..n
    BY <1>4
  <2>2. b[i] \in Nat /\ b[i - 1] \in Nat /\ Freed(w[i]) \in Nat
    BY <1>3, <1>4, <2>1
  <2> QED BY <1>3, <1>5, <1>6, <2>2
<1>7. b[0] \in G[0] /\ \A i \in 1..n : b[i - 1] \in G[i - 1] => b[i] \in G[i]
  BY <1>4, <1>5, <1>6
<1>8. b[n] \in G[n]
  <2> HIDE DEF G
  <2> QED BY <1>4, <1>7, RoundByRound
<1>9. b[n] \in 0..b[0]
  BY <1>4, <1>8
<1>11. p.unacked <= o
  BY <1>3, <1>5, <1>9, <1>10
<1> QED BY <1>11 DEF o

LEMMA CoversRaised ==
    ASSUME NEW w \in Seq(Notice), NEW charged \in Nat, NEW held \in Nat, NEW b,
           Covers(b, w, charged, held), NEW g \in Nat, NEW k \in 0..g
    PROVE  \E c : Covers(c, w, charged + g, held + k)
<1> DEFINE n == Len(w)
           c == [i \in 0..n |-> b[i] + k]
<1>1. /\ b \in [0..n -> Nat] /\ b[0] <= charged /\ held <= b[n]
      /\ \A i \in 1..n : b[i] + Freed(w[i]) <= b[i - 1]
  BY DEF Covers
<1>2. n \in Nat /\ \A i \in 1..n : Freed(w[i]) \in Nat
  BY FreedIsNat
<1> HIDE DEF n
<1>3. c \in [0..n -> Nat]
  BY <1>1
<1>4. c[0] <= charged + g
  <2>1. c[0] = b[0] + k /\ b[0] \in Nat
    BY <1>1, <1>2
  <2> QED BY <1>1, <2>1
<1>5. held + k <= c[n]
  <2>1. c[n] = b[n] + k /\ b[n] \in Nat
    BY <1>1, <1>2
  <2> QED BY <1>1, <2>1
<1>6. ASSUME NEW i \in 1..n PROVE c[i] + Freed(w[i]) <= c[i - 1]
  <2>1. i \in 0..n /\ i - 1 \in 0..n
    BY <1>2
  <2>2. c[i] = b[i] + k /\ c[i - 1] = b[i - 1] + k /\ b[i] \in Nat /\ b[i - 1] \in Nat
    BY <1>1, <2>1
  <2> HIDE DEF c
  <2> QED BY <1>1, <1>2, <2>2
<1> HIDE DEF c
<1>7. Covers(c, w, charged + g, held + k)
  BY <1>3, <1>4, <1>5, <1>6 DEF Covers, n
<1> QED BY <1>7

\* A message is charged whether SCTP takes it or not.
LEMMA OwedGrows ==
    ASSUME NEW p \in PeerConnection, NEW q, Owing(p), q.sctpEv = p.sctpEv, q.assocEv = p.assocEv,
           q.channel = p.channel, NEW g \in Nat, NEW k \in 0..g,
           q.outstanding + q.empties = p.outstanding + p.empties + g, q.unacked = p.unacked + k
    PROVE  Owing(q)
<1> SUFFICES ASSUME p.channel # "gone" PROVE \E c : Ledger(c, q)
  BY DEF Owing
<1>1. PICK b : Ledger(b, p)
  BY DEF Owing
<1> DEFINE w == Notices(p)
           o == p.outstanding + p.empties
           u == p.unacked
<1>2. w \in Seq(Notice)
  <2>1. p.sctpEv \in Seq(Notice) /\ p.assocEv \in Seq(Notice)
    BY DEF PeerConnection
  <2> QED BY <2>1, ConcatProperties DEF Notices
<1>3. o \in Nat /\ u \in Nat
  BY DEF PeerConnection
<1>4. Covers(b, w, o, u)
  BY <1>1 DEF Ledger
<1>5. Notices(q) = w /\ q.outstanding + q.empties = o + g /\ q.unacked = u + k
  BY DEF Notices
<1> HIDE DEF w, o, u
<1>6. PICK c : Covers(c, w, o + g, u + k)
  BY <1>2, <1>3, <1>4, CoversRaised
<1>7. Ledger(c, q)
  BY <1>5, <1>6 DEF Ledger
<1> QED BY <1>7

\* What send does to the peer connection.
LEMMA WriteKeeps ==
    ASSUME NEW p \in PeerConnection, Linked(p), NEW len \in Nat, Owing(p)
    PROVE  LET q == Write([p EXCEPT !.outstanding = @ + len], len) IN
           /\ q \in PeerConnection /\ Linked(q) /\ Owing(q)
           /\ q.ice = p.ice /\ q.dtls = p.dtls /\ q.assoc = p.assoc /\ q.sctpEv = p.sctpEv
           /\ q.channel = p.channel /\ q.reads = p.reads /\ q.arrived = p.arrived
           /\ (q.iceEv <=> p.iceEv) /\ (q.dtlsEv <=> p.dtlsEv)
           /\ (q.note <=> p.note) /\ (q.onOpen <=> p.onOpen)
           /\ \/ q.unacked = p.unacked
              \/ q.unacked + p.empties = p.unacked + q.empties + len
<1> DEFINE q == Write([p EXCEPT !.outstanding = @ + len], len)
           wire == WireLength(len)
           refused == wire > BufferLength \/ p.assoc # "connected"
           o == p.outstanding + len
           k == IF refused THEN 0 ELSE wire
           j == IF refused \/ len # 0 THEN 0 ELSE 1
           u == p.unacked + k
           e == p.empties + j
           w == IF refused THEN p.out ELSE p.out + 1
<1> SUFFICES /\ q \in PeerConnection /\ Linked(q) /\ Owing(q)
             /\ q.ice = p.ice /\ q.dtls = p.dtls /\ q.assoc = p.assoc /\ q.sctpEv = p.sctpEv
             /\ q.channel = p.channel /\ q.reads = p.reads /\ q.arrived = p.arrived
             /\ (q.iceEv <=> p.iceEv) /\ (q.dtlsEv <=> p.dtlsEv)
             /\ (q.note <=> p.note) /\ (q.onOpen <=> p.onOpen)
             /\ \/ q.unacked = p.unacked
                \/ q.unacked + p.empties = p.unacked + q.empties + len
  OBVIOUS
<1>1. p.outstanding \in Nat /\ p.unacked \in Nat /\ p.empties \in Nat /\ p.out \in Nat
  BY DEF PeerConnection
<1>2. wire \in Nat /\ (len = 0 => wire = 1) /\ (len # 0 => wire = len)
  BY DEF WireLength
<1>3. /\ k \in Nat /\ j \in Nat /\ k <= len + j /\ (k = 0 \/ k = len + j)
  <2> HIDE DEF wire, refused
  <2> QED BY <1>2
<1>4. q = [p EXCEPT !.outstanding = o, !.unacked = u, !.out = w, !.empties = e]
  <2>1. CASE refused
    <3>1. q = [p EXCEPT !.outstanding = o]
      BY <2>1 DEF Write, PeerConnection
    <3>2. u = p.unacked /\ w = p.out /\ e = p.empties
      <4> HIDE DEF refused
      <4> QED BY <1>1, <2>1
    <3> HIDE DEF q, o, u, w, e
    <3> QED BY <3>1, <3>2 DEF PeerConnection
  <2>2. CASE ~refused
    <3> DEFINE y == p.unacked + wire
               x == p.out + 1
               z == IF len = 0 THEN p.empties + 1 ELSE p.empties
    <3>1. q = [p EXCEPT !.outstanding = o, !.unacked = y, !.out = x, !.empties = z]
      BY <2>2 DEF Write, PeerConnection
    <3>2. u = y /\ w = x /\ e = z
      <4> HIDE DEF refused, wire
      <4> QED BY <1>1, <2>2
    <3> HIDE DEF q, o, u, w, e, x, y, z
    <3> QED BY <3>1, <3>2
  <2> HIDE DEF refused
  <2> QED BY <2>1, <2>2
<1>5. o \in Nat /\ u \in Nat /\ w \in Nat /\ e \in Nat
  <2> HIDE DEF refused, j, k
  <2> QED BY <1>1, <1>3
<1>6. o = p.outstanding + len /\ u = p.unacked + k /\ e = p.empties + j
  OBVIOUS
<1> HIDE DEF q, o, u, w, e, j, k, refused
<1>7. q \in PeerConnection
  BY <1>4, <1>5, Zenon DEF PeerConnection
<1>8. /\ q.ice = p.ice /\ q.dtls = p.dtls /\ q.assoc = p.assoc /\ q.sctpEv = p.sctpEv
      /\ q.channel = p.channel /\ q.reads = p.reads /\ q.arrived = p.arrived
      /\ q.unread = p.unread /\ q.assocEv = p.assocEv
      /\ q.outstanding = o /\ q.unacked = u /\ q.empties = e
  BY <1>4 DEF PeerConnection
<1>9. /\ q.described = p.described /\ q.iceEv = p.iceEv /\ q.dtlsEv = p.dtlsEv
      /\ q.note = p.note /\ q.onOpen = p.onOpen
  BY <1>4 DEF PeerConnection
<1>10. Linked(q)
  BY <1>8, <1>9 DEF Linked, Chained, Idle, Associated
<1>11. Owing(q)
  <2> DEFINE g == len + j
  <2>1. g \in Nat /\ k \in 0..g
    BY <1>3
  <2>2. q.outstanding + q.empties = p.outstanding + p.empties + g
    BY <1>1, <1>3, <1>6, <1>8
  <2> HIDE DEF g
  <2> QED BY <1>6, <1>8, <2>1, <2>2, OwedGrows
<1>12. q.unacked = p.unacked \/ q.unacked + p.empties = p.unacked + q.empties + len
  BY <1>1, <1>3, <1>6, <1>8
<1> QED BY <1>7, <1>8, <1>9, <1>10, <1>11, <1>12

\* The channel is open only once the tunnel has noticed, so send never opens it.
LEMMA SendKeeps ==
    ASSUME NEW x, NEW h \in Polled, Rest(x, h), x.last_now <= now, NEW len \in Nat
    PROVE  Kept(x, send(x, len), h)
<1>1. x \in Tunnel /\ x.pc \in PeerConnection /\ Linked(x.pc) /\ Settled(x) /\ Traced(x) /\ Told(x, h)
  BY DEF Rest, Tunnel
<1>2. maybe_open(x) = x
  BY <1>1 DEF maybe_open, Settled, Noticed
<1>3. CASE send(x, len) = x
  BY <1>3, SameKept
<1>4. CASE /\ ~x.finished /\ x.opened /\ send(x, len) = Accept(x, len)
           /\ x.pc.channel = "open" /\ ~(x.pc.outstanding + len > x.send_buffer_cap)
  <2> DEFINE p == x.pc
             q == Write([p EXCEPT !.outstanding = @ + len], len)
             y == [x EXCEPT !.pc = q]
             z == drain(y)
  <2>1. Accept(x, len) = z
    BY DEF Accept
  <2>2. p \in PeerConnection /\ Linked(p) /\ Owing(p) /\ Flow(x.events, p, x.finished, h)
    BY <1>1 DEF Told, Flow
  <2>16. p = x.pc
    OBVIOUS
  <2> HIDE DEF p
  <2>4. q \in PeerConnection /\ Linked(q) /\ Owing(q)
    BY <2>2, WriteKeeps
  <2>5. /\ q.ice = p.ice /\ q.dtls = p.dtls /\ q.assoc = p.assoc /\ q.sctpEv = p.sctpEv
        /\ q.channel = p.channel /\ q.reads = p.reads /\ q.arrived = p.arrived
    BY <2>2, WriteKeeps
  <2>6. /\ (q.iceEv <=> p.iceEv) /\ (q.dtlsEv <=> p.dtlsEv)
        /\ (q.note <=> p.note) /\ (q.onOpen <=> p.onOpen)
    BY <2>2, WriteKeeps
  <2>7. q.unacked = p.unacked \/ q.unacked + p.empties = p.unacked + q.empties + len
    BY <2>2, WriteKeeps
  <2> HIDE DEF q
  <2>8. y \in Tunnel
    BY <1>1, <2>4, Zenon DEF Tunnel
  <2>9. Frame(x, y) /\ y.pc = q /\ y.events = x.events
    BY <1>1 DEF Tunnel, Frame
  <2>10. y.opened = x.opened /\ y.finished = x.finished
    BY <1>1 DEF Tunnel
  <2> HIDE DEF y
  <2>17. Flow(x.events, q, x.finished, h)
    <3>1. \A n : Follows(p, n) => Follows(q, n)
      BY <2>5 DEF Follows
    <3> QED BY <2>2, <2>4, <2>5, <3>1 DEF Flow
  <2>11. Told(y, h)
    BY <1>1, <2>9, <2>10, <2>17 DEF Told, Honest, Frame
  <2>12. Noticed(x) /\ x.pc = p
    BY <1>1 DEF Settled, p
  <2>13. Ready(y)
    BY <1>4, <2>5, <2>6, <2>9, <2>10, <2>12 DEF Noticed, Ready, Associated
  <2>14. Traced(y)
    BY <1>1, <2>5, <2>9, <2>10, <2>12 DEF Traced, Stages, Frame
  <2>15. /\ Rest(z, h) /\ z.last_now = y.last_now /\ z.status = y.status
         /\ z.pc.unacked = y.pc.unacked /\ z.pc.empties = y.pc.empties
         /\ z.send_buffer_cap = y.send_buffer_cap
    BY <2>4, <2>8, <2>9, <2>11, <2>13, <2>14, DrainKeeps
  <2> HIDE DEF z
  <2>18. q.unacked > p.unacked => q.unacked <= x.send_buffer_cap + q.empties
    <3>1. p.unacked <= p.outstanding + p.empties
      BY <1>4, <2>2, <2>16, OwedCovered
    <3>2. /\ p.unacked \in Nat /\ p.outstanding \in Nat /\ p.empties \in Nat
          /\ q.unacked \in Nat /\ q.empties \in Nat
      BY <2>2, <2>4 DEF PeerConnection
    <3>3. x.send_buffer_cap \in Nat /\ ~(p.outstanding + len > x.send_buffer_cap)
      BY <1>1, <1>4, <2>16, RtcAssumption DEF Tunnel
    <3> QED BY <2>7, <3>1, <3>2, <3>3
  <2>19. WithinCap(x, z)
    BY <2>9, <2>15, <2>16, <2>18 DEF WithinCap, Frame
  <2> QED BY <1>4, <2>1, <2>9, <2>15, <2>19 DEF Kept, Frame
<1> QED BY <1>2, <1>3, <1>4 DEF send, buffered_bytes

LEMMA SetCapKeeps ==
    ASSUME NEW x, NEW h \in Polled, Rest(x, h), x.last_now <= now, NEW cap \in Caps
    PROVE  Kept(x, [x EXCEPT !.send_buffer_cap = cap], h)
<1> DEFINE y == [x EXCEPT !.send_buffer_cap = cap]
<1>1. x \in Tunnel
  BY DEF Rest
<1>2. y \in Tunnel
  BY <1>1, Zenon DEF Tunnel
<1>3. /\ y.pc = x.pc /\ y.events = x.events
      /\ y.status = x.status /\ y.last_now = x.last_now /\ y.handshake_deadline = x.handshake_deadline
      /\ y.ice_ms = x.ice_ms /\ y.dtls_ms = x.dtls_ms
      /\ y.sctp_ms = x.sctp_ms /\ y.opened_ms = x.opened_ms
  BY <1>1 DEF Tunnel
<1>4. y.opened = x.opened /\ y.finished = x.finished /\ y.deferred = x.deferred
  BY <1>1 DEF Tunnel
<1> HIDE DEF y
<1>5. Told(y, h)
  BY <1>3, <1>4 DEF Rest, Told, Honest
<1>6. Settled(y) /\ Traced(y)
  BY <1>3, <1>4 DEF Rest, Settled, Noticed, Traced, Stages
<1>7. Linked(y.pc) /\ y.last_now <= now /\ y.status = x.status
  BY <1>3 DEF Rest
<1>9. Batched(y)
  BY <1>3, <1>4 DEF Rest, Batched
<1>10. WithinCap(x, y)
  BY <1>1, <1>2, <1>3, NoMore
<1>8. Kept(x, y, h)
  BY <1>2, <1>5, <1>6, <1>7, <1>9, <1>10 DEF Kept, Rest
<1> QED BY <1>8 DEF y

LEMMA CloseKeeps ==
    ASSUME NEW x, NEW h \in Polled, Rest(x, h), x.last_now <= now
    PROVE  Kept(x, close(x), h)
<1>1. CASE x.finished
  BY <1>1, SameKept DEF close
<1>2. CASE ~x.finished
  <2> DEFINE p == x.pc
             q == [p EXCEPT !.state = "closed"]
             y == [x EXCEPT !.pc = q]
             z == finish(y, "Local")
  <2>1. close(x) = z
    BY <1>2 DEF close, Rest, Tunnel, PeerConnection
  <2>2. x \in Tunnel /\ p \in PeerConnection /\ Linked(p)
    BY DEF Rest, Tunnel
  <2>3. "closed" \in ConnectionStates /\ "Local" \in CloseReasons
    BY DEF ConnectionStates, CloseReasons
  <2>4. q \in PeerConnection
    BY <2>2, <2>3, Zenon DEF PeerConnection
  <2>5. /\ q.ice = p.ice /\ q.dtls = p.dtls /\ q.assoc = p.assoc /\ q.sctpEv = p.sctpEv
        /\ q.channel = p.channel /\ q.reads = p.reads
        /\ q.unread = p.unread /\ q.assocEv = p.assocEv
    BY <2>2 DEF PeerConnection
  <2>6. /\ q.described = p.described /\ q.iceEv = p.iceEv /\ q.dtlsEv = p.dtlsEv
        /\ q.note = p.note /\ q.onOpen = p.onOpen
    BY <2>2 DEF PeerConnection
  <2> HIDE DEF q
  <2>7. Linked(q)
    BY <2>2, <2>5, <2>6 DEF Linked, Chained, Idle, Associated
  <2>17. SameData(p, q)
    BY <2>2 DEF SameData, PeerConnection, q
  <2>18. Flow(x.events, q, x.finished, h)
    BY <2>17, FlowKept DEF Rest, Told
  <2>8. y \in Tunnel
    BY <2>2, <2>4, Zenon DEF Tunnel
  <2>9. Frame(x, y) /\ y.pc = q /\ y.events = x.events
    BY <2>2 DEF Tunnel, Frame
  <2>10. y.opened = x.opened /\ y.finished = x.finished
    BY <2>2 DEF Tunnel
  <2> HIDE DEF y
  <2>11. Told(y, h)
    BY <2>9, <2>10, <2>18 DEF Rest, Told, Honest, Frame
  <2>12. /\ z \in Tunnel /\ Told(z, h) /\ Frame(y, z) /\ z.pc = q
         /\ (z.opened <=> x.opened) /\ z.finished
    BY <2>3, <2>8, <2>9, <2>10, <2>11, FinishKeeps
  <2> HIDE DEF z
  <2>13. Settled(x) /\ Traced(x)
    BY DEF Rest
  <2>14. Settled(z)
    BY <2>5, <2>6, <2>12, <2>13 DEF Settled, Noticed, Associated
  <2>15. Traced(z)
    BY <2>5, <2>9, <2>10, <2>12, <2>13 DEF Traced, Stages, Frame
  <2>16. z.last_now <= now /\ z.status = x.status
    BY <2>9, <2>12 DEF Frame
  <2>19. WithinCap(x, z)
    BY <2>2, <2>12, <2>17, NoMore DEF SameData
  <2> QED BY <2>1, <2>7, <2>12, <2>14, <2>15, <2>16, <2>19 DEF Kept, Rest, Batched
<1> QED BY <1>1, <1>2

-----------------------------------------------------------------------------
(* The constructors.                                                       *)

LEMMA DescribedKeeps ==
    ASSUME NEW p \in PeerConnection, Linked(p)
    PROVE  LET q == set_remote_description(p) IN
           /\ q \in PeerConnection /\ Linked(q)
           /\ q.ice = p.ice /\ q.dtls = p.dtls /\ q.assoc = p.assoc /\ q.sctpEv = p.sctpEv
           /\ q.channel = p.channel /\ q.reads = p.reads
           /\ (q.iceEv <=> p.iceEv) /\ (q.dtlsEv <=> p.dtlsEv)
           /\ (q.note <=> p.note) /\ (q.onOpen <=> p.onOpen) /\ SameData(p, q)
<1> DEFINE q == set_remote_description(p)
           w == p.out + 1
<1>1. q = [p EXCEPT !.described = TRUE, !.out = w] /\ w \in Nat
  BY DEF set_remote_description, PeerConnection
<1> HIDE DEF q, w
<1>2. q \in PeerConnection
  BY <1>1, Zenon DEF PeerConnection
<1>3. /\ q.ice = p.ice /\ q.dtls = p.dtls /\ q.assoc = p.assoc /\ q.sctpEv = p.sctpEv
      /\ q.channel = p.channel /\ q.reads = p.reads
      /\ q.unread = p.unread /\ q.assocEv = p.assocEv
  BY <1>1 DEF PeerConnection
<1>4. q.iceEv = p.iceEv /\ q.dtlsEv = p.dtlsEv /\ q.note = p.note /\ q.onOpen = p.onOpen
  BY <1>1 DEF PeerConnection
<1>5. q.described = TRUE
  BY <1>1, Zenon DEF PeerConnection
<1>6. Linked(q)
  BY <1>3, <1>4, <1>5 DEF Linked, Chained, Idle, Associated
<1>7. SameData(p, q)
  BY <1>1 DEF SameData, PeerConnection
<1> QED BY <1>2, <1>3, <1>4, <1>6, <1>7 DEF q

LEMMA ApplyAnswerKeeps ==
    ASSUME NEW x, NEW h \in Polled, Rest(x, h), x.last_now <= now, ~x.pc.described
    PROVE  Kept(x, apply_remote_answer(x), h)
<1> DEFINE p == x.pc
           q == set_remote_description(p)
           y == [x EXCEPT !.pc = q]
           z == drain(y)
<1>1. apply_remote_answer(x) = z
  BY DEF apply_remote_answer
<1>2. x \in Tunnel /\ p \in PeerConnection /\ Linked(p) /\ Settled(x) /\ Traced(x)
  BY DEF Rest, Tunnel
<1>3. /\ q \in PeerConnection /\ Linked(q)
      /\ q.ice = p.ice /\ q.dtls = p.dtls /\ q.assoc = p.assoc /\ q.sctpEv = p.sctpEv
      /\ q.channel = p.channel /\ q.reads = p.reads
      /\ (q.iceEv <=> p.iceEv) /\ (q.dtlsEv <=> p.dtlsEv)
      /\ (q.note <=> p.note) /\ (q.onOpen <=> p.onOpen) /\ SameData(p, q)
  BY <1>2, DescribedKeeps
<1> HIDE DEF q
<1>11. Flow(x.events, q, x.finished, h)
  BY <1>3, FlowKept DEF Rest, Told
<1>4. y \in Tunnel
  BY <1>2, <1>3, Zenon DEF Tunnel
<1>5. Frame(x, y) /\ y.pc = q /\ y.events = x.events
  BY <1>2 DEF Tunnel, Frame
<1>6. y.opened = x.opened /\ y.finished = x.finished
  BY <1>2 DEF Tunnel
<1> HIDE DEF y
<1>7. Told(y, h)
  BY <1>5, <1>6, <1>11 DEF Rest, Told, Honest, Frame
<1>8. Ready(y)
  <2>1. p.ice = "checking" /\ ~p.iceEv
    BY <1>2 DEF Linked, Chained
  <2>2. Noticed(y)
    BY <1>2, <1>3, <1>5, <1>6 DEF Settled, Noticed, Associated
  <2> QED BY <1>2, <1>3, <1>5, <1>6, <2>1, <2>2 DEF Settled, Ready
<1>9. Traced(y)
  BY <1>2, <1>3, <1>5, <1>6 DEF Traced, Stages, Frame
<1>10. Rest(z, h) /\ z.last_now = y.last_now /\ z.status = y.status /\ z.pc.unacked = y.pc.unacked
  BY <1>3, <1>4, <1>5, <1>7, <1>8, <1>9, DrainKeeps
<1> HIDE DEF z
<1>12. WithinCap(x, z)
  BY <1>2, <1>3, <1>5, <1>10, NoMore DEF Rest, SameData
<1> QED BY <1>1, <1>5, <1>10, <1>12 DEF Kept, Frame

\* A host that has polled nothing which opens or ends the tunnel, and no message.
Fresh(h) ==
    h \in Polled /\ h.opens # 1 /\ h.closes # 1 /\ h.reason # "Timeout" /\ h.messages = 0

\* A tunnel as a constructor makes it, before its first drain.
Made(s) == [NewTunnel EXCEPT !.status = s]

LEMMA MadeKeeps ==
    ASSUME now \in Nat, NEW h, Fresh(h), NEW s \in {"none", "live", "refused"}
    PROVE  LET x == Made(s) IN
           /\ Rest(x, h) /\ Ready(x) /\ x.last_now = now /\ x.status = s
           /\ ~x.pc.described /\ ~x.opened /\ ~x.finished /\ x.pc.arrived = 0 /\ x.pc.unacked = 0
<1> DEFINE x == Made(s)
           p == NewConnection
<1>1. p \in PeerConnection
  BY DEF NewConnection, PeerConnection, ConnectionStates
<1>2. /\ p.ice = "checking" /\ p.dtls = "new" /\ p.assoc = "none" /\ p.sctpEv = <<>>
      /\ p.channel = "connecting" /\ p.reads = <<>>
      /\ p.arrived = 0 /\ p.outstanding = 0 /\ p.unacked = 0 /\ p.empties = 0
      /\ p.unread = <<>> /\ p.assocEv = <<>>
  BY DEF NewConnection
<1>3. /\ p.described = FALSE /\ p.iceEv = FALSE /\ p.dtlsEv = FALSE /\ p.note = FALSE /\ p.onOpen = FALSE
  BY DEF NewConnection
<1> DEFINE no == FALSE
<1>4. x = [ status |-> s, opened |-> no, finished |-> no, last_now |-> now,
              handshake_deadline |-> now + HandshakeTimeout,
              send_buffer_cap |-> DefaultCap, events |-> <<>>,
              ice_ms |-> NoTime, dtls_ms |-> NoTime, sctp_ms |-> NoTime, opened_ms |-> NoTime,
              deferred |-> no, pc |-> p ]
  <2> DEFINE w == [ status |-> "none", opened |-> no, finished |-> no, last_now |-> now,
              handshake_deadline |-> now + HandshakeTimeout,
              send_buffer_cap |-> DefaultCap, events |-> <<>>,
              ice_ms |-> NoTime, dtls_ms |-> NoTime, sctp_ms |-> NoTime, opened_ms |-> NoTime,
              deferred |-> no, pc |-> p ]
  <2>1. NewTunnel = w
    BY DEF NewTunnel
  <2> HIDE DEF no, p
  <2>2. x = [w EXCEPT !.status = s]
    BY <2>1 DEF Made
  <2> QED BY <2>2
<1> HIDE DEF x, p
<1>5. /\ x.status = s /\ x.last_now = now /\ x.events = <<>> /\ x.pc = p
      /\ x.ice_ms = NoTime /\ x.dtls_ms = NoTime /\ x.sctp_ms = NoTime /\ x.opened_ms = NoTime
  BY <1>4
<1>6. x.opened = FALSE /\ x.finished = FALSE
  BY <1>4
<1>7. x \in Tunnel
  <2>1. now + HandshakeTimeout \in Nat /\ DefaultCap \in Caps /\ NoTime \in Stage /\ <<>> \in Seq(Event)
    BY RtcAssumption DEF Stage
  <2>2. s \in {"none", "live", "refused"} /\ now \in Nat /\ FALSE \in BOOLEAN
    OBVIOUS
  <2> QED BY <1>1, <1>4, <2>1, <2>2 DEF Tunnel
<1>8. Linked(p) /\ Noticed(x)
  BY <1>2, <1>3, <1>5, <1>6 DEF Linked, Chained, Idle, Associated, Noticed
<1>9. Settled(x) /\ Ready(x)
  BY <1>2, <1>3, <1>5, <1>6, <1>8 DEF Settled, Ready
<1>10. Traced(x)
  BY <1>2, <1>5, <1>6 DEF Traced, Stages, NoTime
<1>12. Flow(<<>>, p, FALSE, h)
  <2> DEFINE b == [i \in 0..0 |-> 0]
             e == <<>>
  <2>1. b \in [0..0 -> Nat] /\ b[0] = 0
    OBVIOUS
  <2> HIDE DEF b
  <2>2. Len(p.sctpEv) = 0 /\ Len(p.reads) = 0 /\ DOMAIN p.reads = {}
    BY <1>2
  <2>8. Notices(p) = <<>>
    BY <1>2 DEF Notices
  <2>9. Len(Notices(p)) = 0 /\ p.outstanding + p.empties = 0
    BY <1>2, <2>8
  <2>3. Ledger(b, p)
    BY <1>2, <2>1, <2>9 DEF Ledger, Covers
  <2>4. Owing(p)
    BY <2>3 DEF Owing
  <2>5. e \in Seq(Event) /\ \A i \in DOMAIN e : ~IsMessage(e[i])
    OBVIOUS
  <2> HIDE DEF e
  <2>6. Counts(e, h.messages, 0) /\ Follows(p, 0)
    BY <1>2, <2>2, <2>5, CountsNone DEF Fresh, Follows
  <2>7. Flow(e, p, FALSE, h)
    BY <1>2, <2>4, <2>6 DEF Flow
  <2> QED BY <2>7 DEF e
<1>11. Told(x, h)
  <2>1. Lawful(x.events, x.opened, x.finished, h) /\ Honest(x, h)
    BY <1>5, <1>6 DEF Lawful, Honest, TimedOut, Fresh
  <2> QED BY <1>5, <1>6, <1>12, <2>1 DEF Told
<1>13. Batched(x)
  BY <1>2, <1>5 DEF Batched
<1> QED BY <1>2, <1>3, <1>5, <1>6, <1>7, <1>8, <1>9, <1>10, <1>11, <1>13 DEF Rest, x

LEMMA OffererKeeps ==
    ASSUME now \in Nat, NEW h, Fresh(h), NEW config
    PROVE  LET y == offerer(config) IN
           /\ Rest(y, h) /\ y.last_now = now /\ y.status # "none" /\ ~y.pc.described
           /\ y.pc.unacked = 0
<1> DEFINE y == offerer(config)
           live == Made("live")
           refused == Made("refused")
           z == drain(live)
<1>1. y = IF config = "stream" THEN refused ELSE z
  BY DEF offerer, Refused, Made
<1>2. /\ Rest(live, h) /\ Ready(live) /\ live.last_now = now /\ live.status = "live" /\ ~live.pc.described
      /\ Rest(refused, h) /\ refused.last_now = now /\ refused.status = "refused" /\ ~refused.pc.described
      /\ live.pc.unacked = 0 /\ refused.pc.unacked = 0
  BY MadeKeeps
<1> HIDE DEF live, refused, y
<1>3. /\ Rest(z, h) /\ z.last_now = live.last_now /\ z.status = live.status
      /\ (z.pc.described <=> live.pc.described) /\ z.pc.unacked = live.pc.unacked
  BY <1>2, DrainKeeps DEF Rest, Fresh
<1> HIDE DEF z
<1>4. Rest(y, h) /\ y.last_now = now /\ y.status # "none" /\ ~y.pc.described /\ y.pc.unacked = 0
  BY <1>1, <1>2, <1>3
<1> QED BY <1>4 DEF y

\* Whatever a constructor returns is at rest.
LEMMA BuildKeeps ==
    ASSUME now \in Nat, NEW h, Fresh(h), NEW config, NEW y,
           y = new(config) \/ y = offerer(config) \/ y = answerer(config)
    PROVE  /\ Rest(y, h) /\ y.last_now <= now /\ y.status # "none"
           /\ y.pc.unacked > 0 => y.pc.unacked <= y.send_buffer_cap + y.pc.empties
<1> DEFINE o == offerer(config)
           live == Made("live")
           refused == Made("refused")
<1>1. h \in Polled /\ now <= now
  BY DEF Fresh
<1>2. Rest(o, h) /\ o.last_now = now /\ o.status # "none" /\ ~o.pc.described /\ o.pc.unacked = 0
  BY OffererKeeps
<1>3. /\ Rest(live, h) /\ live.last_now = now /\ live.status = "live" /\ ~live.pc.described
      /\ Rest(refused, h) /\ refused.last_now = now /\ refused.status = "refused"
      /\ live.pc.unacked = 0 /\ refused.pc.unacked = 0
  BY MadeKeeps
<1>4. /\ new(config) = IF config # "none" THEN refused ELSE apply_remote_answer(o)
      /\ Refused = refused
  BY DEF new, Refused, Made
<1>5. answerer(config) = IF config \in {"stream", "sdp"} THEN refused ELSE apply_remote_answer(live)
  <2>1. [NewTunnel EXCEPT !.status = "live", !.pc = set_remote_description(@)]
        = [live EXCEPT !.pc = set_remote_description(@)]
    BY DEF Made, NewTunnel
  <2> HIDE DEF live
  <2> QED BY <1>4, <2>1 DEF answerer, apply_remote_answer
<1> HIDE DEF o, live, refused
<1>6. Kept(o, apply_remote_answer(o), h) /\ Kept(live, apply_remote_answer(live), h)
  BY <1>1, <1>2, <1>3, ApplyAnswerKeeps
<1>7. CASE y = new(config)
  BY <1>1, <1>2, <1>3, <1>4, <1>6, <1>7 DEF Kept, WithinCap
<1>8. CASE y = offerer(config)
  BY <1>1, <1>2, <1>8 DEF o
<1>9. CASE y = answerer(config)
  BY <1>1, <1>3, <1>5, <1>6, <1>9 DEF Kept, WithinCap
<1> QED BY <1>7, <1>8, <1>9

-----------------------------------------------------------------------------
(* poll_event.                                                             *)

LEMMA TailFacts ==
    ASSUME NEW S, NEW a \in Seq(S), a # <<>>
    PROVE  /\ Tail(a) \in Seq(S) /\ Head(a) = a[1] /\ 1 \in DOMAIN a /\ a[1] \in S
           /\ \A i \in DOMAIN Tail(a) : i \in Nat /\ i + 1 \in DOMAIN a /\ Tail(a)[i] = a[i + 1] /\ 1 < i + 1
           /\ \A i \in DOMAIN a : i = 1 \/ (i - 1 \in DOMAIN Tail(a) /\ Tail(a)[i - 1] = a[i])
<1> DEFINE c == Tail(a)
           m == Len(a)
<1>1. m \in Nat /\ m # 0 /\ DOMAIN a = 1..m
  OBVIOUS
<1>2. c \in Seq(S) /\ Len(c) = m - 1 /\ Head(a) = a[1]
  OBVIOUS
<1>3. \A i \in 1..(m - 1) : c[i] = a[i + 1]
  OBVIOUS
<1>4. \A i \in 1..m : a[i] \in S
  OBVIOUS
<1> HIDE DEF c, m
<1>5. DOMAIN c = 1..(m - 1)
  BY <1>1, <1>2
<1>6. /\ \A i \in 1..(m - 1) : i \in Nat /\ i + 1 \in 1..m /\ 1 < i + 1
      /\ \A i \in 1..m : i = 1 \/ (i - 1 \in 1..(m - 1) /\ (i - 1) + 1 = i)
      /\ 1 \in 1..m
  BY <1>1
<1> QED BY <1>1, <1>2, <1>3, <1>4, <1>5, <1>6 DEF c

\* What the host notes of an event it polls.
Hears(h, k, e) ==
    /\ e.kind = "SendDatagram" => k = h
    /\ e.kind = "Opened"  => k = [h EXCEPT !.opens = @ + 1]
    /\ e.kind = "Message" => k = [h EXCEPT !.messages = @ + 1]
    /\ e.kind = "Closed"  => k = [h EXCEPT !.closes = @ + 1, !.reason = e.reason]

\* The contract's step for that event.
Heard(h, k) ==
    \/ k = h
    \/ /\ h.opens = 0 /\ h.closes = 0 /\ k.opens = 1
       /\ k.messages = h.messages /\ k.closes = h.closes /\ k.reason = h.reason
    \/ /\ h.opens = 1 /\ h.closes = 0 /\ k.messages = h.messages + 1
       /\ k.opens = h.opens /\ k.closes = h.closes /\ k.reason = h.reason
    \/ /\ h.closes = 0 /\ k.closes = 1 /\ k.reason \in CloseReasons
       /\ k.reason = "Timeout" => h.opens = 0
       /\ k.opens = h.opens /\ k.messages = h.messages

LEMMA PollKeeps ==
    ASSUME NEW ev \in Seq(Event), ev # <<>>, NEW opened, NEW finished,
           NEW h \in Polled, Lawful(ev, opened, finished, h),
           TimedOut(ev, h) => ~opened, NEW k, Hears(h, k, ev[1])
    PROVE  /\ k \in Polled /\ Tail(ev) \in Seq(Event) /\ Lawful(Tail(ev), opened, finished, k)
           /\ TimedOut(Tail(ev), k) => TimedOut(ev, h)
           /\ Heard(h, k)
           /\ k.messages = (IF IsMessage(ev[1]) THEN h.messages + 1 ELSE h.messages)
<1> DEFINE es == Tail(ev)
           e == ev[1]
<1>1. /\ es \in Seq(Event) /\ 1 \in DOMAIN ev /\ e \in Event
      /\ \A i \in DOMAIN es : i \in Nat /\ i + 1 \in DOMAIN ev /\ es[i] = ev[i + 1] /\ 1 < i + 1
      /\ \A i \in DOMAIN ev : i = 1 \/ (i - 1 \in DOMAIN es /\ es[i - 1] = ev[i])
  BY TailFacts
<1>2. e.kind \in {"SendDatagram", "Opened", "Message", "Closed"} /\ e.reason \in CloseReasons \cup {"none"}
  BY <1>1 DEF Event
<1>3. /\ h.opens \in {0, 1} /\ h.closes \in {0, 1} /\ h.messages \in Nat
      /\ h.reason \in CloseReasons \cup {"none"}
  BY DEF Polled
<1>4. Hears(h, k, e)
  OBVIOUS
<1>5. /\ e.kind = "Opened" => h.opens = 0 /\ h.closes = 0
      /\ e.kind = "Closed" => h.closes = 0 /\ e.reason \in CloseReasons
      /\ e.kind = "Message" => opened /\ h.closes = 0
  BY <1>1 DEF Lawful
<1>6. /\ k \in Polled
      /\ k.opens = (IF e.kind = "Opened" THEN h.opens + 1 ELSE h.opens)
      /\ k.closes = (IF e.kind = "Closed" THEN h.closes + 1 ELSE h.closes)
      /\ k.messages = (IF e.kind = "Message" THEN h.messages + 1 ELSE h.messages)
      /\ k.reason = (IF e.kind = "Closed" THEN e.reason ELSE h.reason)
  <2>1. CASE e.kind = "SendDatagram"
    BY <1>4, <2>1 DEF Hears
  <2>2. CASE e.kind = "Opened"
    BY <1>3, <1>4, <1>5, <2>2 DEF Hears, Polled
  <2>3. CASE e.kind = "Message"
    BY <1>3, <1>4, <1>5, <2>3 DEF Hears, Polled
  <2>4. CASE e.kind = "Closed"
    <3> DEFINE why == e.reason
               c == h.closes + 1
    <3>1. k = [h EXCEPT !.closes = c, !.reason = why] /\ h.closes = 0 /\ why \in CloseReasons
      BY <1>4, <1>5, <2>4 DEF Hears
    <3>2. c = 1 /\ c \in {0, 1}
      BY <3>1
    <3> HIDE DEF why, c
    <3>3. k.opens = h.opens /\ k.closes = c /\ k.messages = h.messages /\ k.reason = why
      BY <3>1 DEF Polled
    <3>4. k \in Polled
      BY <3>1, <3>2 DEF Polled
    <3> QED BY <2>4, <3>3, <3>4 DEF why, c
  <2> QED BY <1>2, <2>1, <2>2, <2>3, <2>4
<1> HIDE DEF es, e
<1>0. /\ \A i \in DOMAIN es, j \in DOMAIN es : i < j => i + 1 < j + 1
      /\ e = ev[1]
  BY <1>1 DEF e
<1>7. ~(e.kind = "SendDatagram") => \A j \in DOMAIN es : es[j].kind # "Opened"
  <2> SUFFICES ASSUME NEW j \in DOMAIN es, es[j].kind = "Opened" PROVE e.kind = "SendDatagram"
    OBVIOUS
  <2>1. j + 1 \in DOMAIN ev /\ ev[j + 1].kind = "Opened" /\ 1 < j + 1
    BY <1>1
  <2> QED BY <1>0, <1>1, <2>1 DEF Lawful
<1>8. e.kind = "Closed" => \A j \in DOMAIN es : es[j].kind = "SendDatagram"
  BY <1>0, <1>1 DEF Lawful
<1>9. \A j \in DOMAIN es : es[j].kind = "Opened" =>
            k.opens = 0 /\ k.closes = 0 /\ \A i \in DOMAIN es : i < j => es[i].kind = "SendDatagram"
  <2> SUFFICES ASSUME NEW j \in DOMAIN es, es[j].kind = "Opened"
               PROVE  k.opens = 0 /\ k.closes = 0 /\ \A i \in DOMAIN es : i < j => es[i].kind = "SendDatagram"
    OBVIOUS
  <2>1. j + 1 \in DOMAIN ev /\ ev[j + 1].kind = "Opened" /\ e.kind = "SendDatagram"
    BY <1>1, <1>7
  <2>2. k.opens = h.opens /\ k.closes = h.closes
    BY <1>6, <2>1
  <2>3. h.opens = 0 /\ h.closes = 0 /\ \A i \in DOMAIN ev : i < j + 1 => ev[i].kind = "SendDatagram"
    BY <2>1 DEF Lawful
  <2>4. ASSUME NEW i \in DOMAIN es, i < j PROVE es[i].kind = "SendDatagram"
    BY <1>0, <1>1, <2>3, <2>4
  <2> QED BY <2>2, <2>3, <2>4
<1>10. \A i \in DOMAIN es : es[i].kind = "Closed" =>
            /\ k.closes = 0 /\ es[i].reason \in CloseReasons
            /\ \A j \in DOMAIN es : i < j => es[j].kind = "SendDatagram"
  <2> SUFFICES ASSUME NEW i \in DOMAIN es, es[i].kind = "Closed"
               PROVE  /\ k.closes = 0 /\ es[i].reason \in CloseReasons
                      /\ \A j \in DOMAIN es : i < j => es[j].kind = "SendDatagram"
    OBVIOUS
  <2>1. i + 1 \in DOMAIN ev /\ ev[i + 1] = es[i] /\ e.kind # "Closed"
    BY <1>1, <1>8
  <2>2. k.closes = h.closes
    BY <1>6, <2>1
  <2>3. /\ h.closes = 0 /\ ev[i + 1].reason \in CloseReasons
        /\ \A j \in DOMAIN ev : i + 1 < j => ev[j].kind = "SendDatagram"
    BY <2>1 DEF Lawful
  <2>4. ASSUME NEW j \in DOMAIN es, i < j PROVE es[j].kind = "SendDatagram"
    BY <1>0, <1>1, <2>3, <2>4
  <2> QED BY <2>1, <2>2, <2>3, <2>4
<1>11. \A i \in DOMAIN es : es[i].kind = "Message" => opened /\ k.closes = 0
  <2> SUFFICES ASSUME NEW i \in DOMAIN es, es[i].kind = "Message" PROVE opened /\ k.closes = 0
    OBVIOUS
  <2>1. i + 1 \in DOMAIN ev /\ ev[i + 1] = es[i] /\ e.kind # "Closed"
    BY <1>1, <1>8
  <2> QED BY <1>6, <2>1 DEF Lawful
<1>12. opened <=> (k.opens = 1 \/ \E i \in DOMAIN es : es[i].kind = "Opened")
  <2>1. (\E i \in DOMAIN ev : ev[i].kind = "Opened")
        <=> (e.kind = "Opened" \/ \E i \in DOMAIN es : es[i].kind = "Opened")
    BY <1>0, <1>1
  <2>2. opened <=> (h.opens = 1 \/ \E i \in DOMAIN ev : ev[i].kind = "Opened")
    BY DEF Lawful
  <2>3. k.opens = 1 <=> h.opens = 1 \/ e.kind = "Opened"
    BY <1>3, <1>5, <1>6
  <2> QED BY <2>1, <2>2, <2>3
<1>13. finished <=> (k.closes = 1 \/ \E i \in DOMAIN es : es[i].kind = "Closed")
  <2>1. (\E i \in DOMAIN ev : ev[i].kind = "Closed")
        <=> (e.kind = "Closed" \/ \E i \in DOMAIN es : es[i].kind = "Closed")
    BY <1>0, <1>1
  <2>2. finished <=> (h.closes = 1 \/ \E i \in DOMAIN ev : ev[i].kind = "Closed")
    BY DEF Lawful
  <2>3. k.closes = 1 <=> h.closes = 1 \/ e.kind = "Closed"
    BY <1>3, <1>5, <1>6
  <2> QED BY <2>1, <2>2, <2>3
<1>14. Lawful(es, opened, finished, k)
  BY <1>9, <1>10, <1>11, <1>12, <1>13 DEF Lawful
<1>15. TimedOut(es, k) => TimedOut(ev, h)
  BY <1>0, <1>1, <1>6 DEF TimedOut
<1>16. Heard(h, k)
  <2>1. CASE e.kind = "SendDatagram"
    BY <1>4, <2>1 DEF Hears, Heard
  <2>2. CASE e.kind = "Opened"
    BY <1>5, <1>6, <2>2 DEF Heard
  <2>3. CASE e.kind = "Message"
    <3>1. ~\E i \in DOMAIN ev : ev[i].kind = "Opened"
      BY <1>0, <1>1, <1>7, <2>3
    <3>2. h.opens = 1
      BY <1>5, <2>3, <3>1 DEF Lawful
    <3> QED BY <1>5, <1>6, <2>3, <3>2 DEF Heard
  <2>4. CASE e.kind = "Closed"
    <3>1. e.reason = "Timeout" => ~opened
      BY <1>0, <1>1, <2>4 DEF TimedOut
    <3>2. h.opens = 1 => opened
      BY DEF Lawful
    <3> QED BY <1>3, <1>5, <1>6, <2>4, <3>1, <3>2 DEF Heard
  <2> QED BY <1>2, <2>1, <2>2, <2>3, <2>4
<1>17. k.messages = (IF IsMessage(ev[1]) THEN h.messages + 1 ELSE h.messages)
  BY <1>6 DEF IsMessage, e
<1> QED BY <1>1, <1>6, <1>14, <1>15, <1>16, <1>17 DEF es

LEMMA FlowPolled ==
    ASSUME NEW ev, NEW p, NEW finished, NEW h \in Polled, Flow(ev, p, finished, h), ev # <<>>,
           NEW k, k.messages = (IF IsMessage(ev[1]) THEN h.messages + 1 ELSE h.messages)
    PROVE  Flow(Tail(ev), p, finished, k)
<1>1. PICK last \in Nat : /\ Counts(ev, h.messages, last) /\ last <= p.arrived
                          /\ ~finished => Follows(p, last)
  BY DEF Flow
<1>2. Counts(Tail(ev), k.messages, last)
  BY <1>1, CountsTail
<1> QED BY <1>1, <1>2 DEF Flow

-----------------------------------------------------------------------------
(* The invariant, and what follows from it.                                *)

LEMMA InitInv == Init => Inv
<1> SUFFICES ASSUME Init PROVE Inv
  OBVIOUS
<1> DEFINE x == Made("none")
<1>1. now = 0 /\ inputs = 0 /\ sends = 0
  BY DEF Init
<1>2. host = [opens |-> 0, messages |-> 0, closes |-> 0, reason |-> "none"]
  BY DEF Init
<1>3. Fresh(host) /\ host \in Polled
  BY <1>2 DEF Fresh, Polled
<1>4. t = x
  <2> DEFINE no == FALSE
             p == NewConnection
             w == [ status |-> "none", opened |-> no, finished |-> no, last_now |-> now,
                    handshake_deadline |-> now + HandshakeTimeout,
                    send_buffer_cap |-> DefaultCap, events |-> <<>>,
                    ice_ms |-> NoTime, dtls_ms |-> NoTime, sctp_ms |-> NoTime, opened_ms |-> NoTime,
                    deferred |-> no, pc |-> p ]
  <2>1. NewTunnel = w
    BY DEF NewTunnel
  <2> HIDE DEF no, p
  <2>2. [w EXCEPT !.status = "none"] = w
    OBVIOUS
  <2> QED BY <2>1, <2>2 DEF Init, Made
<1>5. Rest(x, host) /\ x.last_now = now /\ ~x.opened /\ ~x.finished /\ x.pc.arrived = 0
  BY <1>1, <1>3, MadeKeeps
<1> HIDE DEF x
<1>6. t \in Tunnel
  BY <1>4, <1>5 DEF Rest
<1>7. TypeOK /\ t.last_now <= now
  BY <1>1, <1>4, <1>5, <1>6, RtcAssumption DEF TypeOK
<1> QED BY <1>3, <1>4, <1>5, <1>7 DEF Inv

\* A call of the host.
LEMMA CallInv ==
    ASSUME Inv, NEW y, Call(y), Kept(t, y, host), inputs' \in 0..MaxInputs, sends' \in 0..MaxSends
    PROVE  Inv' /\ host' = host /\ WithinCap(t, t')
<1>1. t' = y /\ host' = host /\ now' = now /\ t.status = "live"
  BY DEF Call
<1>2. Rest(t', host') /\ t'.last_now <= now' /\ t'.status = "live" /\ WithinCap(t, t')
  BY <1>1 DEF Kept
<1>3. t' \in Tunnel
  BY <1>2 DEF Rest
<1> QED BY <1>1, <1>2, <1>3 DEF Inv, TypeOK

LEMMA StepInv == Inv /\ [Next]_vars => Inv' /\ Heard(host, host') /\ WithinCap(t, t')
<1> SUFFICES ASSUME Inv, [Next]_vars PROVE Inv' /\ Heard(host, host') /\ WithinCap(t, t')
  OBVIOUS
<1>0. t \in Tunnel /\ t.pc \in PeerConnection /\ t.pc.unacked \in Nat
  BY DEF Inv, Rest, Tunnel, PeerConnection
<1>1. /\ host \in Polled /\ Rest(t, host) /\ t.last_now <= now
      /\ now \in Nat /\ inputs \in 0..MaxInputs /\ sends \in 0..MaxSends
  BY RtcAssumption DEF Inv, TypeOK
<1>2. MaxInputs \in Nat /\ MaxSends \in Nat /\ MaxTime \in Nat /\ Sizes \subseteq Nat
      /\ \A d \in Datagrams : d \in Datagram
  BY RtcAssumption
<1>3. ASSUME NEW y, Call(y), Kept(t, y, host), inputs' \in 0..MaxInputs, sends' \in 0..MaxSends
      PROVE  Inv' /\ Heard(host, host') /\ WithinCap(t, t')
  BY <1>3, CallInv DEF Heard
<1>4. ASSUME New \/ Offerer \/ Answerer PROVE Inv' /\ Heard(host, host') /\ WithinCap(t, t')
  <2>1. PICK config \in Configs : Build(new(config)) \/ Build(offerer(config)) \/ Build(answerer(config))
    BY <1>4 DEF New, Offerer, Answerer
  <2>2. PICK y : Build(y) /\ (y = new(config) \/ y = offerer(config) \/ y = answerer(config))
    BY <2>1
  <2>3. t.status = "none" /\ t' = y /\ host' = host /\ now' = now /\ inputs' = inputs /\ sends' = sends
    BY <2>2 DEF Build
  <2>4. ~t.opened /\ ~t.finished /\ t.pc.arrived = 0
    BY <2>3 DEF Inv
  <2>8. host.messages = 0
    <3>1. PICK last \in Nat : Counts(t.events, host.messages, last) /\ last <= t.pc.arrived
      BY <1>1 DEF Rest, Told, Flow
    <3> QED BY <2>4, <3>1 DEF Counts
  <2>5. Fresh(host)
    BY <1>1, <2>4, <2>8 DEF Fresh, Rest, Told, Lawful, Honest, TimedOut
  <2>6. /\ Rest(y, host) /\ y.last_now <= now /\ y.status # "none"
        /\ y.pc.unacked > 0 => y.pc.unacked <= y.send_buffer_cap + y.pc.empties
    BY <1>1, <2>2, <2>5, BuildKeeps
  <2>7. y \in Tunnel /\ y.pc.unacked \in Nat
    BY <2>6 DEF Rest, Tunnel, PeerConnection
  <2>9. WithinCap(t, t')
    BY <1>0, <2>3, <2>6, <2>7 DEF WithinCap
  <2> QED BY <2>3, <2>6, <2>7, <2>9 DEF Inv, TypeOK, Heard
<1>5. CASE ApplyRemoteAnswer
  <2>1. ~t.pc.described /\ Call(apply_remote_answer(t)) /\ inputs' = inputs /\ sends' = sends
    BY <1>5 DEF ApplyRemoteAnswer
  <2>2. Kept(t, apply_remote_answer(t), host)
    BY <1>1, <2>1, ApplyAnswerKeeps
  <2> QED BY <1>1, <1>3, <2>1, <2>2
<1>6. CASE Receive \/ ReceiveDeferred
  <2>1. PICK d \in Datagrams : Call(receive(t, d)) \/ Call(receive_deferred(t, d))
    BY <1>6 DEF Receive, ReceiveDeferred, Input
  <2>2. inputs' \in 0..MaxInputs /\ sends' = sends
    BY <1>1, <1>2, <1>6 DEF Receive, ReceiveDeferred, Input
  <2>3. Kept(t, receive(t, d), host) /\ Kept(t, receive_deferred(t, d), host)
    BY <1>1, <1>2, ReceiveKeeps, ReceiveDeferredKeeps
  <2> QED BY <1>1, <1>3, <2>1, <2>2, <2>3
<1>7. CASE FinishInputBatch
  <2>1. Call(finish_input_batch(t)) /\ inputs' = inputs /\ sends' = sends
    BY <1>7 DEF FinishInputBatch
  <2>2. Kept(t, finish_input_batch(t), host)
    BY <1>1, FinishInputBatchKeeps
  <2> QED BY <1>1, <1>3, <2>1, <2>2
<1>8. CASE Tick
  <2>1. PICK poll_timeout \in {NoTime, now} : TickAt(poll_timeout)
    BY <1>8 DEF Tick
  <2>2. PICK what \in Timeouts : Call(tick(t, what))
    BY <2>1 DEF TickAt
  <2>3. inputs' \in 0..MaxInputs /\ sends' = sends
    BY <1>1, <1>2, <2>1 DEF TickAt
  <2>4. Kept(t, tick(t, what), host)
    BY <1>1, TickKeeps
  <2> QED BY <1>1, <1>3, <2>2, <2>3, <2>4
<1>9. CASE Send
  <2>1. PICK len \in Sizes : Call(send(t, len))
    BY <1>9 DEF Send
  <2>2. sends' \in 0..MaxSends /\ inputs' = inputs
    BY <1>1, <1>2, <1>9 DEF Send
  <2>3. Kept(t, send(t, len), host)
    BY <1>1, <1>2, SendKeeps
  <2> QED BY <1>1, <1>3, <2>1, <2>2, <2>3
<1>10. CASE SetSendBufferCap
  <2>1. PICK cap \in Caps : Call([t EXCEPT !.send_buffer_cap = cap])
    BY <1>10 DEF SetSendBufferCap
  <2>2. Kept(t, [t EXCEPT !.send_buffer_cap = cap], host)
    BY <1>1, SetCapKeeps
  <2>3. inputs' = inputs /\ sends' = sends
    BY <1>10 DEF SetSendBufferCap
  <2> QED BY <1>1, <1>3, <2>1, <2>2, <2>3
<1>11. CASE Close
  <2>1. Call(close(t)) /\ inputs' = inputs /\ sends' = sends
    BY <1>11 DEF Close
  <2>2. Kept(t, close(t), host)
    BY <1>1, CloseKeeps
  <2> QED BY <1>1, <1>3, <2>1, <2>2
<1>12. CASE PollEvent
  <2> DEFINE ev == t.events
             es == Tail(ev)
  <2>1. ev # <<>> /\ t' = [t EXCEPT !.events = es] /\ now' = now /\ inputs' = inputs /\ sends' = sends
    BY <1>12 DEF PollEvent
  <2>2. t \in Tunnel /\ ev \in Seq(Event) /\ Lawful(ev, t.opened, t.finished, host)
    BY <1>1 DEF Rest, Tunnel, Told
  <2>3. TimedOut(ev, host) => t.finished /\ ~t.opened /\ t.last_now >= t.handshake_deadline
    BY <1>1 DEF Rest, Told, Honest
  <2>4. Hears(host, host', ev[1])
    <3>1. Head(ev) = ev[1]
      BY <2>1, <2>2, TailFacts
    <3>2. host' = CASE Head(ev).kind = "Opened"  -> [host EXCEPT !.opens = @ + 1]
                    [] Head(ev).kind = "Message" -> [host EXCEPT !.messages = @ + 1]
                    [] Head(ev).kind = "Closed"  -> [host EXCEPT !.closes = @ + 1, !.reason = Head(ev).reason]
                    [] OTHER -> host
      BY <1>12 DEF PollEvent
    <3> DEFINE e == ev[1]
               o == [host EXCEPT !.opens = @ + 1]
               m == [host EXCEPT !.messages = @ + 1]
               c == [host EXCEPT !.closes = @ + 1, !.reason = e.reason]
    <3>3. host' = CASE e.kind = "Opened" -> o [] e.kind = "Message" -> m
                    [] e.kind = "Closed" -> c [] OTHER -> host
      BY <3>1, <3>2
    <3> HIDE DEF o, m, c, e
    <3>4. /\ e.kind = "SendDatagram" => host' = host
          /\ e.kind = "Opened" => host' = o
          /\ e.kind = "Message" => host' = m
          /\ e.kind = "Closed" => host' = c
      BY <3>3
    <3> QED BY <3>4 DEF Hears, o, m, c, e
  <2> HIDE DEF ev
  <2>5. /\ host' \in Polled /\ es \in Seq(Event) /\ Lawful(es, t.opened, t.finished, host')
        /\ (TimedOut(es, host') => TimedOut(ev, host)) /\ Heard(host, host')
        /\ host'.messages = (IF IsMessage(ev[1]) THEN host.messages + 1 ELSE host.messages)
    BY <1>1, <2>1, <2>2, <2>3, <2>4, PollKeeps
  <2>12. Flow(es, t.pc, t.finished, host')
    <3>1. Flow(ev, t.pc, t.finished, host)
      BY <1>1 DEF Rest, Told, ev
    <3> QED BY <1>1, <2>1, <2>5, <3>1, FlowPolled
  <2> HIDE DEF es
  <2>6. t' \in Tunnel
    BY <2>1, <2>2, <2>5, Zenon DEF Tunnel
  <2>7. Frame(t, t') /\ t'.pc = t.pc /\ t'.events = es
    BY <2>1, <2>2 DEF Tunnel, Frame
  <2>8. t'.opened = t.opened /\ t'.finished = t.finished /\ t'.deferred = t.deferred
    BY <2>1, <2>2 DEF Tunnel
  <2>9. Told(t', host')
    BY <2>3, <2>5, <2>7, <2>8, <2>12 DEF Told, Honest, Frame
  <2>10. Settled(t') /\ Traced(t') /\ Linked(t'.pc) /\ Batched(t')
    BY <1>1, <2>7, <2>8 DEF Rest, Settled, Noticed, Traced, Stages, Frame, Batched
  <2>13. WithinCap(t, t')
    BY <1>0, <2>6, <2>7, NoMore
  <2>11. t'.last_now <= now' /\ (t'.status = "none" => ~t'.opened /\ ~t'.finished /\ t'.pc.arrived = 0)
    BY <1>1, <2>1, <2>7, <2>8 DEF Inv, Frame
  <2> QED BY <2>1, <2>5, <2>6, <2>9, <2>10, <2>11, <2>13 DEF Inv, TypeOK, Rest
<1>13. CASE Advance
  <2>1. t' = t /\ host' = host /\ now' = now + 1 /\ inputs' = inputs /\ sends' = sends /\ now < MaxTime
    BY <1>13 DEF Advance
  <2>2. now' \in 0..MaxTime
    BY <1>1, <1>2, <2>1
  <2>3. t.last_now \in Nat
    BY <1>1 DEF Rest, Tunnel
  <2>4. t'.last_now <= now'
    BY <1>1, <2>1, <2>3
  <2>5. Rest(t', host')
    BY <1>1, <2>1
  <2>6. TypeOK'
    BY <2>1, <2>2 DEF Inv, TypeOK
  <2>7. WithinCap(t, t')
    BY <1>0, <2>1, NoMore
  <2> QED BY <1>1, <2>1, <2>4, <2>5, <2>6, <2>7 DEF Inv, Heard
<1>14. CASE UNCHANGED vars
  <2>1. WithinCap(t, t')
    BY <1>0, <1>14, NoMore DEF vars
  <2> QED BY <1>14, <2>1 DEF vars, Inv, TypeOK, Heard
<1> QED BY <1>4, <1>5, <1>6, <1>7, <1>8, <1>9, <1>10, <1>11, <1>12, <1>13, <1>14 DEF Next

LEMMA InvariantHolds == Spec => []Inv
BY InitInv, StepInv, PTL DEF Spec

\* Every call of the host keeps the tunnel, the clock and the counters within
\* their types.
THEOREM TypeCorrect == Spec => []TypeOK
<1>1. Inv => TypeOK
  BY DEF Inv
<1> QED BY <1>1, InvariantHolds, PTL

\* tunnel.rs drain, sample_handshake: whatever the peer sends and however the
\* host batches it, no stage is recorded before an earlier one, and a tunnel
\* that is open has its whole trace.
THEOREM TraceIsComplete == Spec => []TraceComplete
<1>1. Inv => TraceComplete
  BY DEF Inv, Rest, Traced, Stages, TraceComplete
<1> QED BY <1>1, InvariantHolds, PTL

\* tunnel.rs tick, receive_deferred: a tunnel that ends with Timeout was past
\* its deadline and nothing that would have opened it was waiting.
THEOREM TimeoutReportedHonestly == Spec => []TimeoutIsHonest
<1>1. Inv => TimeoutIsHonest
  <2> SUFFICES ASSUME Inv, TimedOut(t.events, host)
               PROVE  /\ t.last_now >= t.handshake_deadline
                      /\ ~t.opened /\ t.pc.channel # "open"
                      /\ \A i \in DOMAIN t.pc.sctpEv : t.pc.sctpEv[i].kind # "complete"
    BY DEF TimeoutIsHonest, TimedOut, Queued
  <2>1. t.last_now >= t.handshake_deadline /\ ~t.opened
    BY DEF Inv, Rest, Told, Honest
  <2>2. t.pc.channel # "open" /\ t.pc.sctpEv = <<>>
    BY <2>1 DEF Inv, Rest, Settled, Noticed
  <2> QED BY <2>1, <2>2
<1> QED BY <1>1, InvariantHolds, PTL

\* event.rs: what the host polls is a behaviour of TunnelContract, whatever
\* order events, messages and the opening come in inside one drain.
THEOREM TunnelImplementsContract == Spec => KeepsContract
<1>1. Init => Contract!Init
  BY DEF Init, Contract!Init
<1>2. Heard(host, host') => [Contract!Next]_Contract!vars
  <2> SUFFICES ASSUME Heard(host, host') PROVE [Contract!Next]_Contract!vars
    OBVIOUS
  <2>1. CASE host' = host
    BY <2>1 DEF Contract!vars
  <2>2. CASE Contract!Opened \/ Contract!Message \/ \E why \in CloseReasons : Contract!Closed(why)
    BY <2>2 DEF Contract!Next
  <2> QED BY <2>1, <2>2 DEF Heard, Contract!Opened, Contract!Message, Contract!Closed
<1> QED BY <1>1, <1>2, InitInv, StepInv, PTL DEF Spec, KeepsContract, Contract!Spec

\* tunnel.rs drain, receive_deferred, poll_event: whatever the peer bundles in
\* a datagram, however the host batches datagrams and whatever SCTP parks or
\* refuses, the messages SCTP hands on are polled numbered on from one another,
\* and none of them waits in data_read_outs once a batch is finished.  Messages
\* still parked in SCTP, or lost with a refused one, are not handed on.
THEOREM MessagesInOrder == Spec => []DeliveredInOrder
<1>1. Inv => DeliveredInOrder
  <2> SUFFICES ASSUME Inv PROVE DeliveredInOrder
    OBVIOUS
  <2> DEFINE messages == Queued("Message")
             ids == {t.events[i].id : i \in messages}
             m == host.messages
  <2>1. PICK last \in Nat : /\ Counts(t.events, m, last) /\ last <= t.pc.arrived
                            /\ ~t.finished => Follows(t.pc, last)
    BY DEF Inv, Rest, Told, Flow
  <2>2. \A i \in DOMAIN t.events : i \in messages <=> IsMessage(t.events[i])
    BY DEF Queued, IsMessage
  <2>3. messages \subseteq DOMAIN t.events
    BY DEF Queued
  <2> HIDE DEF messages
  <2>4. \A i, j \in messages : i < j => t.events[i].id < t.events[j].id
    BY <2>1, <2>2, <2>3 DEF Counts
  <2>5. ids = (m + 1)..last
    <3>1. \A i \in messages : t.events[i].id \in (m + 1)..last
      BY <2>1, <2>2, <2>3 DEF Counts
    <3>2. \A n \in (m + 1)..last : \E i \in messages : t.events[i].id = n
      BY <2>1, <2>2 DEF Counts
    <3> QED BY <3>1, <3>2
  <2>6. last \in m..t.pc.arrived
    <3>1. m \in Nat /\ m <= last /\ t.pc.arrived \in Nat
      BY <2>1 DEF Counts, Inv, Rest, Tunnel, PeerConnection
    <3> QED BY <2>1, <3>1
  <2>7. ~t.finished => /\ t.pc.arrived = last + Len(t.pc.reads)
                       /\ t.pc.reads # <<>> => t.deferred
    BY <2>1 DEF Follows, Inv, Rest, Batched
  <2> HIDE DEF ids, m
  <2>8. \E n \in m..t.pc.arrived :
            /\ ids = (m + 1)..n
            /\ ~t.finished => /\ t.pc.arrived = n + Len(t.pc.reads)
                              /\ t.pc.reads # <<>> => t.deferred
    BY <2>5, <2>6, <2>7
  <2> QED BY <2>4, <2>8 DEF DeliveredInOrder, messages, ids, m
<1> QED BY <1>1, InvariantHolds, PTL

\* tunnel.rs send, buffered_bytes: what SCTP holds unacknowledged grows beyond
\* the cap by at most one byte for each empty message sent, however late the
\* channel hears what was acknowledged and whatever SCTP refuses to send.
THEOREM SendKeepsCap == Spec => SendWithinCap
<1>1. Inv /\ [Next]_vars
        => [t'.pc.unacked > t.pc.unacked => t'.pc.unacked <= t'.send_buffer_cap + t'.pc.empties]_vars
  BY StepInv DEF WithinCap
<1> QED BY <1>1, InvariantHolds, PTL DEF Spec, SendWithinCap
=============================================================================
