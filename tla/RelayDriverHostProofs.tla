------------------------ MODULE RelayDriverHostProofs ------------------------
(***************************************************************************)
(* Proofs about what RelayDriver shows its host: the connection keeps the  *)
(* contract of RelayContract, holds nothing once it is over, leaves no     *)
(* event and no datagram behind and arms its timer in time.                *)
(***************************************************************************)
EXTENDS RelayDriverProofs, SequenceTheorems

-----------------------------------------------------------------------------
(* What the operations leave alone.                                        *)

\* The operations of the engine change nothing of this.
Aside(c, d) ==
    /\ d.opened = c.opened /\ d.closed = c.closed /\ d.phase = c.phase /\ d.handle = c.handle
    /\ d.inbound = c.inbound /\ d.inboundScheduled = c.inboundScheduled
    /\ d.outboundScheduled = c.outboundScheduled /\ d.tasks = c.tasks
    /\ d.disposes = c.disposes /\ d.misused = c.misused /\ d.socket = c.socket
    /\ d.promise = c.promise /\ d.onOpens = c.onOpens /\ d.onCloses = c.onCloses
    /\ d.packets = c.packets

Apart(c, d) == Aside(c, d) /\ d.frames = c.frames /\ d.timer = c.timer

LEMMA AsideTrans ==
    ASSUME NEW c, NEW d, NEW e
    PROVE  /\ Apart(c, c)
           /\ Apart(c, d) /\ Apart(d, e) => Apart(c, e)
           /\ Aside(c, d) /\ Aside(d, e) => Aside(c, e)
BY DEF Aside, Apart

LEMMA ReactApart ==
    ASSUME NEW c \in Connection, NEW r
    PROVE  Apart(c, React(c, r))
<1>1. CASE c.done
  BY <1>1 DEF React, Aside, Apart
<1>2. CASE ~c.done
  <2> DEFINE ev == c.ev \o Numbered(r.events, c.produced)
             produced == c.produced + MessagesIn(r.events, Len(r.events))
             up == c.up \/ Has(r, "Opened")
             done == Has(r, "Closed")
             free == IF r.ack THEN Cap ELSE c.free
             lib == now + r.delay
             d == React(c, r)
  <2>1. d = [c EXCEPT !.ev = ev, !.produced = produced, !.up = up, !.done = done,
                      !.free = free, !.lib = lib]
    BY <1>2 DEF React
  <2> HIDE DEF d, ev, produced, up, done, free, lib
  <2>2. Apart(c, d)
    BY <2>1 DEF Connection, Aside, Apart
  <2> QED BY <2>2 DEF d
<1> QED BY <1>1, <1>2

LEMMA EndApart ==
    ASSUME NEW c \in Connection
    PROVE  Apart(c, End(c))
<1>1. CASE c.done
  BY <1>1 DEF End, Aside, Apart
<1>2. CASE ~c.done
  <2> DEFINE ev == Append(c.ev, [kind |-> "Closed", id |-> 0])
             d == End(c)
  <2>1. d = [c EXCEPT !.ev = ev, !.done = TRUE]
    BY <1>2 DEF End
  <2> HIDE DEF d, ev
  <2>2. Apart(c, d)
    BY <2>1 DEF Connection, Aside, Apart
  <2> QED BY <2>2 DEF d
<1> QED BY <1>1, <1>2

LEMMA TickApart ==
    ASSUME NEW c, Accounts(c), NEW r \in Reaction, now \in Nat
    PROVE  Apart(c, EngineTick(c, r))
<1> DEFINE q == [r EXCEPT !.ack = FALSE]
           d == React(c, q)
<1>1. q \in Reaction
  BY DEF Reaction
<1>2. EngineTick(c, r) = d \/ EngineTick(c, r) = End(d)
  BY DEF EngineTick
<1> HIDE DEF q
<1>3. c \in Connection /\ d \in Connection
  BY <1>1, ReactAccounts DEF Accounts
<1>4. Apart(c, d) /\ Apart(d, End(d))
  BY <1>3, ReactApart, EndApart
<1> HIDE DEF d
<1> QED BY <1>2, <1>4, AsideTrans

LEMMA EngineSendApart ==
    ASSUME NEW c \in Connection, NEW q
    PROVE  /\ Apart(c, EngineSend(c, q))
           /\ EngineSend(c, q).up = c.up /\ EngineSend(c, q).done = c.done
<1>1. CASE q = <<>>
  BY <1>1 DEF EngineSend, Aside, Apart
<1>2. CASE q # <<>>
  <2> DEFINE free == c.free - Bytes(q)
             ev == c.ev \o [i \in DOMAIN q |-> [kind |-> "Datagram", id |-> 0]]
             accepted == c.accepted \o [i \in DOMAIN q |-> q[i].id]
             lib == Earlier(c.lib, now + Rto)
             d == EngineSend(c, q)
  <2>1. d = [c EXCEPT !.free = free, !.ev = ev, !.accepted = accepted, !.lib = lib]
    BY <1>2 DEF EngineSend
  <2> HIDE DEF d, ev, accepted, free, lib
  <2>2. Apart(c, d) /\ d.up = c.up /\ d.done = c.done
    BY <2>1 DEF Connection, Aside, Apart
  <2> QED BY <2>2 DEF d
<1> QED BY <1>1, <1>2

\* The timer is due no later than the deadline the engine asked for.
Covers(c) ==
    \/ NextDeadline(c) = NoTime
    \/ c.timer # NoTime /\ c.timer <= NextDeadline(c)

LEMMA ScheduleAside ==
    ASSUME NEW c \in Connection
    PROVE  LET d == Schedule(c) IN
           Aside(c, d) /\ d.frames = c.frames /\ (~c.closed => Covers(d))
<1> DEFINE deadline == NextDeadline(c)
           d == [c EXCEPT !.timer = deadline]
<1>1. deadline \in Nat \cup {NoTime}
  BY DriverAssumption DEF NextDeadline, Earlier, NoTime, Connection
<1>2. /\ d.done = c.done /\ d.up = c.up /\ d.lib = c.lib /\ d.timer = deadline
      /\ d.frames = c.frames /\ Aside(c, d)
  <2> HIDE DEF deadline
  <2> QED BY DEF Connection, Aside
<1> HIDE DEF d
<1>3. NextDeadline(d) = deadline
  BY <1>2 DEF NextDeadline
<1>4. Schedule(c) = d \/ Schedule(c) = c
  BY DEF Schedule, d
<1>5. Covers(d)
  <2> HIDE DEF deadline
  <2> QED BY <1>1, <1>2, <1>3 DEF Covers, NoTime
<1>6. ~c.closed /\ Schedule(c) # d => Covers(c)
  BY DEF Schedule, Covers, d
<1>7. Aside(c, c)
  BY DEF Aside
<1> QED BY <1>2, <1>4, <1>5, <1>6, <1>7

LEMMA FlushQueueApart ==
    ASSUME NEW c, Accounts(c), now \in Nat
    PROVE  Apart(c, FlushQueue(c))
<1>0. c \in Connection
  BY DEF Accounts
<1> DEFINE k == Cardinality(Fitting(c))
           flushed == SubSeq(c.queue, 1, k)
           e == EngineSend(c, flushed)
<1>1. CASE c.done \/ ~c.up
  <2> DEFINE d == [c EXCEPT !.queue = <<>>, !.queuedBytes = 0]
  <2>1. FlushQueue(c) = d
    BY <1>1 DEF FlushQueue
  <2>2. Apart(c, d)
    BY <1>0 DEF Connection, Aside, Apart
  <2> HIDE DEF d
  <2> QED BY <2>1, <2>2
<1>2. CASE ~(c.done \/ ~c.up)
  <2> DEFINE rest == SubSeq(e.queue, k + 1, Len(e.queue))
             n == e.queuedBytes - Bytes(flushed)
             d == [e EXCEPT !.queue = rest, !.queuedBytes = n]
  <2>1. FlushQueue(c) = d
    BY <1>2 DEF FlushQueue
  <2>2. e \in Connection
    <3>1. k \in 0..Len(c.queue) /\ Bytes(flushed) <= c.free /\ c.queue \in Seq(OutMessage)
      BY <1>0, FlushStops DEF Connection
    <3>2. flushed \in Seq(OutMessage)
      <4> HIDE DEF k
      <4> QED BY <3>1
    <3> HIDE DEF flushed
    <3> QED BY <3>1, <3>2, EngineSendAccounts DEF Accounts
  <2>3. Apart(c, e)
    BY <1>0, EngineSendApart
  <2> HIDE DEF e, rest, n
  <2>4. Apart(e, d)
    BY <2>2 DEF Connection, Aside, Apart
  <2> HIDE DEF d
  <2> QED BY <2>1, <2>3, <2>4, AsideTrans
<1> QED BY <1>1, <1>2

NewFrame(after) == [batch |-> <<>>, more |-> TRUE, after |-> after]

LEMMA PumpAside ==
    ASSUME NEW c, Accounts(c), NEW after \in {"none", "settle", "close"}, now \in Nat, ~c.closed
    PROVE  LET d == Pump(c, after) IN
           /\ Aside(c, d) /\ d.frames = <<NewFrame(after)>> \o c.frames
           /\ Policy = "drop" => Covers(d)
<1> DEFINE sched == Schedule(c)
           flushed == IF Policy = "queue" THEN FlushQueue(sched) ELSE sched
           d == [flushed EXCEPT !.frames = <<NewFrame(after)>> \o flushed.frames]
<1>0. c \in Connection
  BY DEF Accounts
<1>1. Accounts(sched) /\ Aside(c, sched) /\ sched.frames = c.frames /\ Covers(sched)
  BY <1>0, ScheduleAccounts, ScheduleAside
<1>2. Pump(c, after) = d
  BY DEF Pump, NewFrame
<1> HIDE DEF sched
<1>3. /\ flushed \in Connection /\ Aside(c, flushed) /\ flushed.frames = c.frames
      /\ Policy = "drop" => Covers(flushed)
  <2>1. CASE Policy = "queue"
    <3>1. FlushQueue(sched) \in Connection
      BY <1>1, FlushQueueSound DEF Sound, Accounts
    <3>2. Apart(sched, FlushQueue(sched))
      BY <1>1, FlushQueueApart
    <3> QED BY <1>1, <2>1, <3>1, <3>2, AsideTrans DEF Apart
  <2>2. CASE Policy # "queue"
    BY <1>1, <2>2 DEF Accounts
  <2> QED BY <2>1, <2>2
<1> HIDE DEF flushed
<1>4. /\ Aside(flushed, d) /\ d.frames = <<NewFrame(after)>> \o flushed.frames
      /\ d.done = flushed.done /\ d.up = flushed.up /\ d.lib = flushed.lib /\ d.timer = flushed.timer
  BY <1>3 DEF Connection, Aside
<1> HIDE DEF d
<1>5. Covers(flushed) => Covers(d)
  BY <1>4 DEF Covers, NextDeadline
<1>6. Aside(c, d)
  BY <1>3, <1>4, AsideTrans
<1> QED BY <1>2, <1>3, <1>4, <1>5, <1>6

-----------------------------------------------------------------------------
(* The inductive invariant.                                                *)

\* What the host has been told, and what is held for it.
Told(c) ==
    /\ c.onOpens = IF c.opened THEN 1 ELSE 0
    /\ c.onCloses = IF c.opened /\ c.closed THEN 1 ELSE 0
    /\ c.promise = IF c.opened THEN "resolved"
                   ELSE IF c.closed \/ c.phase = "failed" THEN "rejected" ELSE "pending"
    /\ c.handle => c.opened
    /\ c.phase # "running" => ~c.opened /\ ~c.closed /\ c.timer = NoTime
    /\ c.phase \in {"bind", "failed"} => c.socket # "open"
    /\ c.closed => c.timer = NoTime /\ c.socket = "closed" /\ c.disposes = 1
    /\ ~c.closed => c.disposes = 0

\* The flags say which flushes the event loop will run.
Flagged(c) ==
    /\ c.inboundScheduled <=> "input" \in c.tasks
    /\ c.outboundScheduled <=> "send" \in c.tasks
    /\ ~c.closed /\ c.inbound > 0 => "input" \in c.tasks
    /\ BatchMode => "pollEvent" \notin c.misused

\* Pumps are nested only by a host that has its handle and whose calls pump.
Flat(c) == ~c.opened \/ (SendBatch /\ "close" \notin Reentrant)

\* What holds of the stack while the pump at its top is about to return.
Below(c) ==
    /\ c.frames # <<>> => c.phase = "running"
    /\ Flat(c) => Len(c.frames) <= 1
    /\ \A i \in DOMAIN c.frames : c.frames[i].after = "close" => c.opened

Stack(c) == Below(c) /\ (Flat(c) /\ c.closed => c.frames = <<>>)

\* What the engine said is on its way to the host.
Spoken(c) ==
    ~c.closed => \/ c.ev = <<>> \/ "send" \in c.tasks
                 \/ \E i \in DOMAIN c.frames : c.frames[i].more

Armed(c) ==
    Policy = "drop" /\ ~c.closed /\ c.phase = "running" => "send" \in c.tasks \/ Covers(c)

Held(c) == Told(c) /\ Flagged(c)
Good(c) == Held(c) /\ Stack(c) /\ Spoken(c) /\ Armed(c)

\* What a step may do to the life of the connection.
Steady(c, d) ==
    d.opened = c.opened /\ d.closed = c.closed /\ d.phase = c.phase /\ d.packets = c.packets

Lives(c, d) ==
    \/ /\ d.opened = c.opened /\ d.closed = c.closed
       /\ d.phase = c.phase \/ (c.phase \in {"bind", "create"} /\ d.phase \in {"create", "running"})
    \/ ~c.opened /\ d.opened /\ ~c.closed /\ ~d.closed /\ c.phase = "running" /\ d.phase = "running"
    \/ d.opened = c.opened /\ ~c.closed /\ d.closed /\ c.phase = "running" /\ d.phase = "running"
    \/ c.phase \in {"bind", "create"} /\ d.phase = "failed"

Step(c, d) == Lives(c, d) /\ (d.packets = c.packets \/ c.frames # <<>>)

LEMMA SteadyStep ==
    ASSUME NEW c, NEW d, Steady(c, d)
    PROVE  Step(c, d)
BY DEF Steady, Step, Lives

\* The timer may be armed while the connection lives.
SameTimer(c, d) == d.timer = c.timer \/ (~c.closed /\ c.phase = "running")

LEMMA AsideHeld ==
    ASSUME NEW c, NEW d, Held(c), Aside(c, d), SameTimer(c, d)
    PROVE  Held(d) /\ Steady(c, d)
<1>1. Told(d)
  BY DEF Held, Told, Aside, SameTimer
<1>2. Flagged(d)
  BY DEF Held, Flagged, Aside
<1> QED BY <1>1, <1>2 DEF Held, Steady, Aside

\* The engine's queue, its deadline and the driver's timer are left alone.
Quiet(c, d) ==
    Apart(c, d) /\ d.ev = c.ev /\ d.up = c.up /\ d.done = c.done /\ d.lib = c.lib

LEMMA QuietGood ==
    ASSUME NEW c, NEW d, Good(c), Quiet(c, d)
    PROVE  Good(d) /\ Steady(c, d)
<1>1. Held(d) /\ Steady(c, d)
  <2>1. Held(c) /\ Aside(c, d) /\ SameTimer(c, d)
    BY DEF Quiet, Apart, Good, SameTimer
  <2> QED BY <2>1, AsideHeld
<1>2. Stack(d)
  BY DEF Quiet, Apart, Aside, Good, Stack, Below, Flat
<1>3. Spoken(d)
  BY DEF Quiet, Apart, Aside, Good, Spoken
<1>4. Armed(d)
  BY DEF Quiet, Apart, Aside, Good, Armed, Covers, NextDeadline
<1> QED BY <1>1, <1>2, <1>3, <1>4 DEF Good

\* Whatever was done before it, a pump leaves the connection in order.
LEMMA PumpGood ==
    ASSUME NEW c, Accounts(c), now \in Nat, Held(c), Stack(c), c.phase = "running",
           NEW after \in {"none", "settle", "close"}, after = "close" => c.opened,
           Flat(c) => c.frames = <<>>
    PROVE  Good(Pump(c, after)) /\ Steady(c, Pump(c, after))
<1> DEFINE d == Pump(c, after)
<1>1. CASE c.closed
  <2>1. d = c
    BY <1>1 DEF Pump
  <2>2. Good(c) /\ Steady(c, c)
    BY <1>1 DEF Good, Spoken, Armed, Steady
  <2> QED BY <2>1, <2>2
<1>2. CASE ~c.closed
  <2>1. Aside(c, d) /\ d.frames = <<NewFrame(after)>> \o c.frames /\ (Policy = "drop" => Covers(d))
    BY <1>2, PumpAside
  <2> HIDE DEF d
  <2>2. c.frames \in Seq(Frame) /\ NewFrame(after) \in Frame
    BY DEF Accounts, Connection, NewFrame, Frame
  <2>3. /\ Len(d.frames) = Len(c.frames) + 1 /\ d.frames[1] = NewFrame(after)
        /\ DOMAIN d.frames = 1..(Len(c.frames) + 1) /\ Len(c.frames) \in Nat
        /\ \A i \in 2..(Len(c.frames) + 1) : d.frames[i] = c.frames[i - 1] /\ i - 1 \in DOMAIN c.frames
        /\ c.frames = <<>> => Len(c.frames) = 0
    BY <2>1, <2>2
  <2>4. Held(d) /\ Steady(c, d)
    BY <1>2, <2>1, AsideHeld DEF SameTimer
  <2>5. Stack(d)
    <3>1. Flat(d) <=> Flat(c)
      BY <2>1 DEF Flat, Aside
    <3>2. Flat(d) => Len(d.frames) <= 1
      BY <2>3, <3>1
    <3>3. ASSUME NEW i \in DOMAIN d.frames, d.frames[i].after = "close" PROVE d.opened
      <4>1. CASE i = 1
        <5>1. d.frames[1].after = after
          BY <2>3 DEF NewFrame
        <5> QED BY <2>1, <3>3, <4>1, <5>1 DEF Aside
      <4>2. CASE i # 1
        <5>1. i \in 2..(Len(c.frames) + 1)
          BY <2>3, <4>2
        <5>2. c.frames[i - 1].after = "close" /\ i - 1 \in DOMAIN c.frames
          BY <2>3, <3>3, <5>1
        <5> QED BY <2>1, <5>2 DEF Aside, Stack, Below
      <4> QED BY <4>1, <4>2
    <3>4. d.phase = "running" /\ ~d.closed
      BY <1>2, <2>1 DEF Aside
    <3> QED BY <3>2, <3>3, <3>4 DEF Stack, Below
  <2>6. Spoken(d)
    <3>1. 1 \in DOMAIN d.frames /\ d.frames[1].more
      BY <2>3 DEF NewFrame
    <3> QED BY <3>1 DEF Spoken
  <2>7. Armed(d)
    BY <2>1 DEF Armed
  <2> QED BY <2>4, <2>5, <2>6, <2>7 DEF Good, d
<1> QED BY <1>1, <1>2

-----------------------------------------------------------------------------
(* finish and the return of pump.                                          *)

LEMMA FinishHeld ==
    ASSUME NEW c \in Connection, Held(c), c.phase = "running"
    PROVE  LET d == Finish(c) IN
           /\ Held(d) /\ d.closed /\ d.opened = c.opened /\ d.phase = c.phase
           /\ d.frames = c.frames /\ d.packets = c.packets
<1>1. CASE c.closed
  BY <1>1 DEF Finish
<1>2. CASE ~c.closed
  <2> DEFINE n == c.disposes + 1
             r == [c EXCEPT !.closed = TRUE, !.timer = NoTime, !.queue = <<>>,
                            !.queuedBytes = 0, !.socket = "closed", !.disposes = n]
             d == Finish(c)
  <2>1. n = 1
    BY <1>2 DEF Held, Told
  <2> HIDE DEF n
  <2>2. /\ r.closed = TRUE /\ r.timer = NoTime /\ r.socket = "closed" /\ r.disposes = n
        /\ r.opened = c.opened /\ r.phase = c.phase /\ r.handle = c.handle
        /\ r.inbound = c.inbound /\ r.inboundScheduled = c.inboundScheduled
        /\ r.outboundScheduled = c.outboundScheduled /\ r.tasks = c.tasks
        /\ r.misused = c.misused /\ r.promise = c.promise /\ r.onOpens = c.onOpens
        /\ r.onCloses = c.onCloses /\ r.packets = c.packets /\ r.frames = c.frames
    BY DEF Connection
  <2>3. DOMAIN r = DOMAIN c
    OBVIOUS
  <2>4. CASE c.opened
    <3>1. d = [r EXCEPT !.onCloses = r.onCloses + 1]
      BY <1>2, <2>4 DEF Finish, n
    <3> HIDE DEF r, d
    <3>2. /\ d.closed = TRUE /\ d.timer = NoTime /\ d.socket = "closed" /\ d.disposes = n
          /\ d.opened = c.opened /\ d.phase = c.phase /\ d.handle = c.handle
          /\ d.inbound = c.inbound /\ d.inboundScheduled = c.inboundScheduled
          /\ d.outboundScheduled = c.outboundScheduled /\ d.tasks = c.tasks
          /\ d.misused = c.misused /\ d.promise = c.promise /\ d.onOpens = c.onOpens
          /\ d.onCloses = c.onCloses + 1 /\ d.packets = c.packets /\ d.frames = c.frames
      BY <2>2, <2>3, <3>1 DEF Connection
    <3>3. Told(d)
      BY <1>2, <2>1, <2>4, <3>2 DEF Held, Told
    <3>4. Flagged(d)
      BY <3>2 DEF Held, Flagged
    <3> QED BY <3>2, <3>3, <3>4 DEF Held, d
  <2>5. CASE ~c.opened
    <3>1. d = [r EXCEPT !.promise = Settle(r.promise, "rejected")]
      BY <1>2, <2>5 DEF Finish, n
    <3>2. Settle(c.promise, "rejected") = "rejected"
      BY <1>2, <2>5 DEF Settle, Held, Told
    <3> HIDE DEF r, d
    <3>3. /\ d.closed = TRUE /\ d.timer = NoTime /\ d.socket = "closed" /\ d.disposes = n
          /\ d.opened = c.opened /\ d.phase = c.phase /\ d.handle = c.handle
          /\ d.inbound = c.inbound /\ d.inboundScheduled = c.inboundScheduled
          /\ d.outboundScheduled = c.outboundScheduled /\ d.tasks = c.tasks
          /\ d.misused = c.misused /\ d.promise = "rejected" /\ d.onOpens = c.onOpens
          /\ d.onCloses = c.onCloses /\ d.packets = c.packets /\ d.frames = c.frames
      BY <2>2, <2>3, <3>1, <3>2 DEF Connection
    <3>4. Told(d)
      BY <1>2, <2>1, <2>5, <3>3 DEF Held, Told
    <3>5. Flagged(d)
      BY <3>3 DEF Held, Flagged
    <3> QED BY <3>3, <3>4, <3>5 DEF Held, d
  <2> QED BY <2>4, <2>5
<1> QED BY <1>1, <1>2

LEMMA TailBelow ==
    ASSUME NEW c, Below(c), c.frames \in Seq(Frame), c.frames # <<>>, NEW d,
           d.frames = Tail(c.frames), d.opened = c.opened, d.phase = c.phase
    PROVE  Below(d) /\ (Flat(d) => d.frames = <<>>)
<1>1. /\ DOMAIN d.frames = 1..(Len(c.frames) - 1) /\ Len(d.frames) = Len(c.frames) - 1
      /\ Len(c.frames) \in Nat \ {0} /\ DOMAIN c.frames = 1..Len(c.frames)
      /\ \A i \in 1..(Len(c.frames) - 1) : d.frames[i] = c.frames[i + 1]
      /\ d.frames \in Seq(Frame)
  OBVIOUS
<1>2. Flat(d) => Len(c.frames) <= 1
  BY DEF Flat, Below
<1>3. Flat(d) => d.frames = <<>>
  BY <1>1, <1>2
<1>4. ASSUME NEW i \in DOMAIN d.frames, d.frames[i].after = "close" PROVE d.opened
  <2>1. i + 1 \in DOMAIN c.frames /\ c.frames[i + 1].after = "close"
    BY <1>1, <1>4
  <2> QED BY <2>1 DEF Below
<1>5. Flat(d) => Len(d.frames) <= 1
  BY <1>1, <1>2
<1> QED BY <1>3, <1>4, <1>5 DEF Below

\* pump returns when it has said all, or the connection is closed.
LEMMA ReturnGood ==
    ASSUME NEW c, Accounts(c), Held(c), Below(c), Spoken(c), Armed(c), c.frames # <<>>,
           c.closed \/ c.ev = <<>> \/ ~Head(c.frames).more
    PROVE  LET d == Return(c) IN
           /\ Good(d) /\ d.packets = c.packets /\ d.opened = c.opened /\ d.phase = c.phase
           /\ c.closed => d.closed
<1> DEFINE p == [c EXCEPT !.frames = Tail(c.frames)]
<1>0. c \in Connection /\ c.frames \in Seq(Frame) /\ c.phase = "running"
  BY DEF Accounts, Connection, Below
<1>1. p \in Connection
  <2>1. Tail(c.frames) \in Seq(Frame)
    BY <1>0
  <2> QED BY <1>0, <2>1 DEF Connection
<1>2. /\ p.frames = Tail(c.frames) /\ Aside(c, p) /\ p.timer = c.timer
      /\ p.ev = c.ev /\ p.up = c.up /\ p.done = c.done /\ p.lib = c.lib
  BY <1>0 DEF Connection, Aside
<1>3. DOMAIN p = DOMAIN c
  OBVIOUS
<1> HIDE DEF p
<1>4. Held(p) /\ Steady(c, p)
  <2>1. SameTimer(c, p)
    BY <1>2 DEF SameTimer
  <2> QED BY <1>2, <2>1, AsideHeld
<1>5. Below(p) /\ (Flat(p) => p.frames = <<>>)
  BY <1>0, <1>2, TailBelow DEF Aside
<1>6. Spoken(p)
  <2> SUFFICES ASSUME ~p.closed, p.ev # <<>>, "send" \notin p.tasks
               PROVE  \E i \in DOMAIN p.frames : p.frames[i].more
    BY DEF Spoken
  <2>1. ~c.closed /\ c.ev # <<>> /\ "send" \notin c.tasks /\ ~Head(c.frames).more
    BY <1>2 DEF Aside
  <2>2. PICK i \in DOMAIN c.frames : c.frames[i].more
    BY <2>1 DEF Spoken
  <2>3. i # 1
    BY <1>0, <2>1, <2>2
  <2>4. i - 1 \in DOMAIN p.frames /\ p.frames[i - 1] = c.frames[i]
    BY <1>0, <1>2, <2>2, <2>3
  <2> QED BY <2>2, <2>4
<1>7. Armed(p)
  BY <1>2 DEF Armed, Covers, NextDeadline, Aside
<1>8. Good(p)
  BY <1>4, <1>5, <1>6, <1>7 DEF Good, Stack
<1>9. CASE Head(c.frames).after = "close"
  <2>1. Return(c) = Finish(p)
    BY <1>9 DEF Return, p
  <2> DEFINE d == Finish(p)
  <2>2. /\ Held(d) /\ d.closed /\ d.opened = p.opened /\ d.phase = p.phase
        /\ d.frames = p.frames /\ d.packets = p.packets
    <3>1. p.phase = "running"
      BY <1>0, <1>4 DEF Steady
    <3> QED BY <1>1, <1>4, <3>1, FinishHeld
  <2> HIDE DEF d
  <2>3. Stack(d)
    BY <1>5, <2>2 DEF Stack, Below, Flat
  <2>4. Spoken(d) /\ Armed(d)
    BY <2>2 DEF Spoken, Armed
  <2> QED BY <1>4, <2>1, <2>2, <2>3, <2>4 DEF Good, Steady, d
<1>10. CASE Head(c.frames).after # "close"
  <2>1. c.promise = p.promise
    BY <1>2 DEF Aside
  <2>2. /\ c.opened => Settle(p.promise, "resolved") = p.promise
        /\ c.closed => Settle(p.promise, "rejected") = p.promise
    BY <2>1 DEF Settle, Held, Told
  <2>3. [p EXCEPT !.promise = p.promise] = p
    BY <1>1 DEF Connection
  <2>4. Return(c) = p
    BY <1>10, <2>2, <2>3 DEF Return, p
  <2> QED BY <1>4, <1>8, <2>4 DEF Steady
<1> QED BY <1>9, <1>10

LEMMA ApplyClosedGood ==
    ASSUME Inv, Running, Good(s)
    PROVE  Good(ApplyClosed(s)) /\ Step(s, ApplyClosed(s))
<1> DEFINE f == Finish(s)
           d == Return(f)
<1>0. s \in Connection /\ Accounts(s) /\ s.phase = "running" /\ s.frames # <<>> /\ Held(s)
  BY TopTyped DEF Running, Good, Stack, Below
<1>1. /\ Held(f) /\ f.closed /\ f.opened = s.opened /\ f.phase = s.phase
      /\ f.frames = s.frames /\ f.packets = s.packets
  BY <1>0, FinishHeld
<1>2. Accounts(f)
  BY FinishSound DEF Inv, Sound
<1> HIDE DEF f
<1>3. Below(f)
  BY <1>1 DEF Good, Stack, Below, Flat
<1>4. Spoken(f) /\ Armed(f)
  BY <1>1 DEF Spoken, Armed
<1>5. Good(d) /\ d.packets = f.packets /\ d.opened = f.opened /\ d.phase = f.phase /\ d.closed
  BY <1>0, <1>1, <1>2, <1>3, <1>4, ReturnGood
<1>6. Step(s, d)
  <2> HIDE DEF d
  <2> QED BY <1>0, <1>1, <1>5 DEF Step, Lives
<1> QED BY <1>5, <1>6 DEF ApplyClosed, f

-----------------------------------------------------------------------------
(* The handle.                                                             *)

\* A call of the host may pump: it has its handle, and if it is called from
\* a pump that pump is one of several.
Callable(c) == c.opened /\ c.phase = "running"

LEMMA SchedulePumpGood ==
    ASSUME NEW c, Accounts(c), now \in Nat, Held(c), Stack(c), Callable(c), ~c.closed,
           Flat(c) /\ ~SendBatch => c.frames = <<>>
    PROVE  Good(SchedulePump(c)) /\ Steady(c, SchedulePump(c))
<1>1. CASE ~SendBatch
  <2>1. Flat(c) => c.frames = <<>>
    BY <1>1
  <2>2. Good(Pump(c, "none")) /\ Steady(c, Pump(c, "none"))
    BY <2>1, PumpGood DEF Callable
  <2> QED BY <1>1, <2>2 DEF SchedulePump
<1>2. CASE SendBatch /\ c.outboundScheduled
  <2>1. "send" \in c.tasks
    BY <1>2 DEF Held, Flagged
  <2>2. Good(c) /\ Steady(c, c)
    BY <2>1 DEF Good, Spoken, Armed, Steady
  <2> QED BY <1>2, <2>2 DEF SchedulePump
<1>3. CASE SendBatch /\ ~c.outboundScheduled
  <2> DEFINE tasks == c.tasks \cup {"send"}
             d == [c EXCEPT !.outboundScheduled = TRUE, !.tasks = tasks]
  <2>1. SchedulePump(c) = d
    BY <1>3 DEF SchedulePump
  <2>2. "send" \in tasks /\ ("input" \in tasks) = ("input" \in c.tasks)
    OBVIOUS
  <2> HIDE DEF tasks
  <2>3. /\ d.opened = c.opened /\ d.closed = c.closed /\ d.phase = c.phase /\ d.handle = c.handle
        /\ d.inbound = c.inbound /\ d.inboundScheduled = c.inboundScheduled
        /\ d.outboundScheduled = TRUE /\ d.tasks = tasks /\ d.timer = c.timer
        /\ d.disposes = c.disposes /\ d.misused = c.misused /\ d.socket = c.socket
        /\ d.promise = c.promise /\ d.onOpens = c.onOpens /\ d.onCloses = c.onCloses
        /\ d.packets = c.packets /\ d.frames = c.frames
    BY DEF Accounts, Connection
  <2> HIDE DEF d
  <2>4. Told(d)
    BY <2>3 DEF Held, Told
  <2>5. Flagged(d)
    BY <2>2, <2>3 DEF Held, Flagged
  <2>6. Stack(d)
    BY <2>3 DEF Stack, Below, Flat
  <2>7. Spoken(d) /\ Armed(d)
    BY <2>2, <2>3 DEF Spoken, Armed
  <2> QED BY <2>1, <2>3, <2>4, <2>5, <2>6, <2>7 DEF Good, Held, Steady
<1> QED BY <1>1, <1>2, <1>3

LEMMA HandleSendGood ==
    ASSUME NEW c, Sound(c), now \in Nat, NEW len \in Sizes, Good(c), c.handle,
           Flat(c) /\ ~SendBatch => c.frames = <<>>
    PROVE  Good(HandleSend(c, len)) /\ Steady(c, HandleSend(c, len))
<1> DEFINE m == [id |-> c.sends + 1, len |-> len]
           n == c.sends + 1
           called == [c EXCEPT !.sends = n]
<1>0. c \in Connection /\ Callable(c)
  BY DEF Sound, Accounts, Callable, Good, Held, Told
<1>1. /\ n \in Nat /\ c.refusedSends + 1 \in Nat /\ c.free \in Nat /\ len \in Nat
      /\ c.queuedBytes \in Nat /\ c.queue \in Seq(OutMessage)
  <2>1. len \in Nat
    BY DriverAssumption
  <2> QED BY <1>0, <2>1, SMTT(30) DEF Connection
<1>2. m \in OutMessage /\ m.len = len
  BY <1>1 DEF OutMessage
<1> HIDE DEF n
<1>3. called \in Connection
  BY <1>0, <1>1 DEF Connection
<1>4. /\ called.queue = c.queue /\ called.queuedBytes = c.queuedBytes /\ called.free = c.free
      /\ called.closed = c.closed /\ called.opened = c.opened /\ Quiet(c, called)
  BY <1>0 DEF Connection, Quiet, Apart, Aside
<1>5. HandleSend(c, len) =
        IF c.closed \/ ~c.opened THEN called
        ELSE IF SendResult(c, len) = "Accepted" THEN SchedulePump(EngineSend(called, <<m>>))
        ELSE IF SendResult(c, len) # "Backpressure" THEN called
        ELSE IF Policy = "queue" /\ c.queuedBytes + len <= MaxQueuedBytes
        THEN Enqueue(called, m)
        ELSE [called EXCEPT !.refusedSends = @ + 1]
  BY DEF HandleSend, n
<1> HIDE DEF called, m
<1>6. Good(called) /\ Steady(c, called) /\ Sound(called)
  BY <1>3, <1>4, QuietGood, Carried
<1>7. ASSUME ~c.closed, SendResult(c, len) = "Accepted"
      PROVE  LET d == SchedulePump(EngineSend(called, <<m>>)) IN Good(d) /\ Steady(c, d)
  <2> DEFINE e == EngineSend(called, <<m>>)
             d == SchedulePump(e)
  <2>1. len <= c.free
    BY <1>1, <1>7 DEF SendResult
  <2>2. Bytes(<<m>>) = len
    BY <1>1, <1>2, BytesFacts
  <2>3. <<m>> \in Seq(OutMessage) /\ Bytes(<<m>>) <= called.free
    BY <1>2, <1>4, <2>1, <2>2
  <2>4. Accounts(e)
    BY <1>6, <2>3, EngineSendAccounts DEF Sound
  <2>5. Apart(called, e)
    BY <1>3, EngineSendApart
  <2> HIDE DEF e
  <2>6. Held(e) /\ Steady(called, e)
    BY <1>6, <2>5, AsideHeld DEF Good, Apart, SameTimer
  <2>7. Stack(e)
    BY <1>6, <2>5 DEF Good, Apart, Aside, Stack, Below, Flat
  <2>8. /\ Callable(e) /\ ~e.closed
        /\ (Flat(e) /\ ~SendBatch => e.frames = <<>>)
    BY <1>0, <1>4, <1>7, <2>5 DEF Callable, Quiet, Apart, Aside, Flat
  <2>9. Good(d) /\ Steady(e, d)
    BY <2>4, <2>6, <2>7, <2>8, SchedulePumpGood
  <2> HIDE DEF d
  <2>10. Steady(c, d)
    BY <1>6, <2>6, <2>9 DEF Steady
  <2> QED BY <2>9, <2>10 DEF d, e
<1>8. Good(Enqueue(called, m)) /\ Steady(c, Enqueue(called, m))
  <2> DEFINE q == Append(called.queue, m)
             k == called.queuedBytes + m.len
             d == [called EXCEPT !.queue = q, !.queuedBytes = k]
  <2>1. Enqueue(called, m) = d
    BY DEF Enqueue
  <2> HIDE DEF q, k
  <2>2. Quiet(called, d)
    BY <1>3 DEF Connection, Quiet, Apart, Aside
  <2> HIDE DEF d
  <2>3. Good(d) /\ Steady(called, d)
    BY <1>6, <2>2, QuietGood
  <2>4. Steady(c, d)
    BY <1>6, <2>3 DEF Steady
  <2> QED BY <2>1, <2>3, <2>4
<1>9. LET d == [called EXCEPT !.refusedSends = @ + 1] IN Good(d) /\ Steady(c, d)
  <2> DEFINE d == [called EXCEPT !.refusedSends = @ + 1]
  <2>1. Quiet(called, d)
    BY <1>3 DEF Connection, Quiet, Apart, Aside
  <2> HIDE DEF d
  <2>2. Good(d) /\ Steady(called, d)
    BY <1>6, <2>1, QuietGood
  <2>3. Steady(c, d)
    BY <1>6, <2>2 DEF Steady
  <2> QED BY <2>2, <2>3 DEF d
<1> QED BY <1>5, <1>6, <1>7, <1>8, <1>9

LEMMA HandleCloseGood ==
    ASSUME NEW c, Sound(c), now \in Nat, Good(c), c.handle, Flat(c) => c.frames = <<>>
    PROVE  Good(HandleClose(c)) /\ Steady(c, HandleClose(c))
<1> DEFINE e == End(c)
           d == Pump(e, "close")
<1>0. c \in Connection /\ c.opened /\ c.phase = "running"
  BY DEF Sound, Accounts, Good, Held, Told
<1>1. Accounts(e) /\ Apart(c, e)
  BY <1>0, EndSound, EndApart DEF Sound
<1> HIDE DEF e
<1>2. Held(e) /\ Steady(c, e)
  BY <1>1, AsideHeld DEF Good, Apart, SameTimer
<1>3. Stack(e) /\ e.opened /\ e.phase = "running" /\ (Flat(e) => e.frames = <<>>)
  BY <1>0, <1>1 DEF Good, Apart, Aside, Stack, Below, Flat
<1>4. Good(d) /\ Steady(e, d)
  BY <1>1, <1>2, <1>3, PumpGood
<1> HIDE DEF d
<1>5. Steady(c, d)
  BY <1>2, <1>4 DEF Steady
<1>6. Steady(c, c)
  BY DEF Steady
<1> QED BY <1>4, <1>5, <1>6 DEF HandleClose, d, e

-----------------------------------------------------------------------------
(* The loop of pump.                                                       *)

LEMMA TakenGood ==
    ASSUME Inv, Good(s), Running, Top.batch # <<>>
    PROVE  /\ Good(Taken) /\ Steady(s, Taken) /\ Sound(Taken) /\ Taken.frames # <<>>
           /\ Aside(s, Taken)
<1> DEFINE f == [Top EXCEPT !.batch = Tail(Top.batch)]
           fs == [s.frames EXCEPT ![1] = f]
           d == [s EXCEPT !.frames = fs]
<1>1. Sound(Taken) /\ Taken = d
  BY TakenSound
<1>2. /\ s \in Connection /\ s.frames \in Seq(Frame) /\ 1 \in 1..Len(s.frames)
      /\ Top = s.frames[1] /\ Top \in Frame
  BY TopTyped
<1>3. f.after = Top.after /\ f.more = Top.more
  BY <1>2 DEF Frame
<1> HIDE DEF f
<1>4. /\ DOMAIN fs = DOMAIN s.frames /\ Len(fs) = Len(s.frames) /\ Len(s.frames) \in Nat
      /\ \A i \in DOMAIN s.frames : fs[i] = IF i = 1 THEN f ELSE s.frames[i]
  BY <1>2
<1>5. \A i \in DOMAIN s.frames : fs[i].after = s.frames[i].after /\ fs[i].more = s.frames[i].more
  BY <1>2, <1>3, <1>4
<1>6. fs # <<>>
  BY <1>2, <1>4
<1> HIDE DEF fs
<1>7. /\ Aside(s, d) /\ d.frames = fs /\ d.timer = s.timer /\ d.ev = s.ev
      /\ d.up = s.up /\ d.done = s.done /\ d.lib = s.lib
  BY <1>2 DEF Connection, Aside
<1> HIDE DEF d
<1>8. Held(d) /\ Steady(s, d)
  BY <1>7, AsideHeld DEF Good, SameTimer
<1>9. Stack(d)
  BY <1>2, <1>4, <1>5, <1>7 DEF Good, Stack, Below, Flat, Aside, Running
<1>10. Spoken(d)
  BY <1>4, <1>5, <1>7 DEF Good, Spoken, Aside
<1>11. Armed(d)
  BY <1>7 DEF Good, Armed, Covers, NextDeadline, Aside
<1> QED BY <1>1, <1>6, <1>7, <1>8, <1>9, <1>10, <1>11 DEF Good

LEMMA ApplyEventGood ==
    ASSUME Inv, Good(s), ApplyEvent
    PROVE  Good(s') /\ Step(s, s')
<1> DEFINE e == Head(Top.batch)
           T == Taken
<1>1. Running /\ Top.batch # <<>> /\ s.frames # <<>>
  BY DEF ApplyEvent, Running
<1>2. Good(T) /\ Steady(s, T) /\ Sound(T) /\ T.frames # <<>> /\ e.kind \in Kinds /\ T \in Connection
  <2>1. e \in Event
    BY <1>1, TopTyped
  <2> QED BY <1>1, <2>1, TakenGood DEF Event, Sound, Accounts
<1>3. CASE e.kind = "Datagram"
  <2>1. s' = T
    BY <1>3 DEF ApplyEvent
  <2> QED BY <1>2, <2>1, SteadyStep
<1>4. CASE e.kind = "Opened"
  <2>1. CASE s.opened
    <3>1. s' = T
      BY <1>4, <2>1 DEF ApplyEvent
    <3> QED BY <1>2, <3>1, SteadyStep
  <2>2. CASE ~s.opened
    <3> DEFINE n == T.onOpens + 1
               p == Settle(T.promise, "resolved")
               d == [T EXCEPT !.opened = TRUE, !.onOpens = n, !.promise = p]
    <3>1. s' = d
      BY <1>4, <2>2 DEF ApplyEvent
    <3> HIDE DEF T
    <3>2. ~T.opened /\ ~T.closed /\ T.phase = "running"
      BY <1>2, <2>2 DEF Good, Stack, Below, Flat, Steady
    <3>3. n = 1 /\ p = "resolved"
      BY <1>2, <3>2 DEF Good, Held, Told, Settle
    <3> HIDE DEF n, p
    <3>4. /\ d.opened = TRUE /\ d.closed = T.closed /\ d.phase = T.phase /\ d.handle = T.handle
          /\ d.inbound = T.inbound /\ d.inboundScheduled = T.inboundScheduled
          /\ d.outboundScheduled = T.outboundScheduled /\ d.tasks = T.tasks /\ d.timer = T.timer
          /\ d.disposes = T.disposes /\ d.misused = T.misused /\ d.socket = T.socket
          /\ d.promise = p /\ d.onOpens = n /\ d.onCloses = T.onCloses
          /\ d.packets = T.packets /\ d.frames = T.frames /\ d.ev = T.ev
          /\ d.up = T.up /\ d.done = T.done /\ d.lib = T.lib
      BY <1>2 DEF Connection
    <3> HIDE DEF d
    <3>5. Told(d)
      BY <1>2, <3>2, <3>3, <3>4 DEF Good, Held, Told
    <3>6. Flagged(d)
      BY <1>2, <3>4 DEF Good, Held, Flagged
    <3>7. Stack(d)
      BY <1>2, <3>2, <3>4 DEF Good, Stack, Below, Flat
    <3>8. Spoken(d) /\ Armed(d)
      BY <1>2, <3>4 DEF Good, Spoken, Armed, Covers, NextDeadline
    <3>9. Step(s, d)
      BY <1>1, <1>2, <2>2, <3>2, <3>4 DEF Step, Lives, Steady
    <3> QED BY <3>1, <3>5, <3>6, <3>7, <3>8, <3>9 DEF Good, Held
  <2> QED BY <2>1, <2>2
<1>5. CASE e.kind = "Message"
  <2> DEFINE ps == Append(T.packets, e.id)
             P == [T EXCEPT !.packets = ps]
  <2>1. s' \in AfterPacket(P)
    BY <1>5 DEF ApplyEvent
  <2>2. Sound(P)
    <3>1. ps \in Seq(Nat)
      <4>1. T.packets \in Seq(Nat) /\ e.id \in Nat
        <5>1. e \in Event
          BY <1>1, TopTyped
        <5> HIDE DEF T, e
        <5> QED BY <1>2, <5>1 DEF Connection, Event
      <4> HIDE DEF T, e
      <4> QED BY <4>1
    <3> HIDE DEF T, ps
    <3>2. P \in Connection
      BY <1>2, <3>1 DEF Connection
    <3>3. P.queue = T.queue /\ P.queuedBytes = T.queuedBytes /\ P.closed = T.closed /\ P.free = T.free
      BY <1>2 DEF Connection
    <3> HIDE DEF P
    <3> QED BY <1>2, <3>2, <3>3, Carried
  <2>3. Good(P) /\ P.opened = T.opened /\ P.closed = T.closed /\ P.phase = T.phase
    <3> HIDE DEF T, ps
    <3>1. /\ P.opened = T.opened /\ P.closed = T.closed /\ P.phase = T.phase /\ P.handle = T.handle
          /\ P.inbound = T.inbound /\ P.inboundScheduled = T.inboundScheduled
          /\ P.outboundScheduled = T.outboundScheduled /\ P.tasks = T.tasks /\ P.timer = T.timer
          /\ P.disposes = T.disposes /\ P.misused = T.misused /\ P.socket = T.socket
          /\ P.promise = T.promise /\ P.onOpens = T.onOpens /\ P.onCloses = T.onCloses
          /\ P.frames = T.frames /\ P.ev = T.ev
          /\ P.up = T.up /\ P.done = T.done /\ P.lib = T.lib
      BY <1>2 DEF Connection
    <3> HIDE DEF P
    <3>2. Told(P)
      BY <1>2, <3>1 DEF Good, Held, Told
    <3>3. Flagged(P)
      BY <1>2, <3>1 DEF Good, Held, Flagged
    <3>4. Stack(P)
      BY <1>2, <3>1 DEF Good, Stack, Below, Flat
    <3>5. Spoken(P) /\ Armed(P)
      BY <1>2, <3>1 DEF Good, Spoken, Armed, Covers, NextDeadline
    <3> QED BY <3>1, <3>2, <3>3, <3>4, <3>5 DEF Good, Held
  <2> HIDE DEF P, T
  <2>4. P.handle => P.opened
    BY <2>3 DEF Good, Held, Told
  <2>5. ASSUME P.handle, "close" \in Reentrant
        PROVE  Good(HandleClose(P)) /\ Steady(P, HandleClose(P))
    <3>1. ~Flat(P)
      BY <2>4, <2>5 DEF Flat
    <3> QED BY <2>2, <2>3, <2>5, <3>1, HandleCloseGood DEF Inv
  <2>6. ASSUME NEW len \in Sizes, P.handle
        PROVE  Good(HandleSend(P, len)) /\ Steady(P, HandleSend(P, len))
    <3>1. ~(Flat(P) /\ ~SendBatch)
      BY <2>4, <2>6 DEF Flat
    <3> QED BY <2>2, <2>3, <2>6, <3>1, HandleSendGood DEF Inv
  <2>7. Good(s') /\ (s' = P \/ Steady(P, s'))
    BY <2>1, <2>3, <2>5, <2>6 DEF AfterPacket
  <2>8. Step(s, s')
    <3>1. s'.opened = s.opened /\ s'.closed = s.closed /\ s'.phase = s.phase
      BY <1>2, <2>3, <2>7 DEF Steady
    <3> QED BY <1>1, <3>1 DEF Step, Lives
  <2> QED BY <2>7, <2>8
<1>6. CASE e.kind = "Closed"
  <2>1. s' = ApplyClosed(s)
    BY <1>6 DEF ApplyEvent
  <2> QED BY <1>1, <2>1, ApplyClosedGood
<1> QED BY <1>2, <1>3, <1>4, <1>5, <1>6 DEF Kinds

LEMMA DrainEventsGood ==
    ASSUME Inv, Good(s), DrainEvents
    PROVE  Good(s') /\ Step(s, s')
<1> DEFINE n == IF BatchMode THEN EventBatchSize ELSE 1
           k == IF n < Len(s.ev) THEN n ELSE Len(s.ev)
           taken == IF s.closed THEN <<>> ELSE SubSeq(s.ev, 1, k)
           ev == SubSeq(s.ev, Len(taken) + 1, Len(s.ev))
           misused == IF s.closed THEN s.misused \cup {"pollEvent"} ELSE s.misused
           drained == [s EXCEPT !.ev = ev, !.misused = misused]
           f == [Top EXCEPT !.batch = taken, !.more = FullBatch(taken, n)]
           fs == [s.frames EXCEPT ![1] = f]
<1>1. Running /\ ~Exhausted /\ s.frames # <<>>
  BY DEF DrainEvents, Running
<1>2. /\ s \in Connection /\ s.frames \in Seq(Frame) /\ 1 \in 1..Len(s.frames)
      /\ Top = s.frames[1] /\ Top \in Frame /\ s.ev \in Seq(Event) /\ Len(s.ev) \in Nat
  <2>1. s \in Connection
    BY <1>1, TopTyped
  <2> QED BY <1>1, <2>1, TopTyped, SMTT(30) DEF Connection
<1>3. n \in Nat /\ n > 0
  BY DriverAssumption DEF BatchMode
<1>4. /\ s' = IF taken = <<>> THEN Return(drained)
             ELSE [drained EXCEPT !.frames[1] = [@ EXCEPT !.batch = taken, !.more = FullBatch(taken, n)]]
  BY DEF DrainEvents
<1>5. BatchMode => ~s.closed
  BY <1>1 DEF Exhausted
<1> HIDE DEF n
<1>6. k \in 0..Len(s.ev) /\ (k < Len(s.ev) => k = n) /\ (Len(s.ev) # 0 => k > 0)
  BY <1>2, <1>3
<1> HIDE DEF k
<1>7. /\ taken \in Seq(Event) /\ (~s.closed => Len(taken) = k)
      /\ Len(taken) \in Nat
  BY <1>2, <1>6
<1>8. /\ ev \in Seq(Event) /\ (~s.closed /\ k = Len(s.ev) => ev = <<>>)
  <2> HIDE DEF taken
  <2>1. ev \in Seq(Event)
    BY <1>2, <1>7
  <2>2. ASSUME ~s.closed, k = Len(s.ev) PROVE ev = <<>>
    BY <1>2, <1>7, <2>2
  <2> QED BY <2>1, <2>2
<1>9. (BatchMode => misused = s.misused) /\ misused \in SUBSET {"stats", "pollEvent"}
  BY <1>2, <1>5 DEF Connection
<1>10. taken = <<>> /\ ~s.closed => ev = <<>>
  <2> HIDE DEF ev, taken
  <2> QED BY <1>2, <1>6, <1>7, <1>8
<1> HIDE DEF ev, misused, taken
<1>11. drained \in Connection
  BY <1>2, <1>8, <1>9 DEF Connection
<1>12. /\ drained.opened = s.opened /\ drained.closed = s.closed /\ drained.phase = s.phase
       /\ drained.handle = s.handle /\ drained.inbound = s.inbound
       /\ drained.inboundScheduled = s.inboundScheduled
       /\ drained.outboundScheduled = s.outboundScheduled /\ drained.tasks = s.tasks
       /\ drained.timer = s.timer /\ drained.disposes = s.disposes /\ drained.misused = misused
       /\ drained.socket = s.socket /\ drained.promise = s.promise /\ drained.onOpens = s.onOpens
       /\ drained.onCloses = s.onCloses /\ drained.packets = s.packets
       /\ drained.frames = s.frames /\ drained.ev = ev /\ drained.up = s.up
       /\ drained.done = s.done /\ drained.lib = s.lib /\ drained.queue = s.queue
       /\ drained.queuedBytes = s.queuedBytes /\ drained.free = s.free
  BY <1>2 DEF Connection
<1>13. DOMAIN drained = DOMAIN s
  OBVIOUS
<1> HIDE DEF drained
<1>14. Told(drained)
  BY <1>12 DEF Good, Held, Told
<1>15. Flagged(drained)
  BY <1>9, <1>12 DEF Good, Held, Flagged
<1>16. Stack(drained)
  BY <1>12 DEF Good, Stack, Below, Flat
<1>17. Armed(drained)
  BY <1>12 DEF Good, Armed, Covers, NextDeadline
<1>18. Accounts(drained)
  BY <1>11, <1>12, Carried DEF Inv, Sound
<1>19. s.phase = "running"
  BY <1>1 DEF Good, Stack, Below
<1>20. CASE taken = <<>>
  <2>1. drained.closed \/ drained.ev = <<>>
    BY <1>10, <1>12, <1>20
  <2>2. Spoken(drained)
    BY <2>1 DEF Spoken
  <2> DEFINE d == Return(drained)
  <2>3. /\ Good(d) /\ d.packets = drained.packets /\ d.opened = drained.opened
        /\ d.phase = drained.phase /\ (drained.closed => d.closed)
    BY <1>1, <1>12, <1>14, <1>15, <1>16, <1>17, <1>18, <2>1, <2>2, ReturnGood DEF Held, Stack
  <2>4. s' = d
    BY <1>4, <1>20
  <2>5. d.closed \in BOOLEAN
    <3>1. Sound(drained)
      BY <1>11, <1>12, Carried DEF Inv
    <3>2. Sound(d)
      BY <1>1, <1>12, <3>1, ReturnSound
    <3> QED BY <3>2 DEF Sound, Accounts, Connection
  <2> HIDE DEF d
  <2>6. Step(s, d)
    BY <1>2, <1>12, <1>19, <2>3, <2>5, SMTT(30) DEF Step, Lives, Connection
  <2> QED BY <2>3, <2>4, <2>6
<1>21. CASE taken # <<>>
  <2> DEFINE full == FullBatch(taken, n)
             d == [drained EXCEPT !.frames = fs]
  <2>1. full \in BOOLEAN
    BY DEF FullBatch
  <2>2. f = [Top EXCEPT !.batch = taken, !.more = full]
    OBVIOUS
  <2>3. s' = d
    BY <1>2, <1>4, <1>12, <1>21
  <2>4. ~full => ev = <<>> \/ s.closed
    BY <1>2, <1>6, <1>7, <1>8 DEF FullBatch
  <2> HIDE DEF full, f
  <2>5. f.after = Top.after /\ f.more = full
    BY <1>2, <2>1, <2>2 DEF Frame
  <2>6. /\ DOMAIN fs = DOMAIN s.frames /\ Len(fs) = Len(s.frames) /\ fs[1] = f
        /\ \A i \in DOMAIN s.frames : fs[i] = IF i = 1 THEN f ELSE s.frames[i]
        /\ 1 \in DOMAIN s.frames
    BY <1>2
  <2>7. \A i \in DOMAIN s.frames : fs[i].after = s.frames[i].after
    BY <1>2, <2>5, <2>6
  <2> HIDE DEF fs
  <2>8. Aside(drained, d) /\ d.frames = fs /\ d.timer = drained.timer /\ d.ev = drained.ev
        /\ d.up = drained.up /\ d.done = drained.done /\ d.lib = drained.lib
    BY <1>11 DEF Connection, Aside
  <2> HIDE DEF d
  <2>9. Held(d) /\ Steady(drained, d)
    BY <1>14, <1>15, <2>8, AsideHeld DEF Held, SameTimer
  <2>10. Stack(d)
    <3>1. ~(Flat(s) /\ s.closed)
      BY <1>1 DEF Good, Stack
    <3> QED BY <1>12, <1>16, <2>6, <2>7, <2>8, <3>1 DEF Stack, Below, Flat, Aside
  <2>11. Spoken(d)
    BY <1>12, <2>4, <2>5, <2>6, <2>8 DEF Spoken, Aside
  <2>12. Armed(d)
    BY <1>17, <2>8 DEF Armed, Covers, NextDeadline, Aside
  <2>13. Steady(s, d)
    BY <1>12, <2>9 DEF Steady
  <2> QED BY <2>3, <2>9, <2>10, <2>11, <2>12, <2>13, SteadyStep DEF Good
<1> QED BY <1>20, <1>21

LEMMA PumpReturnsGood ==
    ASSUME Inv, Good(s), PumpReturns
    PROVE  Good(s') /\ Step(s, s')
<1>1. /\ Running /\ s.frames # <<>> /\ s' = Return(s) /\ (s.closed \/ ~Head(s.frames).more)
  BY DEF PumpReturns, Running, Exhausted, Top
<1>2. s \in Connection /\ Accounts(s) /\ s.phase = "running"
  BY <1>1, TopTyped DEF Good, Stack, Below
<1> DEFINE d == Return(s)
<1>3. /\ Good(d) /\ d.packets = s.packets /\ d.opened = s.opened /\ d.phase = s.phase
      /\ s.closed => d.closed
  BY <1>1, <1>2, ReturnGood DEF Good, Stack
<1>4. d.closed \in BOOLEAN
  <2>1. Sound(d)
    BY <1>1, ReturnSound DEF Inv
  <2> QED BY <2>1 DEF Sound, Accounts, Connection
<1> HIDE DEF d
<1>5. Step(s, d)
  BY <1>2, <1>3, <1>4 DEF Step, Lives, Connection
<1> QED BY <1>1, <1>3, <1>5 DEF d

-----------------------------------------------------------------------------
(* The tasks.                                                              *)

\* What the set-up changes before there is an engine.
SetUp(c, d) ==
    /\ d.opened = c.opened /\ d.closed = c.closed /\ d.handle = c.handle
    /\ d.inbound = c.inbound /\ d.inboundScheduled = c.inboundScheduled
    /\ d.outboundScheduled = c.outboundScheduled /\ d.tasks = c.tasks
    /\ d.timer = c.timer /\ d.disposes = c.disposes /\ d.misused = c.misused
    /\ d.onOpens = c.onOpens /\ d.onCloses = c.onCloses /\ d.packets = c.packets
    /\ d.frames = c.frames /\ d.ev = c.ev /\ d.queue = c.queue
    /\ \/ d.phase = "create" /\ d.promise = c.promise
       \/ d.phase = "failed" /\ d.promise = "rejected" /\ d.socket # "open"

LEMMA SetUpGood ==
    ASSUME Inv, Good(s), NEW ok \in BOOLEAN, Bind(ok) \/ CreateEngine(ok)
    PROVE  Good(s') /\ Step(s, s') /\ (s'.phase # "running" => s'.queue = s.queue)
<1>0. s \in Connection /\ Accounts(s) /\ now \in Nat /\ s.frames = <<>>
  BY DEF Inv, Sound, Accounts, Bind, CreateEngine, Task, Running
<1>1. ASSUME NEW d, s.phase \in {"bind", "create"}, SetUp(s, d)
      PROVE  Good(d) /\ Step(s, d) /\ d.queue = s.queue
  <2>2. Told(d)
    BY <1>1 DEF Good, Held, Told, SetUp
  <2>3. Flagged(d)
    BY <1>1 DEF Good, Held, Flagged, SetUp
  <2>4. Stack(d)
    BY <1>0, <1>1 DEF Good, Stack, Below, Flat, SetUp
  <2>5. Spoken(d) /\ Armed(d)
    BY <1>1 DEF Good, Spoken, Armed, SetUp
  <2>6. Step(s, d)
    BY <1>1 DEF Step, Lives, SetUp
  <2> QED BY <1>1, <2>2, <2>3, <2>4, <2>5, <2>6 DEF Good, Held, SetUp
<1>2. CASE Bind(ok)
  <2>1. s.phase = "bind" /\ s.socket # "open"
    BY <1>2 DEF Bind, Task, Good, Held, Told
  <2>2. CASE ok
    <3>1. s' = [s EXCEPT !.phase = "create", !.socket = "open"]
      BY <1>2, <2>2 DEF Bind
    <3>2. SetUp(s, s')
      BY <1>0, <3>1 DEF SetUp, Connection
    <3> QED BY <1>1, <2>1, <3>2
  <2>3. CASE ~ok
    <3>1. s' = [s EXCEPT !.phase = "failed", !.promise = "rejected"]
      BY <1>2, <2>3 DEF Bind
    <3>2. SetUp(s, s')
      BY <1>0, <2>1, <3>1 DEF SetUp, Connection
    <3> QED BY <1>1, <2>1, <3>2
  <2> QED BY <2>2, <2>3
<1>3. CASE CreateEngine(ok)
  <2>0. s.phase = "create"
    BY <1>3 DEF CreateEngine, Task
  <2>1. CASE ~ok
    <3>1. s' = [s EXCEPT !.phase = "failed", !.socket = "closed", !.promise = "rejected"]
      BY <1>3, <2>1 DEF CreateEngine
    <3>2. SetUp(s, s')
      BY <1>0, <3>1 DEF SetUp, Connection
    <3> QED BY <1>1, <2>0, <3>2
  <2>2. CASE ok
    <3> DEFINE c == [s EXCEPT !.phase = "running", !.lib = now]
               d == Pump(c, "settle")
    <3>1. s' = d
      BY <1>3, <2>2 DEF CreateEngine
    <3>2. c \in Connection
      BY <1>0 DEF Connection
    <3>3. /\ c.opened = s.opened /\ c.closed = s.closed /\ c.phase = "running"
          /\ c.handle = s.handle /\ c.inbound = s.inbound
          /\ c.inboundScheduled = s.inboundScheduled
          /\ c.outboundScheduled = s.outboundScheduled /\ c.tasks = s.tasks
          /\ c.timer = s.timer /\ c.disposes = s.disposes /\ c.misused = s.misused
          /\ c.socket = s.socket /\ c.promise = s.promise /\ c.onOpens = s.onOpens
          /\ c.onCloses = s.onCloses /\ c.packets = s.packets
          /\ c.frames = s.frames /\ c.queue = s.queue /\ c.queuedBytes = s.queuedBytes
          /\ c.free = s.free
      BY <1>0 DEF Connection
    <3> HIDE DEF c
    <3>4. Accounts(c)
      BY <1>0, <3>2, <3>3, Carried
    <3>5. Told(c)
      BY <2>0, <3>3 DEF Good, Held, Told
    <3>6. Flagged(c)
      BY <3>3 DEF Good, Held, Flagged
    <3>7. Stack(c)
      BY <1>0, <3>3 DEF Good, Stack, Below, Flat
    <3>8. Good(d) /\ Steady(c, d)
      BY <1>0, <3>3, <3>4, <3>5, <3>6, <3>7, PumpGood DEF Held
    <3> HIDE DEF d
    <3>9. Step(s, d) /\ d.phase = "running"
      BY <2>0, <3>3, <3>8 DEF Step, Lives, Steady
    <3> QED BY <3>1, <3>8, <3>9
  <2> QED BY <2>1, <2>2
<1> QED BY <1>2, <1>3

\* A task that feeds the engine and pumps leaves the connection in order.
LEMMA FedGood ==
    ASSUME NEW c, Held(c), Stack(c), c.frames = <<>>, c.phase = "running",
           NEW d, Accounts(d), Apart(c, d), now \in Nat
    PROVE  Good(Pump(d, "none")) /\ Steady(c, Pump(d, "none"))
<1>1. Held(d) /\ Steady(c, d)
  BY AsideHeld DEF Apart, SameTimer
<1>2. Stack(d) /\ d.frames = <<>> /\ d.phase = "running"
  BY DEF Apart, Aside, Stack, Below, Flat
<1>3. Good(Pump(d, "none")) /\ Steady(d, Pump(d, "none"))
  BY <1>1, <1>2, PumpGood
<1> QED BY <1>1, <1>3 DEF Steady

LEMMA InputGood ==
    ASSUME Inv, Good(s), NEW r \in Reactions, OnMessage(r) \/ InputFlush(r)
    PROVE  Good(s') /\ Step(s, s')
<1>0. /\ s \in Connection /\ Accounts(s) /\ now \in Nat /\ r \in Reaction
      /\ s.frames = <<>> /\ s.phase = "running"
  BY DriverAssumption DEF Inv, Sound, Accounts, OnMessage, InputFlush, Task, Running
<1>1. CASE OnMessage(r)
  <2> DEFINE n == s.inbound + 1
             tasks == s.tasks \cup {"input"}
             d == React(s, r)
  <2>1. CASE s.closed
    <3>1. s' = s
      BY <1>1, <2>1 DEF OnMessage
    <3> QED BY <3>1, SteadyStep DEF Steady
  <2>2. CASE ~s.closed /\ ~InputBatch
    <3>1. s' = Pump(d, "none")
      BY <1>1, <2>2 DEF OnMessage
    <3>2. Accounts(d) /\ Apart(s, d)
      BY <1>0, ReactAccounts, ReactApart
    <3> HIDE DEF d
    <3>3. Good(Pump(d, "none")) /\ Steady(s, Pump(d, "none"))
      BY <1>0, <3>2, FedGood DEF Good
    <3> QED BY <3>1, <3>3, SteadyStep
  <2>3. CASE ~s.closed /\ InputBatch
    <3>1. "input" \in s'.tasks /\ s'.inboundScheduled = TRUE /\ ("send" \in s'.tasks <=> "send" \in s.tasks)
      <4>1. CASE s.inboundScheduled
        <5>1. s' = [s EXCEPT !.inbound = n]
          BY <1>1, <2>3, <4>1 DEF OnMessage
        <5> HIDE DEF n
        <5>2. s'.tasks = s.tasks /\ s'.inboundScheduled = s.inboundScheduled
          BY <1>0, <5>1 DEF Connection
        <5> QED BY <4>1, <5>2 DEF Good, Held, Flagged
      <4>2. CASE ~s.inboundScheduled
        <5>1. s' = [s EXCEPT !.inbound = n, !.inboundScheduled = TRUE, !.tasks = tasks]
          BY <1>1, <2>3, <4>2 DEF OnMessage
        <5> HIDE DEF n
        <5>2. s'.tasks = tasks /\ s'.inboundScheduled = TRUE
          BY <1>0, <5>1 DEF Connection
        <5> QED BY <5>2
      <4> QED BY <4>1, <4>2
    <3>2. /\ s'.opened = s.opened /\ s'.closed = s.closed /\ s'.phase = s.phase
          /\ s'.handle = s.handle /\ s'.outboundScheduled = s.outboundScheduled
          /\ s'.disposes = s.disposes /\ s'.misused = s.misused /\ s'.socket = s.socket
          /\ s'.promise = s.promise /\ s'.onOpens = s.onOpens /\ s'.onCloses = s.onCloses
          /\ s'.packets = s.packets /\ s'.frames = s.frames /\ s'.timer = s.timer
          /\ s'.ev = s.ev /\ s'.up = s.up /\ s'.done = s.done /\ s'.lib = s.lib
      <4>1. \/ s' = [s EXCEPT !.inbound = n]
            \/ s' = [s EXCEPT !.inbound = n, !.inboundScheduled = TRUE, !.tasks = tasks]
        BY <1>1, <2>3 DEF OnMessage
      <4> HIDE DEF n, tasks
      <4>2. CASE s' = [s EXCEPT !.inbound = n]
        BY <1>0, <4>2 DEF Connection
      <4>3. CASE s' = [s EXCEPT !.inbound = n, !.inboundScheduled = TRUE, !.tasks = tasks]
        BY <1>0, <4>3 DEF Connection
      <4> QED BY <4>1, <4>2, <4>3
    <3>3. Told(s')
      BY <3>2 DEF Good, Held, Told
    <3>4. Flagged(s')
      <4>1. Flagged(s)
        BY DEF Good, Held
      <4>2. s'.inboundScheduled <=> "input" \in s'.tasks
        BY <3>1
      <4>3. s'.outboundScheduled <=> "send" \in s'.tasks
        BY <3>1, <3>2, <4>1, Zenon DEF Flagged
      <4> QED BY <3>1, <3>2, <4>1, <4>2, <4>3 DEF Flagged
    <3>5. Stack(s')
      BY <3>2 DEF Good, Stack, Below, Flat
    <3>6. Spoken(s')
      BY <3>1, <3>2 DEF Good, Spoken
    <3>7. Armed(s')
      BY <3>1, <3>2 DEF Good, Armed, Covers, NextDeadline
    <3>8. Steady(s, s')
      BY <3>2 DEF Steady
    <3> QED BY <3>3, <3>4, <3>5, <3>6, <3>7, <3>8, SteadyStep DEF Good, Held
  <2> QED BY <2>1, <2>2, <2>3
<1>2. CASE InputFlush(r)
  <2> DEFINE tasks == s.tasks \ {"input"}
             started == [s EXCEPT !.inboundScheduled = FALSE, !.tasks = tasks]
             fed == [started EXCEPT !.inbound = 0]
  <2>1. tasks \in SUBSET {"input", "send"}
    BY <1>0 DEF Connection
  <2>2. s' = IF s.closed \/ s.inbound = 0 THEN started ELSE Pump(React(fed, r), "none")
    BY <1>2 DEF InputFlush
  <2>3. "input" \notin tasks /\ ("send" \in tasks <=> "send" \in s.tasks)
    OBVIOUS
  <2> HIDE DEF tasks
  <2>4. started \in Connection
    BY <1>0, <2>1, Zenon DEF Connection
  <2>5. /\ started.opened = s.opened /\ started.closed = s.closed /\ started.phase = s.phase
        /\ started.handle = s.handle /\ started.outboundScheduled = s.outboundScheduled
        /\ started.disposes = s.disposes /\ started.misused = s.misused
        /\ started.socket = s.socket /\ started.promise = s.promise
        /\ started.onOpens = s.onOpens /\ started.onCloses = s.onCloses
        /\ started.packets = s.packets /\ started.frames = s.frames
        /\ started.timer = s.timer /\ started.ev = s.ev /\ started.up = s.up
        /\ started.done = s.done /\ started.lib = s.lib /\ started.tasks = tasks
        /\ started.inboundScheduled = FALSE /\ started.inbound = s.inbound
        /\ started.queue = s.queue /\ started.queuedBytes = s.queuedBytes /\ started.free = s.free
    BY <1>0 DEF Connection
  <2> HIDE DEF started
  <2>6. Told(started)
    BY <2>5 DEF Good, Held, Told
  <2>7. Stack(started)
    BY <2>5 DEF Good, Stack, Below, Flat
  <2>8. /\ started.inboundScheduled <=> "input" \in started.tasks
        /\ started.outboundScheduled <=> "send" \in started.tasks
        /\ BatchMode => "pollEvent" \notin started.misused
    <3>1. Flagged(s)
      BY DEF Good, Held
    <3>2. started.inboundScheduled <=> "input" \in started.tasks
      BY <2>3, <2>5
    <3>3. started.outboundScheduled <=> "send" \in started.tasks
      BY <2>3, <2>5, <3>1, Zenon DEF Flagged
    <3> QED BY <2>5, <3>1, <3>2, <3>3 DEF Flagged
  <2>9. CASE s.closed \/ s.inbound = 0
    <3>1. Flagged(started)
      <4>1. ~started.closed /\ started.inbound > 0 => "input" \in started.tasks
        BY <2>5, <2>9
      <4> QED BY <2>8, <4>1 DEF Flagged
    <3>2. Spoken(started)
      BY <2>3, <2>5 DEF Good, Spoken
    <3>3. Armed(started)
      BY <2>3, <2>5 DEF Good, Armed, Covers, NextDeadline
    <3>4. Steady(s, started)
      BY <2>5 DEF Steady
    <3> QED BY <2>2, <2>6, <2>7, <2>9, <3>1, <3>2, <3>3, <3>4, SteadyStep DEF Good, Held
  <2>10. CASE ~(s.closed \/ s.inbound = 0)
    <3>1. fed \in Connection
      BY <2>4 DEF Connection
    <3>2. /\ fed.opened = started.opened /\ fed.closed = started.closed
          /\ fed.phase = started.phase /\ fed.handle = started.handle
          /\ fed.outboundScheduled = started.outboundScheduled
          /\ fed.disposes = started.disposes /\ fed.misused = started.misused
          /\ fed.socket = started.socket /\ fed.promise = started.promise
          /\ fed.onOpens = started.onOpens /\ fed.onCloses = started.onCloses
          /\ fed.packets = started.packets /\ fed.frames = started.frames
          /\ fed.timer = started.timer /\ fed.tasks = started.tasks
          /\ fed.inboundScheduled = started.inboundScheduled /\ fed.inbound = 0
          /\ fed.queue = started.queue /\ fed.queuedBytes = started.queuedBytes
          /\ fed.free = started.free
      BY <2>4 DEF Connection
    <3> HIDE DEF fed
    <3>3. Told(fed)
      BY <2>6, <3>2 DEF Told
    <3>4. Flagged(fed)
      <4>1. ~(fed.inbound > 0)
        BY <3>2
      <4> QED BY <2>8, <3>2, <4>1 DEF Flagged
    <3>5. Stack(fed)
      BY <2>7, <3>2 DEF Stack, Below, Flat
    <3>6. Accounts(fed)
      <4>1. Accounts(started)
        BY <1>0, <2>4, <2>5, Carried
      <4> QED BY <3>1, <3>2, <4>1, Carried
    <3> DEFINE d == React(fed, r)
    <3>7. Accounts(d) /\ Apart(fed, d)
      BY <1>0, <3>1, <3>6, ReactAccounts, ReactApart
    <3>8. fed.frames = <<>> /\ fed.phase = "running" /\ Steady(s, fed)
      BY <1>0, <2>5, <3>2 DEF Steady
    <3>9. s' = Pump(d, "none")
      BY <2>2, <2>10
    <3> HIDE DEF d
    <3>10. Good(Pump(d, "none")) /\ Steady(fed, Pump(d, "none"))
      BY <1>0, <3>3, <3>4, <3>5, <3>7, <3>8, FedGood DEF Held
    <3>11. Steady(s, Pump(d, "none"))
      BY <3>8, <3>10 DEF Steady
    <3> QED BY <3>9, <3>10, <3>11, SteadyStep
  <2> QED BY <2>9, <2>10
<1> QED BY <1>1, <1>2


LEMMA SendFlushGood ==
    ASSUME Inv, Good(s), SendFlush
    PROVE  Good(s') /\ Step(s, s')
<1> DEFINE tasks == s.tasks \ {"send"}
           d == [s EXCEPT !.outboundScheduled = FALSE, !.tasks = tasks]
<1>0. /\ s \in Connection /\ Accounts(s) /\ now \in Nat
      /\ s.frames = <<>> /\ s.phase = "running"
  BY DEF Inv, Sound, Accounts, SendFlush, Task, Running
<1>1. /\ tasks \in SUBSET {"input", "send"} /\ "send" \notin tasks
      /\ "input" \in tasks <=> "input" \in s.tasks
  BY <1>0 DEF Connection
<1>2. s' = Pump(d, "none")
  BY DEF SendFlush
<1> HIDE DEF tasks
<1>3. d \in Connection
  BY <1>0, <1>1, Zenon DEF Connection
<1>4. /\ d.opened = s.opened /\ d.closed = s.closed /\ d.phase = s.phase /\ d.handle = s.handle
      /\ d.inbound = s.inbound /\ d.inboundScheduled = s.inboundScheduled
      /\ d.outboundScheduled = FALSE /\ d.tasks = tasks /\ d.timer = s.timer
      /\ d.disposes = s.disposes /\ d.misused = s.misused /\ d.socket = s.socket
      /\ d.promise = s.promise /\ d.onOpens = s.onOpens /\ d.onCloses = s.onCloses
      /\ d.packets = s.packets /\ d.frames = s.frames
      /\ d.queue = s.queue /\ d.queuedBytes = s.queuedBytes /\ d.free = s.free
  BY <1>0 DEF Connection
<1> HIDE DEF d
<1>5. Accounts(d)
  BY <1>0, <1>3, <1>4, Carried
<1>6. Told(d)
  BY <1>4 DEF Good, Held, Told
<1>7. Flagged(d)
  BY <1>1, <1>4 DEF Good, Held, Flagged
<1>8. Stack(d) /\ d.frames = <<>> /\ d.phase = "running"
  BY <1>0, <1>4 DEF Good, Stack, Below, Flat
<1>9. Good(Pump(d, "none")) /\ Steady(d, Pump(d, "none"))
  BY <1>0, <1>5, <1>6, <1>7, <1>8, PumpGood DEF Held
<1>10. Steady(s, Pump(d, "none"))
  BY <1>4, <1>9 DEF Steady
<1> QED BY <1>2, <1>9, <1>10, SteadyStep

LEMMA TimerFireGood ==
    ASSUME Inv, Good(s), NEW r \in Reactions, TimerFire(r)
    PROVE  Good(s') /\ Step(s, s')
<1> DEFINE d == [s EXCEPT !.timer = NoTime]
<1>0. /\ s \in Connection /\ Accounts(s) /\ now \in Nat /\ r \in Reaction
      /\ s.frames = <<>> /\ s.phase = "running"
  BY DriverAssumption DEF Inv, Sound, Accounts, TimerFire, Task, Running
<1>1. d \in Connection
  BY <1>0 DEF Connection
<1>2. /\ Aside(s, d) /\ d.frames = s.frames /\ d.timer = NoTime
      /\ d.queue = s.queue /\ d.queuedBytes = s.queuedBytes /\ d.free = s.free
  BY <1>0 DEF Connection, Aside
<1>3. s' = Pump(EngineTick(d, r), "none")
  BY DEF TimerFire
<1> HIDE DEF d
<1>4. Accounts(d)
  BY <1>0, <1>1, <1>2, Carried DEF Aside
<1>5. Held(d)
  <2>1. Told(d)
    BY <1>2 DEF Good, Held, Told, Aside
  <2>2. Flagged(d)
    BY <1>2 DEF Good, Held, Flagged, Aside
  <2> QED BY <2>1, <2>2 DEF Held
<1>6. Stack(d) /\ d.frames = <<>> /\ d.phase = "running" /\ Steady(s, d)
  BY <1>0, <1>2 DEF Good, Stack, Below, Flat, Aside, Steady
<1> DEFINE e == EngineTick(d, r)
<1>7. Accounts(e) /\ Apart(d, e)
  BY <1>0, <1>4, TickAccounts, TickApart
<1> HIDE DEF e
<1>8. Good(Pump(e, "none")) /\ Steady(d, Pump(e, "none"))
  BY <1>0, <1>5, <1>6, <1>7, FedGood
<1>9. Steady(s, Pump(e, "none"))
  BY <1>6, <1>8 DEF Steady
<1> QED BY <1>3, <1>8, <1>9, SteadyStep DEF e

LEMMA HostGood ==
    ASSUME Inv, Good(s),
           OnError \/ Awaken \/ (\E len \in Sizes : Send(len)) \/ Close \/ Stats \/ Advance
    PROVE  Good(s') /\ Step(s, s')
<1>0. s \in Connection /\ Accounts(s) /\ Sound(s) /\ now \in Nat /\ s.closed \in BOOLEAN
  BY DEF Inv, Sound, Accounts, Connection
<1>1. CASE OnError
  <2> DEFINE d == Finish(s)
  <2>1. s.frames = <<>> /\ s.phase = "running" /\ s' = d
    BY <1>1 DEF OnError, Task, Running
  <2>2. /\ Held(d) /\ d.closed /\ d.opened = s.opened /\ d.phase = s.phase
        /\ d.frames = s.frames /\ d.packets = s.packets
    BY <1>0, <2>1, FinishHeld DEF Good
  <2>3. d.closed = TRUE
    <3>1. Sound(d)
      BY <1>0, FinishSound
    <3> QED BY <2>2, <3>1 DEF Sound, Accounts, Connection
  <2> HIDE DEF d
  <2>4. Stack(d)
    BY <2>1, <2>2 DEF Good, Stack, Below, Flat
  <2>5. Spoken(d) /\ Armed(d)
    BY <2>2 DEF Spoken, Armed
  <2>6. Step(s, d)
    BY <1>0, <2>1, <2>2, <2>3 DEF Step, Lives
  <2> QED BY <2>1, <2>2, <2>4, <2>5, <2>6 DEF Good
<1>2. CASE Awaken
  <2>1. s' = [s EXCEPT !.handle = TRUE] /\ s.promise = "resolved"
    BY <1>2 DEF Awaken
  <2>2. /\ s'.opened = s.opened /\ s'.closed = s.closed /\ s'.phase = s.phase
        /\ s'.inbound = s.inbound /\ s'.inboundScheduled = s.inboundScheduled
        /\ s'.outboundScheduled = s.outboundScheduled /\ s'.tasks = s.tasks
        /\ s'.disposes = s.disposes /\ s'.misused = s.misused /\ s'.socket = s.socket
        /\ s'.promise = s.promise /\ s'.onOpens = s.onOpens /\ s'.onCloses = s.onCloses
        /\ s'.packets = s.packets /\ s'.frames = s.frames /\ s'.timer = s.timer
        /\ s'.ev = s.ev /\ s'.up = s.up /\ s'.done = s.done /\ s'.lib = s.lib
    BY <1>0, <2>1 DEF Connection
  <2>3. s.opened
    BY <2>1 DEF Good, Held, Told
  <2>4. Told(s')
    BY <2>2, <2>3 DEF Good, Held, Told
  <2>5. Flagged(s')
    BY <2>2 DEF Good, Held, Flagged
  <2>6. Stack(s')
    BY <2>2 DEF Good, Stack, Below, Flat
  <2>7. Spoken(s')
    BY <2>2 DEF Good, Spoken
  <2>8. Armed(s')
    BY <2>2 DEF Good, Armed, Covers, NextDeadline
  <2>9. Steady(s, s')
    BY <2>2 DEF Steady
  <2> QED BY <2>4, <2>5, <2>6, <2>7, <2>8, <2>9, SteadyStep DEF Good, Held
<1>3. CASE \E len \in Sizes : Send(len)
  <2>1. PICK len \in Sizes : Send(len)
    BY <1>3
  <2>2. s.frames = <<>> /\ s.handle /\ s' = HandleSend(s, len)
    BY <2>1 DEF Send, Task, Running
  <2>3. Good(HandleSend(s, len)) /\ Steady(s, HandleSend(s, len))
    BY <1>0, <2>2, HandleSendGood
  <2> QED BY <2>2, <2>3, SteadyStep
<1>4. CASE Close
  <2>1. s.frames = <<>> /\ s.handle /\ s' = HandleClose(s)
    BY <1>4 DEF Close, Task, Running
  <2>2. Good(HandleClose(s)) /\ Steady(s, HandleClose(s))
    BY <1>0, <2>1, HandleCloseGood
  <2> QED BY <2>1, <2>2, SteadyStep
<1>5. CASE Stats
  <2> DEFINE m == IF s.disposes > 0 THEN s.misused \cup {"stats"} ELSE s.misused
  <2>1. s' = [s EXCEPT !.misused = m]
    BY <1>5 DEF Stats
  <2>2. "pollEvent" \in m => "pollEvent" \in s.misused
    OBVIOUS
  <2> HIDE DEF m
  <2>3. /\ s'.opened = s.opened /\ s'.closed = s.closed /\ s'.phase = s.phase
        /\ s'.inbound = s.inbound /\ s'.inboundScheduled = s.inboundScheduled
        /\ s'.outboundScheduled = s.outboundScheduled /\ s'.tasks = s.tasks
        /\ s'.disposes = s.disposes /\ s'.misused = m /\ s'.socket = s.socket
        /\ s'.promise = s.promise /\ s'.onOpens = s.onOpens /\ s'.onCloses = s.onCloses
        /\ s'.packets = s.packets /\ s'.frames = s.frames /\ s'.timer = s.timer
        /\ s'.ev = s.ev /\ s'.up = s.up /\ s'.done = s.done /\ s'.lib = s.lib
        /\ s'.handle = s.handle
    BY <1>0, <2>1 DEF Connection
  <2>4. Told(s')
    BY <2>3 DEF Good, Held, Told
  <2>5. Flagged(s')
    BY <2>2, <2>3 DEF Good, Held, Flagged
  <2>6. Stack(s')
    BY <2>3 DEF Good, Stack, Below, Flat
  <2>7. Spoken(s')
    BY <2>3 DEF Good, Spoken
  <2>8. Armed(s')
    BY <2>3 DEF Good, Armed, Covers, NextDeadline
  <2>9. Steady(s, s')
    BY <2>3 DEF Steady
  <2> QED BY <2>4, <2>5, <2>6, <2>7, <2>8, <2>9, SteadyStep DEF Good, Held
<1>6. CASE Advance
  <2>1. s' = s
    BY <1>6 DEF Advance
  <2>2. Steady(s, s)
    BY DEF Steady
  <2> QED BY <2>1, <2>2, SteadyStep
<1> QED BY <1>1, <1>2, <1>3, <1>4, <1>5, <1>6


-----------------------------------------------------------------------------
(* The invariant holds.                                                    *)

\* Nothing is queued before there is an engine.
Fresh == s.phase # "running" => s.queue = <<>>

LEMMA NextGood ==
    ASSUME Inv, Good(s), Next
    PROVE  Good(s') /\ Step(s, s') /\ (Fresh => Fresh')
<1>1. Good(s') /\ Step(s, s')
  <2>1. CASE ApplyEvent
    BY <2>1, ApplyEventGood
  <2>2. CASE DrainEvents
    BY <2>2, DrainEventsGood
  <2>3. CASE PumpReturns
    BY <2>3, PumpReturnsGood
  <2>4. CASE \E ok \in BOOLEAN : Bind(ok) \/ CreateEngine(ok)
    BY <2>4, SetUpGood
  <2>5. CASE \E r \in Reactions : OnMessage(r) \/ InputFlush(r)
    BY <2>5, InputGood
  <2>6. CASE SendFlush
    BY <2>6, SendFlushGood
  <2>7. CASE \E r \in Reactions : TimerFire(r)
    BY <2>7, TimerFireGood
  <2>8. CASE OnError \/ Awaken \/ (\E len \in Sizes : Send(len)) \/ Close \/ Stats \/ Advance
    BY <2>8, HostGood
  <2> QED BY <2>1, <2>2, <2>3, <2>4, <2>5, <2>6, <2>7, <2>8 DEF Next
<1>2. s'.phase # "running" => s'.queue = s.queue /\ s.phase # "running"
  <2>1. CASE s.phase = "running"
    <3>1. s'.phase = "running"
      BY <1>1, <2>1 DEF Step, Lives
    <3> QED BY <3>1
  <2>2. CASE s.phase # "running"
    <3>1. s.frames = <<>>
      BY <2>2 DEF Good, Stack, Below
    <3>2. (\E ok \in BOOLEAN : Bind(ok) \/ CreateEngine(ok)) \/ Advance
      BY <2>2, <3>1 DEF Next, ApplyEvent, DrainEvents, PumpReturns, OnMessage, InputFlush,
                        SendFlush, TimerFire, OnError, Awaken, Send, Close, Stats, Task, Running
    <3>3. CASE Advance
      BY <2>2, <3>3 DEF Advance
    <3>4. CASE \E ok \in BOOLEAN : Bind(ok) \/ CreateEngine(ok)
      BY <2>2, <3>4, SetUpGood
    <3> QED BY <3>2, <3>3, <3>4
  <2> QED BY <2>1, <2>2
<1> QED BY <1>1, <1>2 DEF Fresh

LEMMA InitGood ==
    ASSUME Init
    PROVE  Good(s) /\ Fresh
<1>1. Told(s)
  BY DEF Init, Told
<1>2. Flagged(s)
  BY DEF Init, Flagged
<1>3. Stack(s)
  BY DEF Init, Stack, Below, Flat
<1>4. Spoken(s) /\ Armed(s) /\ Fresh
  BY DEF Init, Spoken, Armed, Fresh
<1> QED BY <1>1, <1>2, <1>3, <1>4 DEF Good, Held

LEMMA AlwaysGood == Spec => [](Inv /\ Good(s) /\ Fresh)
<1>1. Good(s) /\ Fresh /\ UNCHANGED vars => Good(s') /\ Fresh'
  <2>1. UNCHANGED vars => s' = s
    BY DEF vars
  <2> QED BY <2>1 DEF Fresh
<1> DEFINE Whole == Good(s) /\ Fresh
<1>2. Inv /\ Whole /\ [Next]_vars => Whole'
  BY <1>1, NextGood
<1>3. Init => Whole
  BY InitGood
<1>4. Whole => Good(s) /\ Fresh
  OBVIOUS
<1> HIDE DEF Whole
<1> QED BY <1>2, <1>3, <1>4, Invariant, PTL DEF Spec

-----------------------------------------------------------------------------
(* The order of the packets.                                               *)

IsMessage(e) == e.kind = "Message"

\* The messages of q are numbered from lo + 1 to hi, in this order.
Counts(q, lo, hi) ==
    /\ q \in Seq(Event) /\ lo \in Nat /\ hi \in Nat /\ lo <= hi
    /\ \A i \in DOMAIN q : IsMessage(q[i]) => q[i].id \in (lo + 1)..hi
    /\ \A i, j \in DOMAIN q : i < j /\ IsMessage(q[i]) /\ IsMessage(q[j]) => q[i].id < q[j].id
    /\ \A n \in (lo + 1)..hi : \E i \in DOMAIN q : IsMessage(q[i]) /\ q[i].id = n

LEMMA CountsJoin ==
    ASSUME NEW p, NEW q, NEW lo, NEW mid, NEW hi, Counts(p, lo, mid), Counts(q, mid, hi)
    PROVE  Counts(p \o q, lo, hi)
<1> DEFINE w == p \o q
           l == Len(p)
           k == Len(q)
<1>1. /\ p \in Seq(Event) /\ q \in Seq(Event) /\ lo \in Nat /\ mid \in Nat /\ hi \in Nat
      /\ lo <= mid /\ mid <= hi
  BY DEF Counts
<1>2. l \in Nat /\ k \in Nat /\ DOMAIN p = 1..l /\ DOMAIN q = 1..k
  BY <1>1
<1>3. /\ w \in Seq(Event) /\ Len(w) = l + k
      /\ \A i \in 1..(l + k) : w[i] = IF i <= l THEN p[i] ELSE q[i - l]
  BY <1>1, ConcatProperties
<1>4. DOMAIN w = 1..(l + k)
  <2> HIDE DEF l, k
  <2> QED BY <1>3
<1> HIDE DEF w, l, k
<1>5. ASSUME NEW i \in DOMAIN w
      PROVE  \/ i \in DOMAIN p /\ w[i] = p[i]
             \/ i - l \in DOMAIN q /\ w[i] = q[i - l] /\ i > l
  BY <1>2, <1>3, <1>4
<1>6. ASSUME NEW i \in DOMAIN p
      PROVE  i \in DOMAIN w /\ w[i] = p[i] /\ i <= l
  BY <1>2, <1>3, <1>4
<1>7. ASSUME NEW i \in DOMAIN q
      PROVE  l + i \in DOMAIN w /\ w[l + i] = q[i]
  <2>1. l + i \in 1..(l + k) /\ ~(l + i <= l) /\ (l + i) - l = i
    BY <1>2
  <2> QED BY <1>3, <1>4, <2>1
<1>8. ASSUME NEW i \in DOMAIN w, IsMessage(w[i])
      PROVE  w[i].id \in (lo + 1)..hi
  <2>1. CASE i \in DOMAIN p /\ w[i] = p[i]
    <3>1. w[i].id \in (lo + 1)..mid
      BY <1>8, <2>1 DEF Counts
    <3> QED BY <1>1, <3>1
  <2>2. CASE i - l \in DOMAIN q /\ w[i] = q[i - l]
    <3>1. w[i].id \in (mid + 1)..hi
      BY <1>8, <2>2 DEF Counts
    <3> QED BY <1>1, <3>1
  <2> QED BY <1>5, <2>1, <2>2
<1>9. ASSUME NEW i \in DOMAIN w, NEW j \in DOMAIN w, i < j, IsMessage(w[i]), IsMessage(w[j])
      PROVE  w[i].id < w[j].id
  <2>0. i \in Nat /\ j \in Nat /\ l \in Nat
    BY <1>2, <1>4
  <2>1. CASE j \in DOMAIN p /\ w[j] = p[j]
    <3>1. i \in DOMAIN p /\ w[i] = p[i]
      BY <1>2, <1>5, <1>9, <2>0, <2>1
    <3> QED BY <1>9, <2>1, <3>1 DEF Counts
  <2>2. CASE j - l \in DOMAIN q /\ w[j] = q[j - l]
    <3>1. w[j].id \in (mid + 1)..hi
      BY <1>9, <2>2 DEF Counts
    <3>2. CASE i \in DOMAIN p /\ w[i] = p[i]
      <4>1. w[i].id \in (lo + 1)..mid
        BY <1>9, <3>2 DEF Counts
      <4> QED BY <1>1, <3>1, <4>1
    <3>3. CASE i - l \in DOMAIN q /\ w[i] = q[i - l]
      <4>1. i - l < j - l
        BY <1>9, <2>0
      <4> QED BY <1>9, <2>2, <3>3, <4>1 DEF Counts
    <3> QED BY <1>5, <3>2, <3>3
  <2> QED BY <1>5, <2>1, <2>2
<1>10. ASSUME NEW n \in (lo + 1)..hi
       PROVE  \E i \in DOMAIN w : IsMessage(w[i]) /\ w[i].id = n
  <2>1. CASE n <= mid
    <3>1. n \in (lo + 1)..mid
      BY <1>1, <2>1
    <3>2. PICK i \in DOMAIN p : IsMessage(p[i]) /\ p[i].id = n
      BY <3>1 DEF Counts
    <3> QED BY <1>6, <3>2
  <2>2. CASE n > mid
    <3>1. n \in (mid + 1)..hi
      BY <1>1, <2>2
    <3>2. PICK i \in DOMAIN q : IsMessage(q[i]) /\ q[i].id = n
      BY <3>1 DEF Counts
    <3> QED BY <1>7, <3>2
  <2> QED BY <1>1, <2>1, <2>2
<1>11. lo <= hi
  BY <1>1
<1>12. Counts(w, lo, hi)
  BY <1>1, <1>3, <1>8, <1>9, <1>10, <1>11 DEF Counts
<1> QED BY <1>12 DEF w

\* What is no message does not count.
LEMMA CountsNone ==
    ASSUME NEW q \in Seq(Event), NEW n \in Nat, \A i \in DOMAIN q : ~IsMessage(q[i])
    PROVE  Counts(q, n, n)
<1>1. (n + 1)..n = {} /\ n <= n
  OBVIOUS
<1> QED BY <1>1 DEF Counts

\* The first message of the rest is the next one due.
LEMMA CountsTail ==
    ASSUME NEW q, NEW lo, NEW hi, Counts(q, lo, hi), q # <<>>
    PROVE  IF IsMessage(q[1]) THEN q[1].id = lo + 1 /\ Counts(Tail(q), lo + 1, hi)
           ELSE Counts(Tail(q), lo, hi)
<1> DEFINE w == Tail(q)
<1>1. q \in Seq(Event) /\ lo \in Nat /\ hi \in Nat /\ lo <= hi
  BY DEF Counts
<1>2. /\ Len(q) \in Nat /\ Len(q) > 0 /\ DOMAIN q = 1..Len(q)
      /\ w \in Seq(Event) /\ Len(w) = Len(q) - 1
      /\ \A i \in 1..(Len(q) - 1) : w[i] = q[i + 1]
  BY <1>1
<1>3. DOMAIN w = 1..(Len(q) - 1)
  BY <1>2
<1> HIDE DEF w
<1>4. ASSUME NEW i \in DOMAIN w
      PROVE  i + 1 \in DOMAIN q /\ w[i] = q[i + 1] /\ i \in Nat /\ 1 < i + 1
  BY <1>2, <1>3
<1>5. ASSUME NEW i \in DOMAIN q, i # 1
      PROVE  i - 1 \in DOMAIN w /\ w[i - 1] = q[i]
  <2>1. i - 1 \in 1..(Len(q) - 1) /\ (i - 1) + 1 = i
    BY <1>2, <1>5
  <2> QED BY <1>2, <1>3, <2>1
<1>6. ASSUME NEW i \in DOMAIN w, NEW j \in DOMAIN w, i < j, IsMessage(w[i]), IsMessage(w[j])
      PROVE  w[i].id < w[j].id
  <2>1. i + 1 < j + 1
    BY <1>4, <1>6
  <2> QED BY <1>4, <1>6, <2>1 DEF Counts
<1>7. 1 \in DOMAIN q
  BY <1>2
<1>8. CASE IsMessage(q[1])
  <2>1. q[1].id \in (lo + 1)..hi
    BY <1>7, <1>8 DEF Counts
  <2>2. lo + 1 \in (lo + 1)..hi
    BY <1>1, <2>1
  <2>3. PICK i \in DOMAIN q : IsMessage(q[i]) /\ q[i].id = lo + 1
    BY <2>2 DEF Counts
  <2>4. i = 1
    <3> SUFFICES ASSUME i # 1 PROVE FALSE
      OBVIOUS
    <3>1. 1 < i
      BY <1>2
    <3>2. q[1].id < q[i].id
      BY <1>7, <1>8, <2>3, <3>1 DEF Counts
    <3> QED BY <1>1, <2>1, <2>3, <3>2
  <2>5. q[1].id = lo + 1
    BY <2>3, <2>4
  <2>6. ASSUME NEW j \in DOMAIN w, IsMessage(w[j])
        PROVE  w[j].id \in ((lo + 1) + 1)..hi
    <3>1. q[j + 1].id \in (lo + 1)..hi /\ q[1].id < q[j + 1].id
      BY <1>4, <1>7, <1>8, <2>6 DEF Counts
    <3> QED BY <1>1, <1>4, <2>5, <3>1
  <2>7. ASSUME NEW n \in ((lo + 1) + 1)..hi
        PROVE  \E j \in DOMAIN w : IsMessage(w[j]) /\ w[j].id = n
    <3>1. n \in (lo + 1)..hi /\ n # lo + 1
      BY <1>1
    <3>2. PICK j \in DOMAIN q : IsMessage(q[j]) /\ q[j].id = n
      BY <3>1 DEF Counts
    <3>3. j # 1
      BY <2>5, <3>1, <3>2
    <3> QED BY <1>5, <3>2, <3>3
  <2>8. lo + 1 \in Nat /\ lo + 1 <= hi
    BY <1>1, <2>2
  <2>9. Counts(w, lo + 1, hi)
    BY <1>1, <1>2, <1>6, <2>6, <2>7, <2>8 DEF Counts
  <2> QED BY <1>8, <2>5, <2>9 DEF w
<1>9. CASE ~IsMessage(q[1])
  <2>1. ASSUME NEW j \in DOMAIN w, IsMessage(w[j])
        PROVE  w[j].id \in (lo + 1)..hi
    BY <1>4, <2>1 DEF Counts
  <2>2. ASSUME NEW n \in (lo + 1)..hi
        PROVE  \E j \in DOMAIN w : IsMessage(w[j]) /\ w[j].id = n
    <3>1. PICK j \in DOMAIN q : IsMessage(q[j]) /\ q[j].id = n
      BY DEF Counts
    <3>2. j # 1
      BY <1>9, <3>1
    <3> QED BY <1>5, <3>1, <3>2
  <2>3. Counts(w, lo, hi)
    BY <1>1, <1>2, <1>6, <2>1, <2>2 DEF Counts
  <2> QED BY <1>9, <2>3 DEF w
<1> QED BY <1>8, <1>9

\* MessagesIn counts one by one.
LEMMA MessagesInSteps ==
    ASSUME NEW kinds, NEW k \in Nat
    PROVE  /\ MessagesIn(kinds, 0) = 0 /\ MessagesIn(kinds, k) \in Nat
           /\ MessagesIn(kinds, k + 1) =
                 IF kinds[k + 1] = "Message" THEN MessagesIn(kinds, k) + 1 ELSE MessagesIn(kinds, k)
<1> DEFINE S(n) == {j \in 1..n : kinds[j] = "Message"}
<1>1. MessagesIn(kinds, 0) = 0
  <2>1. S(0) = {}
    OBVIOUS
  <2> QED BY <2>1, FS_EmptySet DEF MessagesIn
<1>2. MessagesIn(kinds, k) \in Nat
  BY MessagesInType
<1>3. IsFiniteSet(S(k))
  <2>1. IsFiniteSet(1..k)
    <3>1. 1 \in Int /\ k \in Int
      OBVIOUS
    <3> QED BY <3>1, FS_Interval
  <2>2. S(k) \in SUBSET (1..k)
    OBVIOUS
  <2> QED BY <2>1, <2>2, FS_Subset
<1>4. CASE kinds[k + 1] = "Message"
  <2>1. S(k + 1) = S(k) \cup {k + 1} /\ k + 1 \notin S(k)
    BY <1>4
  <2>2. Cardinality(S(k) \cup {k + 1}) = Cardinality(S(k)) + 1
    <3> DEFINE R == S(k)
               x == k + 1
    <3>1. IsFiniteSet(R) /\ x \notin R
      BY <1>3, <2>1
    <3> HIDE DEF R, x
    <3>2. Cardinality(R \cup {x}) = Cardinality(R) + 1
      BY <3>1, FS_AddElement
    <3> QED BY <3>2 DEF R, x
  <2> QED BY <1>1, <1>2, <1>4, <2>1, <2>2 DEF MessagesIn
<1>5. CASE kinds[k + 1] # "Message"
  <2>1. S(k + 1) = S(k)
    BY <1>5
  <2> QED BY <1>1, <1>2, <1>5, <2>1 DEF MessagesIn
<1> QED BY <1>1, <1>2, <1>4, <1>5

LEMMA MessagesInGrows ==
    ASSUME NEW kinds, NEW i \in Nat, NEW j \in Nat, i <= j
    PROVE  MessagesIn(kinds, i) <= MessagesIn(kinds, j)
<1> DEFINE A == {k \in 1..i : kinds[k] = "Message"}
           B == {k \in 1..j : kinds[k] = "Message"}
<1>1. A \in SUBSET B
  OBVIOUS
<1>2. IsFiniteSet(B)
  <2>1. IsFiniteSet(1..j)
    <3>1. 1 \in Int /\ j \in Int
      OBVIOUS
    <3> QED BY <3>1, FS_Interval
  <2>2. B \in SUBSET (1..j)
    OBVIOUS
  <2> QED BY <2>1, <2>2, FS_Subset
<1>3. Cardinality(A) <= Cardinality(B)
  <2> HIDE DEF A, B
  <2> QED BY <1>1, <1>2, FS_Subset
<1> QED BY <1>3 DEF MessagesIn

\* The engine numbers its messages without a gap.
LEMMA NumberedCounts ==
    ASSUME NEW kinds \in Seq(Kinds), NEW n \in Nat
    PROVE  Counts(Numbered(kinds, n), n, n + MessagesIn(kinds, Len(kinds)))
<1> DEFINE q == Numbered(kinds, n)
           M(k) == MessagesIn(kinds, k)
           l == Len(kinds)
           hi == n + M(l)
<1>1. q \in Seq(Event) /\ Len(q) = l /\ l \in Nat
  BY NumberedType
<1>2. DOMAIN q = 1..l
  <2> HIDE DEF q, l
  <2> QED BY <1>1
<1>3. ASSUME NEW i \in 1..l
      PROVE  /\ IsMessage(q[i]) <=> kinds[i] = "Message"
             /\ IsMessage(q[i]) => q[i].id = n + M(i)
  BY <1>3 DEF Numbered, IsMessage
<1>4. \A k \in Nat : M(k) \in Nat
  BY MessagesInType
<1>5. M(0) = 0
  BY MessagesInSteps
<1>6. ASSUME NEW i \in 1..l
      PROVE  /\ i \in Nat /\ i - 1 \in Nat /\ i <= l
             /\ kinds[i] = "Message" => M(i) = M(i - 1) + 1
             /\ kinds[i] # "Message" => M(i) = M(i - 1)
  <2>1. i \in Nat /\ i - 1 \in Nat /\ i <= l /\ (i - 1) + 1 = i
    BY <1>1
  <2>2. M((i - 1) + 1) = IF kinds[(i - 1) + 1] = "Message" THEN M(i - 1) + 1 ELSE M(i - 1)
    <3> HIDE DEF l, q
    <3> QED BY <2>1, MessagesInSteps
  <2> HIDE DEF M, l
  <2> QED BY <2>1, <2>2
<1>7. ASSUME NEW i \in Nat, NEW j \in Nat, i <= j
      PROVE  M(i) <= M(j)
  BY <1>7, MessagesInGrows
<1> HIDE DEF q, M, l
<1>8. hi \in Nat /\ n <= hi
  <2>1. M(l) \in Nat
    BY <1>1, <1>4
  <2> QED BY <2>1
<1>9. ASSUME NEW i \in DOMAIN q, IsMessage(q[i])
      PROVE  q[i].id \in (n + 1)..hi
  <2>1. i \in 1..l /\ kinds[i] = "Message" /\ q[i].id = n + M(i)
    BY <1>2, <1>3, <1>9
  <2>2. M(i) = M(i - 1) + 1 /\ i \in Nat /\ i <= l /\ i - 1 \in Nat
    BY <1>6, <2>1
  <2>3. M(i - 1) \in Nat /\ M(i) \in Nat /\ M(l) \in Nat /\ M(i) <= M(l)
    BY <1>1, <1>4, <1>7, <2>2
  <2> QED BY <2>1, <2>2, <2>3
<1>10. ASSUME NEW i \in DOMAIN q, NEW j \in DOMAIN q, i < j, IsMessage(q[i]), IsMessage(q[j])
       PROVE  q[i].id < q[j].id
  <2>1. /\ i \in 1..l /\ j \in 1..l /\ kinds[j] = "Message"
        /\ q[i].id = n + M(i) /\ q[j].id = n + M(j)
    BY <1>2, <1>3, <1>10
  <2>2. M(j) = M(j - 1) + 1 /\ i \in Nat /\ j - 1 \in Nat
    BY <1>6, <2>1
  <2>3. i <= j - 1
    BY <1>10, <2>1, <1>1
  <2>4. M(i) <= M(j - 1) /\ M(i) \in Nat /\ M(j - 1) \in Nat
    BY <1>4, <1>7, <2>2, <2>3
  <2> QED BY <2>1, <2>2, <2>4
<1>11. ASSUME NEW x \in (n + 1)..hi
       PROVE  \E i \in DOMAIN q : IsMessage(q[i]) /\ q[i].id = x
  <2> DEFINE y == x - n
             S == {k \in 0..l : y <= M(k)}
  <2>1. y \in Nat /\ y >= 1 /\ y <= M(l) /\ x = n + y
    <3>1. M(l) \in Nat
      BY <1>1, <1>4
    <3> QED BY <3>1
  <2>2. S \subseteq Nat /\ S # {}
    <3> HIDE DEF y
    <3>1. l \in S
      BY <1>1, <2>1
    <3> QED BY <3>1
  <2> HIDE DEF y
  <2>3. PICK k \in S : \A j \in S : k <= j
    <3> HIDE DEF S
    <3> QED BY <2>2, LeastExists
  <2>4. k \in 0..l /\ y <= M(k)
    OBVIOUS
  <2>5. k # 0
    <3> SUFFICES ASSUME k = 0 PROVE FALSE
      OBVIOUS
    <3>1. y <= 0
      BY <1>5, <2>4
    <3> QED BY <2>1, <3>1
  <2>6. k \in 1..l
    BY <1>1, <2>4, <2>5
  <2>7. ~(y <= M(k - 1))
    <3> SUFFICES ASSUME y <= M(k - 1) PROVE FALSE
      OBVIOUS
    <3>1. k - 1 \in S
      BY <1>1, <2>6
    <3>2. k <= k - 1
      BY <2>3, <3>1
    <3> QED BY <1>1, <2>6, <3>2
  <2>8. M(k - 1) \in Nat /\ M(k) \in Nat
    BY <1>4, <1>6, <2>6
  <2>9. kinds[k] = "Message" /\ M(k) = M(k - 1) + 1
    BY <1>6, <2>4, <2>6, <2>7
  <2>10. M(k) = y
    BY <2>1, <2>4, <2>7, <2>8, <2>9
  <2>11. IsMessage(q[k]) /\ q[k].id = x
    BY <1>3, <2>1, <2>6, <2>9, <2>10
  <2> QED BY <1>2, <2>6, <2>11
<1>12. Counts(q, n, hi)
  BY <1>1, <1>8, <1>9, <1>10, <1>11 DEF Counts
<1> QED BY <1>12 DEF q, l, M

\* What the host has not been given yet: the rest of the batch, then what
\* waits in the engine.
Pending(c) == IF c.frames = <<>> THEN c.ev ELSE Head(c.frames).batch \o c.ev

\* The host has got the first messages, and the others are pending in order.
InSequence(c) ==
    /\ \A i \in DOMAIN c.packets : c.packets[i] = i
    /\ ~c.closed => Counts(Pending(c), Len(c.packets), c.produced)

\* A step in which the engine says nothing, and one in which it says more.
Mute(c, d) ==
    /\ d.packets = c.packets /\ d.closed = c.closed /\ d.frames = c.frames
    /\ d.ev = c.ev /\ d.produced = c.produced

Says(c, d) ==
    /\ d.packets = c.packets /\ d.closed = c.closed /\ d.frames = c.frames
    /\ \E x : d.ev = c.ev \o x /\ Counts(x, c.produced, d.produced)

LEMMA MuteInSequence ==
    ASSUME NEW c, NEW d, InSequence(c), Mute(c, d)
    PROVE  InSequence(d)
BY DEF InSequence, Mute, Pending

LEMMA SaysInSequence ==
    ASSUME NEW c \in Connection, NEW d, InSequence(c), Says(c, d)
    PROVE  InSequence(d)
<1>1. PICK x : d.ev = c.ev \o x /\ Counts(x, c.produced, d.produced)
  BY DEF Says
<1>2. x \in Seq(Event) /\ c.ev \in Seq(Event) /\ c.frames \in Seq(Frame)
  BY <1>1 DEF Counts, Connection
<1>3. Pending(d) = Pending(c) \o x
  <2>1. CASE c.frames = <<>>
    BY <1>1, <2>1 DEF Pending, Says
  <2>2. CASE c.frames # <<>>
    <3> DEFINE b == Head(c.frames).batch
    <3>1. b \in Seq(Event)
      <4>1. Head(c.frames) \in Frame
        BY <1>2, <2>2
      <4> QED BY <4>1 DEF Frame
    <3>2. Pending(c) = b \o c.ev /\ Pending(d) = b \o (c.ev \o x)
      BY <1>1, <2>2 DEF Pending, Says
    <3>3. (b \o c.ev) \o x = b \o (c.ev \o x)
      <4> DEFINE e == c.ev
      <4>1. e \in Seq(Event)
        BY <1>2
      <4> HIDE DEF b, e
      <4>2. (b \o e) \o x = b \o (e \o x)
        BY <1>2, <3>1, <4>1, ConcatAssociative, SMTT(30)
      <4> QED BY <4>2 DEF e
    <3> QED BY <3>2, <3>3
  <2> QED BY <2>1, <2>2
<1>4. ASSUME ~d.closed PROVE Counts(Pending(d), Len(d.packets), d.produced)
  <2>1. Counts(Pending(c), Len(c.packets), c.produced) /\ d.packets = c.packets
    BY <1>4 DEF InSequence, Says
  <2> QED BY <1>1, <1>3, <2>1, CountsJoin
<1> QED BY <1>4 DEF InSequence, Says

LEMMA ReactSays ==
    ASSUME NEW c \in Connection, NEW r \in Reaction
    PROVE  Says(c, React(c, r))
<1>0. c.ev \in Seq(Event) /\ c.produced \in Nat /\ r.events \in Seq(Kinds)
  BY DEF Connection, Reaction
<1>1. CASE c.done
  <2>1. React(c, r) = c
    BY <1>1 DEF React
  <2>2. c.ev = c.ev \o <<>> /\ Counts(<<>>, c.produced, c.produced)
    <3>1. c.ev = c.ev \o <<>> /\ <<>> \in Seq(Event) /\ DOMAIN <<>> = {}
      BY <1>0, ConcatEmptySeq
    <3> QED BY <1>0, <3>1, CountsNone
  <2> QED BY <2>1, <2>2 DEF Says
<1>2. CASE ~c.done
  <2> DEFINE x == Numbered(r.events, c.produced)
             ev == c.ev \o x
             produced == c.produced + MessagesIn(r.events, Len(r.events))
             up == c.up \/ Has(r, "Opened")
             done == Has(r, "Closed")
             free == IF r.ack THEN Cap ELSE c.free
             lib == now + r.delay
             d == React(c, r)
  <2>1. d = [c EXCEPT !.ev = ev, !.produced = produced, !.up = up, !.done = done,
                      !.free = free, !.lib = lib]
    BY <1>2 DEF React
  <2>2. Counts(x, c.produced, produced)
    BY <1>0, NumberedCounts
  <2> HIDE DEF d, ev, produced, up, done, free, lib
  <2>3. d.ev = ev /\ d.produced = produced /\ Apart(c, d)
    <3>1. d.ev = ev /\ d.produced = produced
      BY <2>1 DEF Connection
    <3> QED BY <3>1, ReactApart DEF d
  <2> QED BY <2>2, <2>3 DEF Says, Apart, Aside, ev, d
<1> QED BY <1>1, <1>2

LEMMA EndSays ==
    ASSUME NEW c \in Connection
    PROVE  Says(c, End(c))
<1>0. c.ev \in Seq(Event) /\ c.produced \in Nat
  BY DEF Connection
<1>1. CASE c.done
  <2>1. End(c) = c
    BY <1>1 DEF End
  <2>2. c.ev = c.ev \o <<>> /\ Counts(<<>>, c.produced, c.produced)
    <3>1. c.ev = c.ev \o <<>> /\ <<>> \in Seq(Event) /\ DOMAIN <<>> = {}
      BY <1>0, ConcatEmptySeq
    <3> QED BY <1>0, <3>1, CountsNone
  <2> QED BY <2>1, <2>2 DEF Says
<1>2. CASE ~c.done
  <2> DEFINE e == [kind |-> "Closed", id |-> 0]
             ev == Append(c.ev, e)
             d == End(c)
  <2>1. d = [c EXCEPT !.ev = ev, !.done = TRUE]
    BY <1>2 DEF End
  <2>2. e \in Event /\ ~IsMessage(e)
    BY DEF Event, Kinds, IsMessage
  <2> HIDE DEF e
  <2>3. ev = c.ev \o <<e>>
    BY <1>0, <2>2, AppendIsConcat
  <2>4. Counts(<<e>>, c.produced, c.produced)
    <3>1. <<e>> \in Seq(Event) /\ \A i \in DOMAIN <<e>> : <<e>>[i] = e
      BY <2>2
    <3>2. \A i \in DOMAIN <<e>> : ~IsMessage(<<e>>[i])
      BY <2>2, <3>1, Zenon
    <3> QED BY <1>0, <3>1, <3>2, CountsNone
  <2> HIDE DEF d, ev
  <2>5. d.ev = ev /\ d.produced = c.produced /\ Apart(c, d)
    <3>1. d.ev = ev /\ d.produced = c.produced
      BY <2>1 DEF Connection
    <3> QED BY <3>1, EndApart DEF d
  <2> QED BY <2>3, <2>4, <2>5 DEF Says, Apart, Aside, d
<1> QED BY <1>1, <1>2

LEMMA EngineSendSays ==
    ASSUME NEW c \in Connection, NEW q \in Seq(OutMessage)
    PROVE  Says(c, EngineSend(c, q))
<1>0. c.ev \in Seq(Event) /\ c.produced \in Nat
  BY DEF Connection
<1>1. CASE q = <<>>
  <2>1. EngineSend(c, q) = c
    BY <1>1 DEF EngineSend
  <2>2. c.ev = c.ev \o <<>> /\ Counts(<<>>, c.produced, c.produced)
    <3>1. c.ev = c.ev \o <<>> /\ <<>> \in Seq(Event) /\ DOMAIN <<>> = {}
      BY <1>0, ConcatEmptySeq
    <3> QED BY <1>0, <3>1, CountsNone
  <2> QED BY <2>1, <2>2 DEF Says
<1>2. CASE q # <<>>
  <2> DEFINE e == [kind |-> "Datagram", id |-> 0]
             x == [i \in DOMAIN q |-> e]
             free == c.free - Bytes(q)
             ev == c.ev \o x
             accepted == c.accepted \o [i \in DOMAIN q |-> q[i].id]
             lib == Earlier(c.lib, now + Rto)
             d == EngineSend(c, q)
  <2>1. d = [c EXCEPT !.free = free, !.ev = ev, !.accepted = accepted, !.lib = lib]
    BY <1>2 DEF EngineSend
  <2>2. e \in Event /\ ~IsMessage(e)
    BY DEF Event, Kinds, IsMessage
  <2> HIDE DEF e
  <2>3. Counts(x, c.produced, c.produced)
    <3>1. DOMAIN q = 1..Len(q) /\ Len(q) \in Nat
      OBVIOUS
    <3>2. x \in Seq(Event)
      BY <2>2, <3>1
    <3>3. \A i \in DOMAIN x : x[i] = e
      OBVIOUS
    <3>4. \A i \in DOMAIN x : ~IsMessage(x[i])
      BY <2>2, <3>3, Zenon
    <3> HIDE DEF x
    <3> QED BY <1>0, <3>2, <3>4, CountsNone
  <2> HIDE DEF d, ev, accepted, free, lib
  <2>4. d.ev = ev /\ d.produced = c.produced /\ Apart(c, d)
    <3>1. d.ev = ev /\ d.produced = c.produced
      BY <2>1 DEF Connection
    <3> QED BY <3>1, EngineSendApart DEF d
  <2> QED BY <2>3, <2>4 DEF Says, Apart, Aside, d, ev
<1> QED BY <1>1, <1>2

LEMMA TickInSequence ==
    ASSUME NEW c, Accounts(c), NEW r \in Reaction, now \in Nat, InSequence(c)
    PROVE  InSequence(EngineTick(c, r))
<1> DEFINE q == [r EXCEPT !.ack = FALSE]
           d == React(c, q)
<1>1. q \in Reaction
  BY DEF Reaction
<1>2. EngineTick(c, r) = d \/ EngineTick(c, r) = End(d)
  BY DEF EngineTick
<1> HIDE DEF q
<1>3. c \in Connection /\ d \in Connection
  BY <1>1, ReactAccounts DEF Accounts
<1>4. Says(c, d) /\ Says(d, End(d))
  BY <1>1, <1>3, ReactSays, EndSays
<1> HIDE DEF d
<1> QED BY <1>2, <1>3, <1>4, SaysInSequence

LEMMA FlushQueueInSequence ==
    ASSUME NEW c, Accounts(c), now \in Nat, InSequence(c)
    PROVE  InSequence(FlushQueue(c))
<1>0. c \in Connection
  BY DEF Accounts
<1> DEFINE k == Cardinality(Fitting(c))
           flushed == SubSeq(c.queue, 1, k)
           e == EngineSend(c, flushed)
<1>1. CASE c.done \/ ~c.up
  <2> DEFINE d == [c EXCEPT !.queue = <<>>, !.queuedBytes = 0]
  <2>1. FlushQueue(c) = d
    BY <1>1 DEF FlushQueue
  <2>2. Mute(c, d)
    BY <1>0 DEF Connection, Mute
  <2> HIDE DEF d
  <2> QED BY <2>1, <2>2, MuteInSequence
<1>2. CASE ~(c.done \/ ~c.up)
  <2> DEFINE rest == SubSeq(e.queue, k + 1, Len(e.queue))
             n == e.queuedBytes - Bytes(flushed)
             d == [e EXCEPT !.queue = rest, !.queuedBytes = n]
  <2>1. FlushQueue(c) = d
    BY <1>2 DEF FlushQueue
  <2>2. flushed \in Seq(OutMessage) /\ Bytes(flushed) <= c.free
    <3>1. k \in 0..Len(c.queue) /\ Bytes(flushed) <= c.free /\ c.queue \in Seq(OutMessage)
      BY <1>0, FlushStops DEF Connection
    <3>2. flushed \in Seq(OutMessage)
      <4> HIDE DEF k
      <4> QED BY <3>1
    <3> QED BY <3>1, <3>2
  <2> HIDE DEF flushed
  <2>3. e \in Connection /\ Says(c, e)
    BY <1>0, <2>2, EngineSendAccounts, EngineSendSays DEF Accounts
  <2> HIDE DEF e, rest, n
  <2>4. Mute(e, d)
    BY <2>3 DEF Connection, Mute
  <2> HIDE DEF d
  <2>5. InSequence(e)
    BY <1>0, <2>3, SaysInSequence
  <2> QED BY <2>1, <2>4, <2>5, MuteInSequence
<1> QED BY <1>1, <1>2

LEMMA PumpInSequence ==
    ASSUME NEW c, Accounts(c), NEW after \in {"none", "settle", "close"}, now \in Nat,
           InSequence(c), c.frames = <<>>
    PROVE  InSequence(Pump(c, after))
<1> DEFINE sched == Schedule(c)
           flushed == IF Policy = "queue" THEN FlushQueue(sched) ELSE sched
           d == [flushed EXCEPT !.frames = <<NewFrame(after)>> \o flushed.frames]
<1>0. c \in Connection
  BY DEF Accounts
<1>1. CASE c.closed
  BY <1>1 DEF Pump
<1>2. CASE ~c.closed
  <2>1. Accounts(sched) /\ Mute(c, sched)
    <3>1. Accounts(sched)
      BY ScheduleAccounts
    <3>2. Schedule(c) = c \/ Schedule(c) = [c EXCEPT !.timer = NextDeadline(c)]
      BY DEF Schedule
    <3>3. Mute(c, c)
      BY DEF Mute
    <3>4. Mute(c, [c EXCEPT !.timer = NextDeadline(c)])
      BY <1>0 DEF Connection, Mute
    <3> QED BY <3>1, <3>2, <3>3, <3>4
  <2>2. Pump(c, after) = d
    BY <1>2 DEF Pump, NewFrame
  <2> HIDE DEF sched
  <2>3. InSequence(sched) /\ sched.frames = <<>>
    BY <2>1, MuteInSequence DEF Mute
  <2>4. flushed \in Connection /\ InSequence(flushed) /\ flushed.frames = <<>>
    <3>1. CASE Policy = "queue"
      <4>1. FlushQueue(sched) \in Connection
        BY <2>1, FlushQueueSound DEF Sound, Accounts
      <4>2. Apart(sched, FlushQueue(sched)) /\ InSequence(FlushQueue(sched))
        BY <2>1, <2>3, FlushQueueApart, FlushQueueInSequence
      <4> QED BY <2>3, <3>1, <4>1, <4>2 DEF Apart
    <3>2. CASE Policy # "queue"
      BY <2>1, <2>3, <3>2 DEF Accounts
    <3> QED BY <3>1, <3>2
  <2> HIDE DEF flushed
  <2>5. /\ d.packets = flushed.packets /\ d.closed = flushed.closed
        /\ d.ev = flushed.ev /\ d.produced = flushed.produced
        /\ d.frames = <<NewFrame(after)>> \o <<>>
    BY <2>4 DEF Connection
  <2> HIDE DEF d
  <2>6. d.frames # <<>> /\ Head(d.frames).batch = <<>>
    <3>1. d.frames = <<NewFrame(after)>>
      BY <2>5
    <3>2. NewFrame(after).batch = <<>>
      BY DEF NewFrame
    <3> QED BY <3>1, <3>2
  <2>7. Pending(d) = Pending(flushed)
    <3>1. flushed.ev \in Seq(Event)
      BY <2>4 DEF Connection
    <3>2. <<>> \o flushed.ev = flushed.ev
      <4> DEFINE e == flushed.ev
      <4>1. e \in Seq(Event)
        BY <3>1
      <4> HIDE DEF e
      <4>2. <<>> \o e = e
        BY <4>1, ConcatEmptySeq
      <4> QED BY <4>2 DEF e
    <3> QED BY <2>4, <2>5, <2>6, <3>2 DEF Pending
  <2>8. InSequence(d)
    BY <2>4, <2>5, <2>7 DEF InSequence
  <2> QED BY <2>2, <2>8
<1> QED BY <1>1, <1>2

LEMMA FinishInSequence ==
    ASSUME NEW c \in Connection, InSequence(c)
    PROVE  InSequence(Finish(c))
<1>1. CASE c.closed
  BY <1>1 DEF Finish
<1>2. CASE ~c.closed
  <2> DEFINE n == c.disposes + 1
             r == [c EXCEPT !.closed = TRUE, !.timer = NoTime, !.queue = <<>>,
                            !.queuedBytes = 0, !.socket = "closed", !.disposes = n]
             m == r.onCloses + 1
             p == Settle(r.promise, "rejected")
             d == Finish(c)
  <2>1. d = [r EXCEPT !.onCloses = m] \/ d = [r EXCEPT !.promise = p]
    BY <1>2 DEF Finish
  <2> HIDE DEF n
  <2>2. r.closed = TRUE /\ r.packets = c.packets /\ DOMAIN r = DOMAIN c
    BY DEF Connection
  <2> HIDE DEF d, r, m, p
  <2>3. d.closed = TRUE /\ d.packets = c.packets
    <3>1. CASE d = [r EXCEPT !.onCloses = m]
      BY <2>2, <3>1 DEF Connection
    <3>2. CASE d = [r EXCEPT !.promise = p]
      BY <2>2, <3>2 DEF Connection
    <3> QED BY <2>1, <3>1, <3>2
  <2>4. InSequence(d)
    BY <2>3 DEF InSequence
  <2> QED BY <2>4 DEF d
<1> QED BY <1>1, <1>2

\* The only pump returns with its batch delivered, or the connection is over.
LEMMA ReturnInSequence ==
    ASSUME NEW c \in Connection, InSequence(c), c.frames # <<>>, Len(c.frames) <= 1,
           c.closed \/ Head(c.frames).batch = <<>>
    PROVE  InSequence(Return(c))
<1> DEFINE fs == Tail(c.frames)
           p == [c EXCEPT !.frames = fs]
<1>0. c.frames \in Seq(Frame) /\ c.ev \in Seq(Event)
  BY DEF Connection
<1>1. fs = <<>> /\ fs \in Seq(Frame)
  BY <1>0
<1> HIDE DEF fs
<1>2. p \in Connection /\ DOMAIN p = DOMAIN c
  BY <1>1, ZenonT(60) DEF Connection
<1>3. /\ p.packets = c.packets /\ p.closed = c.closed /\ p.ev = c.ev
      /\ p.produced = c.produced /\ p.frames = <<>>
  BY <1>1 DEF Connection
<1>4. \/ Return(c) = Finish(p) \/ Return(c) = p
      \/ Return(c) = [p EXCEPT !.promise = Settle(p.promise, "resolved")]
      \/ Return(c) = [p EXCEPT !.promise = Settle(p.promise, "rejected")]
  BY DEF Return, fs
<1> HIDE DEF p
<1>5. InSequence(p)
  <2>1. ASSUME ~c.closed PROVE Pending(p) = Pending(c)
    <3> DEFINE e == c.ev
    <3>1. e \in Seq(Event)
      BY <1>0
    <3> HIDE DEF e
    <3>2. <<>> \o e = e
      BY <3>1, ConcatEmptySeq
    <3>3. Pending(c) = <<>> \o c.ev /\ Pending(p) = c.ev
      BY <1>3, <2>1 DEF Pending
    <3> QED BY <3>2, <3>3 DEF e
  <2> QED BY <1>3, <2>1 DEF InSequence
<1>6. ASSUME NEW how PROVE Mute(p, [p EXCEPT !.promise = Settle(p.promise, how)])
  BY <1>2 DEF Connection, Mute
<1>7. InSequence(Finish(p))
  BY <1>2, <1>5, FinishInSequence
<1>8. ASSUME NEW how PROVE InSequence([p EXCEPT !.promise = Settle(p.promise, how)])
  BY <1>5, <1>6, MuteInSequence
<1> QED BY <1>4, <1>5, <1>7, <1>8

\* With sends batched, send does not pump.
LEMMA HandleSendInSequence ==
    ASSUME NEW c, Sound(c), now \in Nat, NEW len \in Sizes, InSequence(c), SendBatch
    PROVE  InSequence(HandleSend(c, len))
<1> DEFINE m == [id |-> c.sends + 1, len |-> len]
           n == c.sends + 1
           called == [c EXCEPT !.sends = n]
<1>0. c \in Connection /\ Accounts(c) /\ len \in Nat
  BY DriverAssumption DEF Sound, Accounts
<1>1. n \in Nat /\ c.free \in Nat
  BY <1>0, SMTT(30) DEF Connection
<1>2. m \in OutMessage /\ m.len = len
  BY <1>0, <1>1 DEF OutMessage
<1> HIDE DEF n
<1>3. called \in Connection
  BY <1>0, <1>1 DEF Connection
<1>4. /\ called.queue = c.queue /\ called.queuedBytes = c.queuedBytes /\ called.free = c.free
      /\ called.closed = c.closed /\ Mute(c, called)
  BY <1>0 DEF Connection, Mute
<1>5. HandleSend(c, len) =
        IF c.closed \/ ~c.opened THEN called
        ELSE IF SendResult(c, len) = "Accepted" THEN SchedulePump(EngineSend(called, <<m>>))
        ELSE IF SendResult(c, len) # "Backpressure" THEN called
        ELSE IF Policy = "queue" /\ c.queuedBytes + len <= MaxQueuedBytes
        THEN Enqueue(called, m)
        ELSE [called EXCEPT !.refusedSends = @ + 1]
  BY DEF HandleSend, n
<1> HIDE DEF called, m
<1>6. InSequence(called) /\ Accounts(called)
  BY <1>0, <1>3, <1>4, MuteInSequence, Carried
<1>7. ASSUME SendResult(c, len) = "Accepted"
      PROVE  InSequence(SchedulePump(EngineSend(called, <<m>>)))
  <2> DEFINE e == EngineSend(called, <<m>>)
             tasks == e.tasks \cup {"send"}
             d == [e EXCEPT !.outboundScheduled = TRUE, !.tasks = tasks]
  <2>1. len <= c.free
    BY <1>0, <1>1, <1>7 DEF SendResult
  <2>2. Bytes(<<m>>) = len
    <3>1. <<>> \in Seq(OutMessage)
      OBVIOUS
    <3> QED BY <1>2, <3>1, BytesFacts
  <2>3. <<m>> \in Seq(OutMessage) /\ Bytes(<<m>>) <= called.free
    BY <1>2, <1>4, <2>1, <2>2
  <2>4. e \in Connection
    BY <1>6, <2>3, EngineSendAccounts DEF Accounts
  <2>5. InSequence(e)
    BY <1>3, <1>6, <2>3, EngineSendSays, SaysInSequence
  <2>6. SchedulePump(e) = e \/ SchedulePump(e) = d
    BY DEF SchedulePump
  <2> HIDE DEF e, tasks
  <2>7. Mute(e, d)
    BY <2>4 DEF Connection, Mute
  <2> HIDE DEF d
  <2>8. InSequence(d)
    BY <2>5, <2>7, MuteInSequence
  <2> QED BY <2>5, <2>6, <2>8 DEF e
<1>8. InSequence(Enqueue(called, m))
  <2> DEFINE q == Append(called.queue, m)
             k == called.queuedBytes + m.len
             d == [called EXCEPT !.queue = q, !.queuedBytes = k]
  <2>1. Enqueue(called, m) = d
    BY DEF Enqueue
  <2> HIDE DEF q, k
  <2>2. Mute(called, d)
    BY <1>3 DEF Connection, Mute
  <2> HIDE DEF d
  <2> QED BY <1>6, <2>1, <2>2, MuteInSequence
<1>9. InSequence([called EXCEPT !.refusedSends = @ + 1])
  <2> DEFINE d == [called EXCEPT !.refusedSends = @ + 1]
  <2>1. Mute(called, d)
    BY <1>3 DEF Connection, Mute
  <2> HIDE DEF d
  <2>2. InSequence(d)
    BY <1>6, <2>1, MuteInSequence
  <2> QED BY <2>2 DEF d
<1> QED BY <1>5, <1>6, <1>7, <1>8, <1>9

\* What the hypotheses on the host and the options give: one pump at a time,
\* and none once the connection is closed.
OnePump == SendBatch /\ "close" \notin Reentrant

LEMMA AloneRunning ==
    ASSUME Inv, Good(s), Running, OnePump
    PROVE  ~s.closed /\ Len(s.frames) <= 1
BY DEF OnePump, Good, Stack, Below, Flat, Running

LEMMA TailJoin ==
    ASSUME NEW a \in Seq(Event), NEW b \in Seq(Event), a # <<>>
    PROVE  a \o b # <<>> /\ (a \o b)[1] = Head(a) /\ Tail(a \o b) = Tail(a) \o b
<1>1. /\ a \o b \in Seq(Event) /\ Len(a \o b) = Len(a) + Len(b)
      /\ Len(a) \in Nat \ {0} /\ Len(b) \in Nat
  OBVIOUS
<1>2. \A i \in 1..(Len(a) + Len(b)) : (a \o b)[i] = IF i <= Len(a) THEN a[i] ELSE b[i - Len(a)]
  BY ConcatProperties
<1>3. a \o b # <<>> /\ (a \o b)[1] = Head(a)
  BY <1>1, <1>2
<1> DEFINE w == a \o b
           x == Tail(a)
<1>4. x \in Seq(Event) /\ Len(x) = Len(a) - 1 /\ \A i \in 1..(Len(a) - 1) : x[i] = a[i + 1]
  OBVIOUS
<1>5. w \in Seq(Event) /\ Len(w) = Len(a) + Len(b) /\ w # <<>>
  BY <1>1, <1>3
<1>6. \A i \in 1..(Len(a) + Len(b)) : w[i] = IF i <= Len(a) THEN a[i] ELSE b[i - Len(a)]
  BY <1>2
<1> HIDE DEF w, x
<1> DEFINE y == Tail(w)
           z == x \o b
<1>7. y \in Seq(Event) /\ Len(y) = Len(w) - 1 /\ \A i \in 1..(Len(w) - 1) : y[i] = w[i + 1]
  BY <1>5
<1>8. /\ z \in Seq(Event) /\ Len(z) = Len(x) + Len(b)
      /\ \A i \in 1..(Len(x) + Len(b)) : z[i] = IF i <= Len(x) THEN x[i] ELSE b[i - Len(x)]
  BY <1>4, ConcatProperties
<1> HIDE DEF y, z
<1>9. Len(y) = Len(z)
  BY <1>1, <1>4, <1>5, <1>7, <1>8
<1>10. ASSUME NEW i \in 1..Len(y) PROVE y[i] = z[i]
  <2>0. /\ i \in Nat /\ i >= 1 /\ i <= Len(a) + Len(b) - 1 /\ i + 1 \in 1..(Len(a) + Len(b))
        /\ i \in 1..(Len(w) - 1) /\ i \in 1..(Len(x) + Len(b))
    BY <1>1, <1>4, <1>5, <1>7
  <2>1. y[i] = w[i + 1]
    BY <1>7, <2>0
  <2>2. CASE i <= Len(a) - 1
    <3>1. w[i + 1] = a[i + 1] /\ z[i] = x[i] /\ x[i] = a[i + 1]
      <4>1. i + 1 <= Len(a) /\ i <= Len(x) /\ i \in 1..(Len(a) - 1)
        BY <1>1, <1>4, <2>0, <2>2
      <4> QED BY <1>4, <1>6, <1>8, <2>0, <4>1
    <3> QED BY <2>1, <3>1
  <2>3. CASE ~(i <= Len(a) - 1)
    <3>1. ~(i + 1 <= Len(a)) /\ ~(i <= Len(x)) /\ (i + 1) - Len(a) = i - Len(x)
      BY <1>1, <1>4, <2>0, <2>3
    <3>2. w[i + 1] = b[(i + 1) - Len(a)] /\ z[i] = b[i - Len(x)]
      BY <1>6, <1>8, <2>0, <3>1
    <3> QED BY <2>1, <3>1, <3>2
  <2> QED BY <2>2, <2>3
<1>11. y = z
  BY <1>7, <1>8, <1>9, <1>10
<1> QED BY <1>3, <1>11 DEF w, x, y, z

\* The event a pump applies is the first that is pending.
LEMMA TakenPending ==
    ASSUME Inv, Good(s), Running, Top.batch # <<>>, OnePump, InSequence(s)
    PROVE  LET e == Head(Top.batch) IN
           /\ Taken.packets = s.packets /\ Taken.produced = s.produced /\ ~Taken.closed
           /\ IsMessage(e) => /\ e.id = Len(s.packets) + 1
                              /\ Counts(Pending(Taken), Len(s.packets) + 1, s.produced)
           /\ ~IsMessage(e) => Counts(Pending(Taken), Len(s.packets), s.produced)
<1> DEFINE b == Top.batch
           f == [Top EXCEPT !.batch = Tail(b)]
           fs == [s.frames EXCEPT ![1] = f]
           d == [s EXCEPT !.frames = fs]
           ev == s.ev
<1>1. /\ s \in Connection /\ s.frames \in Seq(Frame) /\ 1 \in 1..Len(s.frames)
      /\ Top = s.frames[1] /\ Top \in Frame /\ b \in Seq(Event) /\ s.frames # <<>>
  BY TopTyped DEF Running
<1>2. ev \in Seq(Event) /\ ~s.closed
  BY <1>1, AloneRunning DEF Connection
<1>3. Taken = d
  BY TakenSound
<1>4. f.batch = Tail(b)
  BY <1>1 DEF Frame
<1>5. fs # <<>> /\ Head(fs) = f
  <2> HIDE DEF f
  <2> QED BY <1>1
<1> HIDE DEF fs
<1>6. /\ d.frames = fs /\ d.packets = s.packets /\ d.produced = s.produced
      /\ d.closed = s.closed /\ d.ev = s.ev
  BY <1>1 DEF Connection
<1> HIDE DEF d, f
<1>7. Pending(s) = b \o ev /\ Pending(d) = Tail(b) \o ev
  BY <1>1, <1>4, <1>5, <1>6 DEF Pending, Top
<1> HIDE DEF b, ev
<1>8. b \o ev # <<>> /\ (b \o ev)[1] = Head(b) /\ Tail(b \o ev) = Tail(b) \o ev
  BY <1>1, <1>2, TailJoin DEF b
<1>9. Counts(Pending(s), Len(s.packets), s.produced)
  BY <1>2 DEF InSequence
<1> DEFINE w == Pending(s)
           n == Len(s.packets)
<1>10. w # <<>> /\ w[1] = Head(b) /\ Tail(w) = Pending(d) /\ Counts(w, n, s.produced)
  BY <1>7, <1>8, <1>9
<1> HIDE DEF w, n
<1>11. /\ IsMessage(Head(b)) => Head(b).id = n + 1 /\ Counts(Pending(d), n + 1, s.produced)
       /\ ~IsMessage(Head(b)) => Counts(Pending(d), n, s.produced)
  BY <1>10, CountsTail
<1> QED BY <1>2, <1>3, <1>6, <1>11 DEF b, n

LEMMA ApplyEventInSequence ==
    ASSUME Inv, Good(s), ApplyEvent, OnePump, InSequence(s)
    PROVE  InSequence(s')
<1> DEFINE e == Head(Top.batch)
           T == Taken
           n == Len(s.packets)
<1>1. Running /\ Top.batch # <<>>
  BY DEF ApplyEvent
<1>2. /\ s \in Connection /\ e \in Event /\ T \in Connection /\ Sound(T) /\ s.packets \in Seq(Nat)
  <2>1. e \in Event /\ s \in Connection
    BY <1>1, TopTyped
  <2>2. Sound(T)
    BY <1>1, TakenSound
  <2> QED BY <2>1, <2>2 DEF Sound, Accounts, Connection
<1>3. /\ T.packets = s.packets /\ T.produced = s.produced /\ ~T.closed
      /\ IsMessage(e) => e.id = n + 1 /\ Counts(Pending(T), n + 1, s.produced)
      /\ ~IsMessage(e) => Counts(Pending(T), n, s.produced)
  BY <1>1, TakenPending
<1>4. ASSUME ~IsMessage(e) PROVE InSequence(T)
  BY <1>3, <1>4 DEF InSequence
<1>5. CASE e.kind = "Datagram"
  <2>1. s' = T /\ ~IsMessage(e)
    BY <1>5 DEF ApplyEvent, IsMessage
  <2> QED BY <1>4, <2>1
<1>6. CASE e.kind = "Opened"
  <2> DEFINE k == T.onOpens + 1
             p == Settle(T.promise, "resolved")
             d == [T EXCEPT !.opened = TRUE, !.onOpens = k, !.promise = p]
  <2>1. (s' = T \/ s' = d) /\ ~IsMessage(e)
    BY <1>6 DEF ApplyEvent, IsMessage
  <2> HIDE DEF k, p, T
  <2>2. Mute(T, d)
    BY <1>2 DEF Connection, Mute
  <2> HIDE DEF d
  <2> QED BY <1>4, <2>1, <2>2, MuteInSequence
<1>7. CASE e.kind = "Message"
  <2> DEFINE ps == Append(T.packets, e.id)
             P == [T EXCEPT !.packets = ps]
  <2>1. s' \in AfterPacket(P) /\ IsMessage(e)
    BY <1>7 DEF ApplyEvent, IsMessage
  <2>2. /\ ps \in Seq(Nat) /\ Len(ps) = n + 1 /\ n \in Nat
        /\ \A i \in DOMAIN ps : ps[i] = i
    <3> DEFINE q == s.packets
    <3>1. q \in Seq(Nat) /\ \A i \in DOMAIN q : q[i] = i
      BY <1>2 DEF InSequence
    <3>2. ps = Append(q, Len(q) + 1)
      BY <1>3, <2>1
    <3> HIDE DEF q, ps
    <3>3. /\ ps \in Seq(Nat) /\ Len(ps) = Len(q) + 1 /\ DOMAIN ps = 1..(Len(q) + 1)
          /\ \A i \in 1..Len(q) : ps[i] = q[i]
          /\ ps[Len(q) + 1] = Len(q) + 1 /\ Len(q) \in Nat /\ DOMAIN q = 1..Len(q)
      BY <3>1, <3>2
    <3>4. ASSUME NEW i \in DOMAIN ps PROVE ps[i] = i
      <4>1. i = Len(q) + 1 \/ i \in 1..Len(q)
        BY <3>3
      <4> QED BY <3>1, <3>3, <4>1
    <3> QED BY <3>3, <3>4 DEF q
  <2> HIDE DEF T, ps
  <2>3. P \in Connection
    BY <1>2, <2>2 DEF Connection
  <2>4. /\ P.queue = T.queue /\ P.queuedBytes = T.queuedBytes /\ P.closed = T.closed
        /\ P.free = T.free /\ P.packets = ps /\ P.produced = T.produced
        /\ P.frames = T.frames /\ P.ev = T.ev
    BY <1>2 DEF Connection
  <2> HIDE DEF P
  <2>5. InSequence(P)
    BY <1>3, <2>1, <2>2, <2>4 DEF InSequence, Pending
  <2>6. Sound(P)
    BY <1>2, <2>3, <2>4, Carried
  <2>7. ASSUME NEW len \in Sizes PROVE InSequence(HandleSend(P, len))
    BY <2>5, <2>6, HandleSendInSequence DEF OnePump, Inv
  <2> QED BY <2>1, <2>5, <2>7 DEF AfterPacket, OnePump
<1>8. CASE e.kind = "Closed"
  <2> DEFINE f == Finish(s)
  <2>1. s' = Return(f)
    BY <1>8 DEF ApplyEvent, ApplyClosed
  <2>2. f.closed /\ f.frames = s.frames
    <3>1. Held(s) /\ s.phase = "running"
      BY <1>1 DEF Good, Stack, Below, Running
    <3> QED BY <1>2, <3>1, FinishHeld
  <2>3. f \in Connection /\ InSequence(f)
    <3>1. Sound(f)
      BY FinishSound DEF Inv
    <3> QED BY <1>2, <3>1, FinishInSequence DEF Sound, Accounts
  <2> HIDE DEF f
  <2>4. f.frames # <<>> /\ Len(f.frames) <= 1
    BY <1>1, <2>2, AloneRunning DEF Running
  <2> QED BY <2>1, <2>2, <2>3, <2>4, ReturnInSequence
<1> QED BY <1>2, <1>5, <1>6, <1>7, <1>8 DEF Event, Kinds

LEMMA DrainInSequence ==
    ASSUME Inv, Good(s), DrainEvents \/ PumpReturns, OnePump, InSequence(s)
    PROVE  InSequence(s')
<1>1. Running /\ Top.batch = <<>> /\ s.frames # <<>>
  BY DEF DrainEvents, PumpReturns, Running
<1>2. /\ s \in Connection /\ s.frames \in Seq(Frame) /\ 1 \in 1..Len(s.frames)
      /\ Top = s.frames[1] /\ Top \in Frame
  BY <1>1, TopTyped
<1>3. s.ev \in Seq(Event) /\ Len(s.ev) \in Nat
  BY <1>2 DEF Connection
<1>4. ~s.closed /\ Len(s.frames) <= 1
  BY <1>1, AloneRunning
<1>5. CASE PumpReturns
  <2>1. s' = Return(s) /\ Head(s.frames).batch = <<>>
    BY <1>1, <1>5 DEF PumpReturns, Top
  <2> QED BY <1>1, <1>2, <1>4, <2>1, ReturnInSequence
<1>6. CASE DrainEvents
  <2> DEFINE n == IF BatchMode THEN EventBatchSize ELSE 1
             k == IF n < Len(s.ev) THEN n ELSE Len(s.ev)
             taken == SubSeq(s.ev, 1, k)
             ev == SubSeq(s.ev, Len(taken) + 1, Len(s.ev))
             drained == [s EXCEPT !.ev = ev, !.misused = s.misused]
             f == [Top EXCEPT !.batch = taken, !.more = FullBatch(taken, n)]
             fs == [s.frames EXCEPT ![1] = f]
  <2>1. s' = IF taken = <<>> THEN Return(drained)
             ELSE [drained EXCEPT !.frames[1] = [@ EXCEPT !.batch = taken, !.more = FullBatch(taken, n)]]
    BY <1>4, <1>6 DEF DrainEvents
  <2>2. n \in Nat
    BY DriverAssumption DEF BatchMode
  <2> HIDE DEF n
  <2>3. k \in 0..Len(s.ev)
    BY <1>3, <2>2
  <2> HIDE DEF k
  <2>4. taken \in Seq(Event) /\ Len(taken) = k
    BY <1>3, <2>3
  <2>5. ev \in Seq(Event) /\ taken \o ev = s.ev
    <3> DEFINE q == s.ev
               l == Len(q)
    <3>1. q \in Seq(Event) /\ l \in Nat /\ k \in 0..l
      BY <1>3, <2>3
    <3>2. ev = SubSeq(q, k + 1, l)
      BY <2>4
    <3>3. SubSeq(q, k + 1, l) \in Seq(Event)
      BY <3>1
    <3>4. SubSeq(q, 1, k) \o SubSeq(q, k + 1, l) = SubSeq(q, 1, l)
      <4>1. 1 \in 1..(l + 1) /\ k \in (1 - 1)..l /\ l \in k..l
        BY <3>1
      <4> HIDE DEF q
      <4> QED BY <3>1, <4>1, ConcatAdjacentSubSeq
    <3>5. SubSeq(q, 1, l) = q
      <4> HIDE DEF q
      <4> QED BY <3>1, SubSeqFull
    <3> QED BY <3>2, <3>3, <3>4, <3>5
  <2> HIDE DEF taken, ev
  <2>6. drained \in Connection /\ DOMAIN drained = DOMAIN s
    BY <1>2, <2>5 DEF Connection
  <2>7. /\ drained.packets = s.packets /\ drained.closed = s.closed /\ drained.frames = s.frames
        /\ drained.ev = ev /\ drained.produced = s.produced
    BY <1>2 DEF Connection
  <2> HIDE DEF drained
  <2>8. Pending(s) = s.ev
    <3> DEFINE q == s.ev
    <3>1. q \in Seq(Event)
      BY <1>3
    <3>2. Pending(s) = <<>> \o q
      BY <1>1 DEF Pending, Top
    <3> HIDE DEF q
    <3>3. <<>> \o q = q
      BY <3>1, ConcatEmptySeq
    <3> QED BY <3>2, <3>3 DEF q
  <2>9. CASE taken = <<>>
    <3>1. ev = s.ev
      <4>1. <<>> \o ev = ev
        BY <2>5, ConcatEmptySeq
      <4> QED BY <2>5, <2>9, <4>1
    <3>2. InSequence(drained)
      BY <2>7, <3>1, MuteInSequence DEF Mute
    <3>3. s' = Return(drained) /\ drained.frames # <<>> /\ Len(drained.frames) <= 1
      BY <1>1, <1>4, <2>1, <2>7, <2>9
    <3>4. Head(drained.frames).batch = <<>>
      BY <1>1, <2>7 DEF Top
    <3> QED BY <2>6, <3>2, <3>3, <3>4, ReturnInSequence
  <2>10. CASE taken # <<>>
    <3> DEFINE d == [drained EXCEPT !.frames = fs]
    <3>1. s' = d
      BY <1>2, <2>1, <2>7, <2>10
    <3>2. f.batch = taken
      BY <1>2 DEF Frame
    <3> HIDE DEF f
    <3>3. fs # <<>> /\ Head(fs) = f
      BY <1>2
    <3> HIDE DEF fs
    <3>4. /\ d.packets = s.packets /\ d.closed = s.closed /\ d.frames = fs
          /\ d.ev = ev /\ d.produced = s.produced
      BY <2>6, <2>7 DEF Connection
    <3> HIDE DEF d
    <3>5. Pending(d) = Pending(s)
      BY <2>5, <2>8, <3>2, <3>3, <3>4 DEF Pending
    <3>6. InSequence(d)
      BY <3>4, <3>5 DEF InSequence
    <3> QED BY <3>1, <3>6
  <2> QED BY <2>9, <2>10
<1> QED BY <1>5, <1>6

\* A task starts with no pump on the stack.
LEMMA TaskInSequence ==
    ASSUME Inv, Good(s), InSequence(s), NEW r \in Reactions,
           OnMessage(r) \/ InputFlush(r) \/ TimerFire(r)
    PROVE  InSequence(s')
<1>0. s \in Connection /\ Accounts(s) /\ now \in Nat /\ r \in Reaction /\ s.frames = <<>>
  BY DriverAssumption DEF Inv, Sound, Accounts, OnMessage, InputFlush, TimerFire, Task, Running
<1>1. ASSUME NEW c \in Connection, Mute(s, c), Accounts(c)
      PROVE  InSequence(Pump(React(c, r), "none")) /\ InSequence(Pump(EngineTick(c, r), "none"))
  <2>1. InSequence(c) /\ c.frames = <<>>
    BY <1>0, <1>1, MuteInSequence DEF Mute
  <2>2. InSequence(React(c, r)) /\ InSequence(EngineTick(c, r))
    BY <1>0, <1>1, <2>1, ReactSays, SaysInSequence, TickInSequence
  <2>3. Accounts(React(c, r)) /\ Accounts(EngineTick(c, r))
    BY <1>0, <1>1, ReactAccounts, TickAccounts
  <2>4. React(c, r).frames = <<>> /\ EngineTick(c, r).frames = <<>>
    BY <1>0, <1>1, <2>1, ReactApart, TickApart DEF Apart
  <2> DEFINE a == React(c, r)
             b == EngineTick(c, r)
  <2>5. InSequence(a) /\ InSequence(b) /\ Accounts(a) /\ Accounts(b) /\ a.frames = <<>> /\ b.frames = <<>>
    BY <2>2, <2>3, <2>4
  <2> HIDE DEF a, b
  <2>6. InSequence(Pump(a, "none")) /\ InSequence(Pump(b, "none"))
    BY <1>0, <2>5, PumpInSequence
  <2> QED BY <2>6 DEF a, b
<1>2. CASE OnMessage(r)
  <2> DEFINE n == s.inbound + 1
             tasks == s.tasks \cup {"input"}
             d == [s EXCEPT !.inbound = n]
             e == [s EXCEPT !.inbound = n, !.inboundScheduled = TRUE, !.tasks = tasks]
  <2>1. s' = s \/ s' = Pump(React(s, r), "none") \/ s' = d \/ s' = e
    BY <1>2 DEF OnMessage
  <2> HIDE DEF n, tasks
  <2>2. Mute(s, s) /\ Mute(s, d) /\ Mute(s, e)
    BY <1>0 DEF Connection, Mute
  <2> HIDE DEF d, e
  <2> QED BY <1>0, <1>1, <2>1, <2>2, MuteInSequence
<1>3. CASE InputFlush(r)
  <2> DEFINE tasks == s.tasks \ {"input"}
             started == [s EXCEPT !.inboundScheduled = FALSE, !.tasks = tasks]
             fed == [started EXCEPT !.inbound = 0]
  <2>1. tasks \in SUBSET {"input", "send"}
    BY <1>0 DEF Connection
  <2>2. s' = started \/ s' = Pump(React(fed, r), "none")
    BY <1>3 DEF InputFlush
  <2> HIDE DEF tasks
  <2>3. started \in Connection
    BY <1>0, <2>1, Zenon DEF Connection
  <2>4. /\ Mute(s, started) /\ started.queue = s.queue /\ started.queuedBytes = s.queuedBytes
        /\ started.free = s.free
    BY <1>0 DEF Connection, Mute
  <2> HIDE DEF started
  <2>5. fed \in Connection
    BY <2>3 DEF Connection
  <2>6. /\ Mute(started, fed) /\ fed.queue = started.queue /\ fed.queuedBytes = started.queuedBytes
        /\ fed.free = started.free
    BY <2>3 DEF Connection, Mute
  <2> HIDE DEF fed
  <2>7. Mute(s, fed) /\ fed.queue = s.queue /\ fed.queuedBytes = s.queuedBytes /\ fed.free = s.free
    BY <2>4, <2>6 DEF Mute
  <2>8. Accounts(fed)
    BY <1>0, <2>5, <2>7, Carried DEF Mute
  <2> QED BY <1>1, <2>2, <2>4, <2>5, <2>7, <2>8, MuteInSequence
<1>4. CASE TimerFire(r)
  <2> DEFINE d == [s EXCEPT !.timer = NoTime]
  <2>1. s' = Pump(EngineTick(d, r), "none")
    BY <1>4 DEF TimerFire
  <2>2. d \in Connection
    BY <1>0 DEF Connection
  <2>3. Mute(s, d) /\ d.queue = s.queue /\ d.queuedBytes = s.queuedBytes /\ d.free = s.free
    BY <1>0 DEF Connection, Mute
  <2> HIDE DEF d
  <2>4. Accounts(d)
    BY <1>0, <2>2, <2>3, Carried DEF Mute
  <2> QED BY <1>1, <2>1, <2>2, <2>3, <2>4
<1> QED BY <1>2, <1>3, <1>4

LEMMA HostInSequence ==
    ASSUME Inv, Good(s), InSequence(s), OnePump,
           \/ \E ok \in BOOLEAN : Bind(ok) \/ CreateEngine(ok)
           \/ SendFlush \/ OnError \/ Awaken \/ (\E len \in Sizes : Send(len))
           \/ Close \/ Stats \/ Advance
    PROVE  InSequence(s')
<1>0. s \in Connection /\ Accounts(s) /\ Sound(s) /\ now \in Nat
  BY DEF Inv, Sound, Accounts
<1>1. ASSUME NEW c \in Connection, Mute(s, c), s.frames = <<>>, c.queue = s.queue,
             c.queuedBytes = s.queuedBytes, c.free = s.free, NEW after \in {"none", "settle", "close"}
      PROVE  InSequence(Pump(c, after))
  <2>1. InSequence(c) /\ c.frames = <<>> /\ Accounts(c)
    BY <1>0, <1>1, MuteInSequence, Carried DEF Mute
  <2> QED BY <1>0, <2>1, PumpInSequence
<1>2. CASE \E ok \in BOOLEAN : Bind(ok)
  <2>1. \/ s' = [s EXCEPT !.phase = "create", !.socket = "open"]
        \/ s' = [s EXCEPT !.phase = "failed", !.promise = "rejected"]
    BY <1>2 DEF Bind
  <2>2. CASE s' = [s EXCEPT !.phase = "create", !.socket = "open"]
    <3>1. Mute(s, s')
      BY <1>0, <2>2 DEF Connection, Mute
    <3> QED BY <3>1, MuteInSequence
  <2>3. CASE s' = [s EXCEPT !.phase = "failed", !.promise = "rejected"]
    <3>1. Mute(s, s')
      BY <1>0, <2>3 DEF Connection, Mute
    <3> QED BY <3>1, MuteInSequence
  <2> QED BY <2>1, <2>2, <2>3
<1>3. CASE \E ok \in BOOLEAN : CreateEngine(ok)
  <2> DEFINE c == [s EXCEPT !.phase = "running", !.lib = now]
             d == [s EXCEPT !.phase = "failed", !.socket = "closed", !.promise = "rejected"]
  <2>1. (s' = Pump(c, "settle") \/ s' = d) /\ s.frames = <<>>
    BY <1>3 DEF CreateEngine, Task, Running
  <2>2. c \in Connection
    BY <1>0 DEF Connection
  <2>3. Mute(s, c) /\ c.queue = s.queue /\ c.queuedBytes = s.queuedBytes /\ c.free = s.free
    BY <1>0 DEF Connection, Mute
  <2>4. Mute(s, d)
    BY <1>0 DEF Connection, Mute
  <2> HIDE DEF c, d
  <2> QED BY <1>1, <2>1, <2>2, <2>3, <2>4, MuteInSequence
<1>4. CASE SendFlush
  <2> DEFINE tasks == s.tasks \ {"send"}
             d == [s EXCEPT !.outboundScheduled = FALSE, !.tasks = tasks]
  <2>1. s' = Pump(d, "none") /\ s.frames = <<>>
    BY <1>4 DEF SendFlush, Task, Running
  <2>2. tasks \in SUBSET {"input", "send"}
    BY <1>0 DEF Connection
  <2> HIDE DEF tasks
  <2>3. d \in Connection
    BY <1>0, <2>2, Zenon DEF Connection
  <2>4. Mute(s, d) /\ d.queue = s.queue /\ d.queuedBytes = s.queuedBytes /\ d.free = s.free
    BY <1>0 DEF Connection, Mute
  <2> HIDE DEF d
  <2> QED BY <1>1, <2>1, <2>3, <2>4
<1>5. CASE OnError
  BY <1>0, <1>5, FinishInSequence DEF OnError
<1>6. CASE Awaken
  <2>1. s' = [s EXCEPT !.handle = TRUE]
    BY <1>6 DEF Awaken
  <2>2. Mute(s, s')
    BY <1>0, <2>1 DEF Connection, Mute
  <2> QED BY <2>2, MuteInSequence
<1>7. CASE \E len \in Sizes : Send(len)
  <2>1. PICK len \in Sizes : s' = HandleSend(s, len)
    BY <1>7 DEF Send
  <2> QED BY <1>0, <2>1, HandleSendInSequence DEF OnePump
<1>8. CASE Close
  <2> DEFINE e == End(s)
  <2>1. (s' = s \/ s' = Pump(e, "close")) /\ s.frames = <<>>
    BY <1>8 DEF Close, HandleClose, Task, Running
  <2>2. Accounts(e) /\ InSequence(e) /\ e.frames = <<>>
    BY <1>0, <2>1, EndSound, EndSays, EndApart, SaysInSequence DEF Apart
  <2> HIDE DEF e
  <2>3. InSequence(Pump(e, "close"))
    BY <1>0, <2>2, PumpInSequence
  <2> QED BY <2>1, <2>3
<1>9. CASE Stats
  <2> DEFINE m == IF s.disposes > 0 THEN s.misused \cup {"stats"} ELSE s.misused
  <2>1. s' = [s EXCEPT !.misused = m]
    BY <1>9 DEF Stats
  <2> HIDE DEF m
  <2>2. Mute(s, s')
    BY <1>0, <2>1 DEF Connection, Mute
  <2> QED BY <2>2, MuteInSequence
<1>10. CASE Advance
  BY <1>10 DEF Advance
<1> QED BY <1>2, <1>3, <1>4, <1>5, <1>6, <1>7, <1>8, <1>9, <1>10

-----------------------------------------------------------------------------
(* The theorems.                                                           *)

\* What the host has been told follows from the life of the connection, and
\* each change of that life is a step of the contract.
LEMMA LivesByContract ==
    ASSUME Told(s), Told(s'), Lives(s, s')
    PROVE  [Contract!Next]_(Contract!vars)
<1>1. CASE /\ s'.opened = s.opened /\ s'.closed = s.closed
           /\ \/ s'.phase = s.phase
              \/ s.phase \in {"bind", "create"} /\ s'.phase \in {"create", "running"}
  <2>1. s'.promise = s.promise /\ s'.onOpens = s.onOpens /\ s'.onCloses = s.onCloses
    BY <1>1 DEF Told
  <2> QED BY <2>1 DEF Contract!vars
<1>2. CASE ~s.opened /\ s'.opened /\ ~s.closed /\ ~s'.closed /\ s.phase = "running" /\ s'.phase = "running"
  <2>1. /\ s.promise = "pending" /\ s'.promise = "resolved" /\ s'.onOpens = 1
        /\ s'.onCloses = s.onCloses
    BY <1>2 DEF Told
  <2> QED BY <2>1 DEF Contract!Next, Contract!Open
<1>3. CASE s'.opened = s.opened /\ ~s.closed /\ s'.closed /\ s.phase = "running" /\ s'.phase = "running"
  <2>1. CASE s.opened
    <3>1. /\ s.promise = "resolved" /\ s.onCloses = 0 /\ s'.onCloses = 1
          /\ s'.promise = s.promise /\ s'.onOpens = s.onOpens
      BY <1>3, <2>1 DEF Told
    <3> QED BY <3>1 DEF Contract!Next, Contract!End
  <2>2. CASE ~s.opened
    <3>1. /\ s.promise = "pending" /\ s'.promise = "rejected"
          /\ s'.onOpens = s.onOpens /\ s'.onCloses = s.onCloses
      BY <1>3, <2>2 DEF Told
    <3> QED BY <3>1 DEF Contract!Next, Contract!Refuse
  <2> QED BY <2>1, <2>2
<1>4. CASE s.phase \in {"bind", "create"} /\ s'.phase = "failed"
  <2>1. /\ s.promise = "pending" /\ s'.promise = "rejected"
        /\ s'.onOpens = s.onOpens /\ s'.onCloses = s.onCloses
    BY <1>4 DEF Told
  <2> QED BY <2>1 DEF Contract!Next, Contract!Refuse
<1> QED BY <1>1, <1>2, <1>3, <1>4 DEF Lives

\* The driver implements RelayContract whatever its options, its engine, its
\* socket and its host: the promise settles with the channel or rejects if
\* the tunnel ends first, onOpen and onClose are called at most once, and
\* onClose only after onOpen.
THEOREM DriverImplementsContract == Spec => KeepsContract
<1>1. Init => Contract!Init
  BY DEF Init, Contract!Init
<1>2. Inv /\ Good(s) /\ Fresh /\ [Next]_vars => [Contract!Next]_(Contract!vars)
  <2>1. ASSUME Inv, Good(s), Next PROVE [Contract!Next]_(Contract!vars)
    <3>1. Good(s') /\ Step(s, s')
      BY <2>1, NextGood
    <3> QED BY <2>1, <3>1, LivesByContract DEF Good, Held, Step
  <2>2. UNCHANGED vars => UNCHANGED Contract!vars
    BY DEF vars, Contract!vars
  <2> QED BY <2>1, <2>2
<1> QED BY <1>1, <1>2, AlwaysGood, PTL DEF Spec, KeepsContract, Contract!Spec

\* finish and the two failures of the set-up release everything: the socket,
\* the timer, the queue and, once, the engine.
THEOREM EverythingIsReleased == Spec => []NothingLeaks
<1>1. Inv /\ Good(s) /\ Fresh => NothingLeaks
  <2> SUFFICES ASSUME Inv, Good(s), Fresh, s.promise = "rejected" \/ s.onCloses > 0
               PROVE  /\ s.socket # "open" /\ s.timer = NoTime /\ s.queue = <<>>
                      /\ s.disposes = IF s.phase = "running" THEN 1 ELSE 0
    BY DEF NothingLeaks
  <2>1. s.closed \/ s.phase = "failed"
    BY DEF Good, Held, Told
  <2>2. CASE s.closed
    <3>1. s.queue = <<>>
      BY <2>2 DEF Inv, Sound, Accounts
    <3> QED BY <2>2, <3>1 DEF Good, Held, Told
  <2>3. CASE s.phase = "failed"
    BY <2>3 DEF Good, Held, Told, Fresh
  <2> QED BY <2>1, <2>2, <2>3
<1> QED BY <1>1, AlwaysGood, PTL

\* No event is left in the engine at the end of a turn, unless the deferred
\* drain is scheduled.
THEOREM EventsAreDrained == Spec => []EventsDrained
<1>1. Good(s) => EventsDrained
  <2> SUFFICES ASSUME Good(s), Idle, "send" \notin s.tasks PROVE s.ev = <<>>
    BY DEF EventsDrained
  <2>1. s.frames = <<>> /\ ~s.closed
    BY DEF Idle, Running
  <2>2. DOMAIN s.frames = {}
    BY <2>1
  <2> QED BY <2>1, <2>2 DEF Good, Spoken
<1> QED BY <1>1, AlwaysGood, PTL

\* No datagram is left in the input batch without its flush.
THEOREM InboundReachesEngine == Spec => []InboundIsFlushed
<1>1. Good(s) => InboundIsFlushed
  BY DEF Good, Held, Flagged, InboundIsFlushed, Idle
<1> QED BY <1>1, AlwaysGood, PTL

\* Without a queue to flush behind it, schedule arms the timer in time; with
\* backpressure "queue", pump flushes after it has scheduled, and the timer
\* may be late by a retransmission.
THEOREM TimerIsInTime ==
    ASSUME Policy = "drop"
    PROVE  Spec => []TimerCovers
<1>1. Good(s) => TimerCovers
  BY DEF Good, Armed, Covers, TimerCovers, Idle
<1> QED BY <1>1, AlwaysGood, PTL

\* Draining in batches, the driver never polls an engine it has disposed of,
\* not even when onPacket closes the connection in the middle of a batch.
THEOREM DisposedIsNotPolled ==
    ASSUME EventBatchSize > 0
    PROVE  Spec => []DriverRespectsDispose
<1>1. Good(s) => DriverRespectsDispose
  BY DEF Good, Held, Flagged, BatchMode, DriverRespectsDispose
<1> QED BY <1>1, AlwaysGood, PTL

\* With sends batched and no close from onPacket, pumps do not nest, and no
\* message is delivered once onClose was called.
THEOREM SilentOnceClosed ==
    ASSUME SendBatch, "close" \notin Reentrant
    PROVE  Spec => NoPacketAfterClose
<1>1. ASSUME Inv, Good(s), [Next]_vars, s'.packets # s.packets
      PROVE  s.onCloses = 0
  <2>1. Next
    BY <1>1 DEF vars
  <2>2. Step(s, s')
    BY <1>1, <2>1, NextGood
  <2>3. ~s.closed
    BY <1>1, <2>2 DEF Step, Good, Stack, Flat
  <2> QED BY <1>1, <2>3 DEF Good, Held, Told
<1>2. Inv /\ Good(s) /\ Fresh /\ [Next]_vars => [s'.packets # s.packets => s.onCloses = 0]_vars
  BY <1>1
<1> QED BY <1>2, AlwaysGood, PTL DEF Spec, NoPacketAfterClose

\* With sends batched and no close from onPacket, the host gets the messages
\* in the order the engine produced them, none twice and none skipped,
\* however the drain is batched and whatever is sent in between.
THEOREM PacketsKeepOrder ==
    ASSUME SendBatch, "close" \notin Reentrant
    PROVE  Spec => []PacketsInOrder
<1>1. OnePump
  BY DEF OnePump
<1>2. Init => InSequence(s)
  <2> SUFFICES ASSUME Init PROVE InSequence(s)
    OBVIOUS
  <2>1. s.packets = <<>> /\ s.frames = <<>> /\ s.ev = <<>> /\ s.produced = 0
    BY DEF Init
  <2>2. <<>> \in Seq(Event) /\ DOMAIN <<>> = {} /\ Len(<<>>) = 0
    OBVIOUS
  <2>3. Counts(<<>>, 0, 0)
    BY <2>2, CountsNone
  <2> QED BY <2>1, <2>2, <2>3 DEF InSequence, Pending
<1>3. Inv /\ Good(s) /\ Fresh /\ InSequence(s) /\ [Next]_vars => InSequence(s')
  <2>1. ASSUME Inv, Good(s), InSequence(s), Next PROVE InSequence(s')
    BY <1>1, <2>1, ApplyEventInSequence, DrainInSequence, TaskInSequence, HostInSequence DEF Next
  <2>2. InSequence(s) /\ UNCHANGED vars => InSequence(s')
    BY DEF vars
  <2> QED BY <2>1, <2>2
<1> DEFINE J == InSequence(s)
<1>4. (Init => J) /\ (Inv /\ Good(s) /\ Fresh /\ J /\ [Next]_vars => J') /\ (J => PacketsInOrder)
  BY <1>2, <1>3 DEF InSequence, PacketsInOrder
<1> HIDE DEF J
<1> QED BY <1>4, AlwaysGood, PTL DEF Spec
=============================================================================
