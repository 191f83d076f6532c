---------------------------- MODULE RelayDriver ----------------------------
(***************************************************************************)
(* packages/rtc-tunnel/src/driver.ts: openConnection, which drives a       *)
(* sans-I/O engine with a UDP socket and a timer and exposes the relay     *)
(* connection.                                                             *)
(*                                                                         *)
(* The host is one JavaScript thread.  A task (a socket message, a timer,  *)
(* a deferred flush, a call of the host) runs to completion, but pump      *)
(* calls the host back in the middle of its loop and the host may call     *)
(* send or close from there, which pumps again.  The call stack of pumps   *)
(* is s.frames; a task starts only when it is empty.                       *)
(*                                                                         *)
(* The engine is modelled by its interface (engine.ts): what it answers to *)
(* a datagram or a tick is any member of Reactions.  DirectTunnel shows    *)
(* what stands behind it: messages may precede Opened and follow Closed,   *)
(* and the handshake ends at its deadline if the engine is ticked.         *)
(***************************************************************************)
EXTENDS Integers, Sequences, FiniteSets

CONSTANTS
    Policy,            \* backpressure: "drop" or "queue"
    EventBatchSize,    \* eventBatchSize; 0 selects pollEvent
    InputBatch,        \* TRUE unless inputBatch is "off"
    SendBatch,         \* TRUE unless sendBatch is "off"
    Reentrant,         \* what onPacket may do: a subset of {"send", "close"}
    MaxQueuedBytes,    \* maxQueuedBytes
    MaxMessageSize,    \* the engine's limit on one message
    Cap,               \* room in the engine's send buffer when it is empty
    Sizes,             \* lengths of the messages the host sends
    Reactions,         \* what the engine may answer to an input or a tick
    Rto,               \* the engine's retransmission timer, after a send
    HandshakeTimeout,  \* handshakeTimeoutMs
    MaxTime,           \* bound of the clock
    MaxInputs,         \* bound on socket messages, for TLC
    MaxSends           \* bound on calls of send, for TLC

NoTime == -1
Earlier(a, b) == IF a = NoTime THEN b ELSE IF b = NoTime THEN a
                 ELSE IF a <= b THEN a ELSE b

Kinds == {"Datagram", "Opened", "Message", "Closed"}
Reaction == [events : Seq(Kinds), ack : BOOLEAN, delay : Nat \ {0}]

ASSUME DriverAssumption ==
    /\ Policy \in {"drop", "queue"}
    /\ EventBatchSize \in Nat
    /\ InputBatch \in BOOLEAN /\ SendBatch \in BOOLEAN
    /\ Reentrant \subseteq {"send", "close"}
    /\ {MaxQueuedBytes, MaxMessageSize, Cap, HandshakeTimeout} \subseteq Nat
    /\ Sizes \subseteq Nat \ {0}
    /\ \A r \in Reactions : r \in Reaction
    /\ Rto \in Nat \ {0}
    /\ {MaxTime, MaxInputs, MaxSends} \subseteq Nat

Event == [kind : Kinds, id : Nat]
OutMessage == [id : Nat, len : Nat]
Frame == [batch : Seq(Event), more : BOOLEAN, after : {"none", "settle", "close"}]

Connection ==
    [ \* the closure of openConnection
      opened : BOOLEAN, closed : BOOLEAN, timer : Nat \cup {NoTime},
      queue : Seq(OutMessage), queuedBytes : Nat, refusedSends : Nat,
      inbound : Nat, inboundScheduled : BOOLEAN, outboundScheduled : BOOLEAN,
      \* the thread: pumps on the stack, flushes the event loop will run
      frames : Seq(Frame), tasks : SUBSET {"input", "send"},
      \* the engine
      ev : Seq(Event), lib : Nat \cup {NoTime}, up : BOOLEAN, done : BOOLEAN,
      free : Nat, produced : Nat, disposes : Nat, misused : SUBSET {"stats", "pollEvent"},
      \* the world outside
      phase : {"bind", "create", "running", "failed"}, socket : {"none", "open", "closed"},
      promise : {"pending", "resolved", "rejected"}, handle : BOOLEAN,
      onOpens : Nat, onCloses : Nat, packets : Seq(Nat), accepted : Seq(Nat), sends : Nat ]

VARIABLES s, now, inputs
vars == <<s, now, inputs>>

-----------------------------------------------------------------------------
(* The engine.                                                             *)

Has(r, kind) == \E i \in DOMAIN r.events : r.events[i] = kind
\* Messages are numbered in the order the engine produced them.
MessagesIn(kinds, k) == Cardinality({j \in 1..k : kinds[j] = "Message"})
Numbered(kinds, n) ==
    [i \in DOMAIN kinds |->
        [kind |-> kinds[i], id |-> IF kinds[i] = "Message" THEN n + MessagesIn(kinds, i) ELSE 0]]

\* The engine opens at most once.
Possible(r) == Has(r, "Opened") => ~s.up

\* A finished engine ignores its input.
React(c, r) ==
    IF c.done THEN c
    ELSE [c EXCEPT !.ev = @ \o Numbered(r.events, c.produced),
                   !.produced = @ + MessagesIn(r.events, Len(r.events)),
                   !.up = @ \/ Has(r, "Opened"),
                   !.done = Has(r, "Closed"),
                   !.free = IF r.ack THEN Cap ELSE @,
                   !.lib = now + r.delay]

End(c) == IF c.done THEN c
          ELSE [c EXCEPT !.ev = Append(@, [kind |-> "Closed", id |-> 0]), !.done = TRUE]

\* Acknowledgements come with datagrams only.
EngineTick(c, r) ==
    LET ticked == React(c, [r EXCEPT !.ack = FALSE])
    IN  IF ~ticked.up /\ now >= HandshakeTimeout THEN End(ticked) ELSE ticked

NextDeadline(c) ==
    IF c.done THEN NoTime ELSE IF c.up THEN c.lib ELSE Earlier(c.lib, HandshakeTimeout)

SendResult(c, len) ==
    IF c.done \/ ~c.up THEN "NotOpen"
    ELSE IF len > MaxMessageSize THEN "TooLarge"
    ELSE IF len > c.free THEN "Backpressure" ELSE "Accepted"

Bytes(q) ==
    LET upTo[i \in 0..Len(q)] == IF i = 0 THEN 0 ELSE upTo[i - 1] + q[i].len
    IN  upTo[Len(q)]

\* Each accepted message takes room, leaves as a datagram and starts the
\* retransmission timer.
EngineSend(c, q) ==
    IF q = <<>> THEN c
    ELSE [c EXCEPT !.free = @ - Bytes(q),
                   !.ev = @ \o [i \in DOMAIN q |-> [kind |-> "Datagram", id |-> 0]],
                   !.accepted = @ \o [i \in DOMAIN q |-> q[i].id],
                   !.lib = Earlier(@, now + Rto)]

-----------------------------------------------------------------------------
(* finish, schedule, flushQueue and pump.                                  *)

Settle(promise, how) == IF promise = "pending" THEN how ELSE promise

\* Variants of finish with a plausible mistake, for the mutation runs: the
\* caller is told of the end of a channel it never had, its promise is left
\* pending, or a second call goes through.
FinishAlwaysTells(c) ==
    IF c.closed THEN c
    ELSE [c EXCEPT !.closed = TRUE, !.timer = NoTime, !.queue = <<>>, !.queuedBytes = 0,
                   !.socket = "closed", !.disposes = @ + 1, !.onCloses = @ + 1]
FinishUnsettled(c) ==
    IF c.closed THEN c
    ELSE [c EXCEPT !.closed = TRUE, !.timer = NoTime, !.queue = <<>>, !.queuedBytes = 0,
                   !.socket = "closed", !.disposes = @ + 1,
                   !.onCloses = IF c.opened THEN @ + 1 ELSE @]
FinishAgain(c) ==
    [c EXCEPT !.closed = TRUE, !.timer = NoTime, !.queue = <<>>, !.queuedBytes = 0,
              !.socket = "closed", !.disposes = @ + 1,
              !.onCloses = IF c.opened THEN @ + 1 ELSE @]

Finish(c) ==
    LET released == [c EXCEPT !.closed = TRUE, !.timer = NoTime, !.queue = <<>>,
                              !.queuedBytes = 0, !.socket = "closed", !.disposes = @ + 1]
    IN  IF c.closed THEN c
        ELSE IF c.opened THEN [released EXCEPT !.onCloses = @ + 1]
        ELSE [released EXCEPT !.promise = Settle(@, "rejected")]

\* Variant: an armed timer is kept whatever the deadline.
ScheduleOnce(c) ==
    IF c.closed \/ NextDeadline(c) = NoTime \/ c.timer # NoTime
    THEN c ELSE [c EXCEPT !.timer = NextDeadline(c)]

\* An armed timer is kept while it fires at or before the deadline.
Schedule(c) ==
    LET deadline == NextDeadline(c)
    IN  IF \/ c.closed \/ deadline = NoTime
           \/ c.timer # NoTime /\ c.timer <= deadline
        THEN c ELSE [c EXCEPT !.timer = deadline]

\* The queue is flushed up to the first message the engine has no room for;
\* an engine that is not open loses it all.
Fitting(c) == {k \in 1..Len(c.queue) : Bytes(SubSeq(c.queue, 1, k)) <= c.free}

\* Variants: one message a flush, a message sent but not taken off the queue,
\* a count that is not brought down.
FlushOne(c) ==
    IF c.done \/ ~c.up THEN [c EXCEPT !.queue = <<>>, !.queuedBytes = 0]
    ELSE IF Fitting(c) = {} THEN c
    ELSE [EngineSend(c, <<Head(c.queue)>>) EXCEPT !.queue = Tail(@),
                                                  !.queuedBytes = @ - Head(c.queue).len]
FlushUnshifted(c) ==
    IF Fitting(c) = {} THEN c
    ELSE [EngineSend(c, <<Head(c.queue)>>) EXCEPT !.queuedBytes = @ - Head(c.queue).len]
FlushUncounted(c) ==
    LET k == Cardinality(Fitting(c))
    IN  [EngineSend(c, SubSeq(c.queue, 1, k)) EXCEPT !.queue = SubSeq(@, k + 1, Len(@))]

FlushQueue(c) ==
    LET k == Cardinality(Fitting(c))
        flushed == SubSeq(c.queue, 1, k)
    IN  IF c.done \/ ~c.up THEN [c EXCEPT !.queue = <<>>, !.queuedBytes = 0]
        ELSE [EngineSend(c, flushed) EXCEPT !.queue = SubSeq(@, k + 1, Len(@)),
                                            !.queuedBytes = @ - Bytes(flushed)]

\* pump up to its loop; what its caller still has to do waits in the frame.
Pump(c, after) ==
    LET scheduled == Schedule(c)
        flushed == IF Policy = "queue" THEN FlushQueue(scheduled) ELSE scheduled
    IN  IF c.closed THEN c
        ELSE [flushed EXCEPT !.frames = <<[batch |-> <<>>, more |-> TRUE, after |-> after]>> \o @]

\* pump returns: close() goes on to finish, the promise's executor to its
\* last check.
Return(c) ==
    LET after == Head(c.frames).after
        popped == [c EXCEPT !.frames = Tail(@)]
    IN  IF after = "close" THEN Finish(popped)
        ELSE IF after = "settle" /\ c.opened
        THEN [popped EXCEPT !.promise = Settle(@, "resolved")]
        ELSE IF after = "settle" /\ c.closed
        THEN [popped EXCEPT !.promise = Settle(@, "rejected")]
        ELSE popped

-----------------------------------------------------------------------------
(* The handle.                                                             *)

\* Variant: the drain is not deferred.
SchedulePumpNow(c) == Pump(c, "none")

SchedulePump(c) ==
    IF ~SendBatch THEN Pump(c, "none")
    ELSE IF c.outboundScheduled THEN c
    ELSE [c EXCEPT !.outboundScheduled = TRUE, !.tasks = @ \cup {"send"}]

\* Variant: the newest message first.
EnqueueFront(c, m) == [c EXCEPT !.queue = <<m>> \o @, !.queuedBytes = @ + m.len]

Enqueue(c, m) == [c EXCEPT !.queue = Append(@, m), !.queuedBytes = @ + m.len]

HandleSend(c, len) ==
    LET result == SendResult(c, len)
        m == [id |-> c.sends + 1, len |-> len]
        called == [c EXCEPT !.sends = @ + 1]
    IN  IF c.closed \/ ~c.opened THEN called
        ELSE IF result = "Accepted" THEN SchedulePump(EngineSend(called, <<m>>))
        ELSE IF result # "Backpressure" THEN called
        ELSE IF Policy = "queue" /\ c.queuedBytes + len <= MaxQueuedBytes
        THEN Enqueue(called, m)
        ELSE [called EXCEPT !.refusedSends = @ + 1]

HandleClose(c) == IF c.closed THEN c ELSE Pump(End(c), "close")

-----------------------------------------------------------------------------
(* The loop of pump, one event a step.                                     *)

Running == s.frames # <<>>
Top == Head(s.frames)

\* The pump at the top of the stack has taken its next event off its batch.
Taken == [s EXCEPT !.frames[1].batch = Tail(@)]

\* onPacket runs; the host may use its handle before it returns.
AfterPacket(c) ==
    {c} \cup (IF c.handle /\ "close" \in Reentrant THEN {HandleClose(c)} ELSE {})
        \cup (IF c.handle /\ "send" \in Reentrant /\ c.sends < MaxSends
              THEN {HandleSend(c, len) : len \in Sizes} ELSE {})

\* Variant: the pump goes on with its batch after Closed.
ApplyClosedGoesOn(c) == Finish([c EXCEPT !.frames[1].batch = Tail(@)])

\* Closed ends the pump; the rest of its batch is dropped.
ApplyClosed(c) == Return(Finish(c))

ApplyEvent ==
    /\ Running /\ Top.batch # <<>>
    /\ LET e == Head(Top.batch) IN
       CASE e.kind = "Datagram" -> s' = Taken
         [] e.kind = "Opened" ->
              s' = IF s.opened THEN Taken
                   ELSE [Taken EXCEPT !.opened = TRUE, !.onOpens = @ + 1,
                                      !.promise = Settle(@, "resolved")]
         [] e.kind = "Message" ->
              s' \in AfterPacket([Taken EXCEPT !.packets = Append(@, e.id)])
         [] e.kind = "Closed" -> s' = ApplyClosed(s)
    /\ UNCHANGED <<now, inputs>>

\* Batched, the loop ends when the connection is closed or a batch was short;
\* polling, only when the engine has nothing more to say.
BatchMode == EventBatchSize > 0

\* Variants: closing from a callback is not noticed, a full batch is the last.
ExhaustedUnaware == IF BatchMode THEN ~Top.more ELSE FALSE
LongerThan(taken, n) == Len(taken) > n

FullBatch(taken, n) == Len(taken) = n
Exhausted == IF BatchMode THEN s.closed \/ ~Top.more ELSE FALSE
DrainEvents ==
    LET n == IF BatchMode THEN EventBatchSize ELSE 1
        taken == IF s.closed THEN <<>> ELSE SubSeq(s.ev, 1, IF n < Len(s.ev) THEN n ELSE Len(s.ev))
        drained == [s EXCEPT !.ev = SubSeq(@, Len(taken) + 1, Len(@)),
                             !.misused = IF s.closed THEN @ \cup {"pollEvent"} ELSE @]
    IN  /\ Running /\ Top.batch = <<>> /\ ~Exhausted
        /\ s' = IF taken = <<>> THEN Return(drained)
                ELSE [drained EXCEPT !.frames[1] = [@ EXCEPT !.batch = taken,
                                                             !.more = FullBatch(taken, n)]]
        /\ UNCHANGED <<now, inputs>>

PumpReturns ==
    /\ Running /\ Top.batch = <<>> /\ Exhausted
    /\ s' = Return(s)
    /\ UNCHANGED <<now, inputs>>

-----------------------------------------------------------------------------
(* The tasks.                                                              *)

Task(phase) == ~Running /\ s.phase = phase /\ UNCHANGED now

Bind(ok) ==
    /\ Task("bind")
    /\ s' = IF ok THEN [s EXCEPT !.phase = "create", !.socket = "open"]
            ELSE [s EXCEPT !.phase = "failed", !.promise = "rejected"]
    /\ UNCHANGED inputs

\* The handlers are installed and the promise's executor pumps, in one turn.
CreateEngine(ok) ==
    /\ Task("create")
    /\ s' = IF ok THEN Pump([s EXCEPT !.phase = "running", !.lib = now], "settle")
            ELSE [s EXCEPT !.phase = "failed", !.socket = "closed", !.promise = "rejected"]
    /\ UNCHANGED inputs

\* A closed endpoint delivers nothing, and the handler checks again.
OnMessage(r) ==
    /\ Task("running") /\ s.socket = "open" /\ inputs < MaxInputs /\ Possible(r)
    /\ inputs' = inputs + 1
    /\ s' = IF s.closed THEN s
            ELSE IF ~InputBatch THEN Pump(React(s, r), "none")
            ELSE IF s.inboundScheduled THEN [s EXCEPT !.inbound = @ + 1]
            ELSE [s EXCEPT !.inbound = @ + 1, !.inboundScheduled = TRUE,
                           !.tasks = @ \cup {"input"}]

\* Variants: the scheduled flag is not reset.
InputFlushSticky(r) ==
    LET started == [s EXCEPT !.tasks = @ \ {"input"}]
    IN  /\ Task("running") /\ "input" \in s.tasks /\ Possible(r)
        /\ s' = IF s.closed \/ s.inbound = 0 THEN started
                ELSE Pump(React([started EXCEPT !.inbound = 0], r), "none")
        /\ UNCHANGED inputs
SendFlushSticky ==
    /\ Task("running") /\ "send" \in s.tasks
    /\ s' = Pump([s EXCEPT !.tasks = @ \ {"send"}], "none")
    /\ UNCHANGED inputs

\* The engine's answer to the whole batch is one reaction.
InputFlush(r) ==
    LET started == [s EXCEPT !.inboundScheduled = FALSE, !.tasks = @ \ {"input"}]
    IN  /\ Task("running") /\ "input" \in s.tasks /\ Possible(r)
        /\ s' = IF s.closed \/ s.inbound = 0 THEN started
                ELSE Pump(React([started EXCEPT !.inbound = 0], r), "none")
        /\ UNCHANGED inputs

SendFlush ==
    /\ Task("running") /\ "send" \in s.tasks
    /\ s' = Pump([s EXCEPT !.outboundScheduled = FALSE, !.tasks = @ \ {"send"}], "none")
    /\ UNCHANGED inputs

TimerFire(r) ==
    /\ Task("running") /\ s.timer \in 0..now /\ Possible(r)
    /\ s' = Pump(EngineTick([s EXCEPT !.timer = NoTime], r), "none")
    /\ UNCHANGED inputs

OnError ==
    /\ Task("running") /\ s.socket = "open"
    /\ s' = Finish(s)
    /\ UNCHANGED inputs

\* The caller's await returns and it has its handle.
Awaken ==
    /\ Task("running") /\ s.promise = "resolved" /\ ~s.handle
    /\ s' = [s EXCEPT !.handle = TRUE]
    /\ UNCHANGED inputs

Send(len) ==
    /\ Task("running") /\ s.handle /\ s.sends < MaxSends
    /\ s' = HandleSend(s, len)
    /\ UNCHANGED inputs

Close ==
    /\ Task("running") /\ s.handle
    /\ s' = HandleClose(s)
    /\ UNCHANGED inputs

\* stats asks the engine whatever the state of the connection.
Stats ==
    /\ Task("running") /\ s.handle
    /\ s' = [s EXCEPT !.misused = IF s.disposes > 0 THEN @ \cup {"stats"} ELSE @]
    /\ UNCHANGED inputs

Advance ==
    /\ now < MaxTime /\ ~Running
    /\ now' = now + 1
    /\ UNCHANGED <<s, inputs>>

Init ==
    /\ s = [opened |-> FALSE, closed |-> FALSE, timer |-> NoTime, queue |-> <<>>,
            queuedBytes |-> 0, refusedSends |-> 0, inbound |-> 0,
            inboundScheduled |-> FALSE, outboundScheduled |-> FALSE, frames |-> <<>>,
            tasks |-> {}, ev |-> <<>>, lib |-> NoTime, up |-> FALSE, done |-> FALSE,
            free |-> Cap, produced |-> 0, disposes |-> 0, misused |-> {},
            phase |-> "bind", socket |-> "none", promise |-> "pending", handle |-> FALSE,
            onOpens |-> 0, onCloses |-> 0, packets |-> <<>>, accepted |-> <<>>, sends |-> 0]
    /\ now = 0
    /\ inputs = 0

Next ==
    \/ ApplyEvent \/ DrainEvents \/ PumpReturns
    \/ \E ok \in BOOLEAN : Bind(ok)
    \/ \E ok \in BOOLEAN : CreateEngine(ok)
    \/ \E r \in Reactions : OnMessage(r)
    \/ \E r \in Reactions : InputFlush(r)
    \/ SendFlush
    \/ \E r \in Reactions : TimerFire(r)
    \/ OnError \/ Awaken
    \/ \E len \in Sizes : Send(len)
    \/ Close \/ Stats
    \/ Advance

Spec == Init /\ [][Next]_vars

\* A task runs to its end, the event loop runs what is queued and the timers
\* that have expired, and the two awaits of the set-up return.
FairSpec ==
    /\ Spec
    /\ WF_vars(ApplyEvent \/ DrainEvents \/ PumpReturns)
    /\ WF_vars(\E ok \in BOOLEAN : Bind(ok) \/ CreateEngine(ok))
    /\ WF_vars(\E r \in Reactions : TimerFire(r))
    /\ WF_vars(\E r \in Reactions : InputFlush(r))
    /\ WF_vars(SendFlush)
    /\ WF_vars(Advance)
-----------------------------------------------------------------------------
(* Properties.                                                             *)

Idle == ~Running /\ s.phase = "running" /\ ~s.closed

\* Every field keeps its type.
TypeOK == s \in Connection /\ now \in Nat /\ inputs \in Nat

\* The driver keeps the promise of the relay connection, whatever the engine,
\* the socket and the host do (finish, applyEvent, the promise's executor).
Contract == INSTANCE RelayContract WITH promise <- s.promise, onOpens <- s.onOpens,
                                        onCloses <- s.onCloses
KeepsContract == Contract!Spec

\* Once the caller has been told the connection is over, nothing is held: the
\* socket is closed, the engine disposed exactly once, no timer is armed and
\* no message is queued (finish, the catch of createEngine).
NothingLeaks ==
    s.promise = "rejected" \/ s.onCloses > 0 =>
        /\ s.socket # "open" /\ s.timer = NoTime /\ s.queue = <<>>
        /\ s.disposes = IF s.phase = "running" THEN 1 ELSE 0

\* The driver's own calls never reach a disposed engine, even when onPacket
\* closes the connection in the middle of a batch.
DriverRespectsDispose == "pollEvent" \notin s.misused

\* No event stays in the engine between two turns unless a flush is on its
\* way: every path that makes the engine speak ends in a pump.
EventsDrained == Idle /\ "send" \notin s.tasks => s.ev = <<>>

\* A datagram that was received is fed to the engine: the batch is never left
\* behind without a flush (endpoint.onMessage).
InboundIsFlushed == Idle /\ s.inbound > 0 => "input" \in s.tasks

\* The timer fires no later than the engine asked for: the early return of
\* schedule never keeps a timer that is too late.
TimerCovers ==
    Idle /\ "send" \notin s.tasks /\ NextDeadline(s) # NoTime =>
        s.timer # NoTime /\ s.timer <= NextDeadline(s)

\* queuedBytes is what the queue holds and never exceeds its cap.
QueueAccounting == s.queuedBytes = Bytes(s.queue) /\ s.queuedBytes <= MaxQueuedBytes

\* A message waits in the queue only while the engine has no room for it.
QueueWaitsForRoom == Idle /\ s.queue # <<>> => Head(s.queue).len > s.free

\* Messages reach the engine in the order the host sent them.
Increasing(q) == \A i, j \in DOMAIN q : i < j => q[i] < q[j]
SentInOrder == Increasing(s.accepted)

\* Messages reach the host in the order the engine produced them, none twice,
\* none skipped, however the drain is batched.
PacketsInOrder == \A i \in DOMAIN s.packets : s.packets[i] = i

\* No message is delivered after onClose: the Closed event ends the pump.
NoPacketAfterClose == [][s'.packets # s.packets => s.onCloses = 0]_vars

\* The caller's await always ends: the driver keeps a timer armed for the
\* engine's handshake deadline, ticks it and applies its Closed.
PromiseSettles == <>(s.promise # "pending")

\* When the engine is finished the connection is closed: Closed is not lost
\* in a batch, and a closed connection is reported.
EngineEndIsReported == s.done ~> s.closed

-----------------------------------------------------------------------------
(* What the comments say and the code does not do.                         *)

\* rtc-tunnel-wasm, rtc_tunnel_destroy: the tunnel "must not be used again
\* after this call".
NoUseAfterDispose == s.misused = {}
=============================================================================
