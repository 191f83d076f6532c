----------------------------- MODULE RtcTunnel -----------------------------
(***************************************************************************)
(* crates/rtc-tunnel-core/src/tunnel.rs: Tunnel over the sans-I/O peer     *)
(* connection, the backend of the rtc-backend feature.                     *)
(*                                                                         *)
(* The peer connection (vendor/rtc) is p.  A datagram or a timeout only    *)
(* queues what it causes inside its handlers; poll_event makes one pass    *)
(* over them, which is where a transport starts the next one and where the *)
(* channel opens or goes away.  So what a datagram means takes effect in   *)
(* drain, in the order drain asks for it: output, events, output, input.   *)
(* Payloads are numbers; the SDP, the certificates and the ICE checks are  *)
(* what they lead to.                                                      *)
(***************************************************************************)
EXTENDS Integers, Sequences

CONSTANTS
    Configs,           \* what is wrong with the configuration, "none" included
    Datagrams,         \* what the peer may send
    Timeouts,          \* what a timeout of the peer connection may do
    Sizes,             \* lengths of the messages the host sends
    Caps, DefaultCap,  \* values of send_buffer_cap, and the one it starts with
    MaxMessageSize,    \* MAX_MESSAGE_SIZE
    BufferLength,      \* internal_buffer.len(), the message size SCTP negotiated
    BacklogLimit,      \* SCTP_PIPELINE_READ_BACKLOG_LIMIT
    HandshakeTimeout,  \* handshake_timeout_ms
    MaxTime,           \* bound of the clock
    MaxInputs,         \* bound on datagrams and timeouts, for TLC
    MaxSends           \* bound on calls of send, for TLC

NoTime == -1
Earlier(a, b) == IF a = NoTime THEN b ELSE IF b = NoTime THEN a
                 ELSE IF a <= b THEN a ELSE b

\* What a chunk completes; "long" ends a message above BufferLength.
Chunks == {"complete", "data", "long", "ack", "lost"}
Datagram == [kind : {"stun", "dtls", "sctp", "noise"}, chunks : Seq(Chunks)]

ASSUME RtcAssumption ==
    /\ Configs \subseteq {"none", "unspecified", "family", "fingerprint", "ice", "stream", "sdp"}
    /\ \A d \in Datagrams : d \in Datagram
    /\ Timeouts \subseteq {"nothing", "retransmit", "disconnected", "failed", "drained"}
    /\ Sizes \subseteq Nat /\ Caps \subseteq Nat \ {0} /\ DefaultCap \in Caps
    /\ {BufferLength, BacklogLimit} \subseteq Nat \ {0}
    /\ {MaxMessageSize, HandshakeTimeout, MaxTime, MaxInputs, MaxSends} \subseteq Nat

CloseReasons == {"Local", "Remote", "Timeout", "Failure"}
Event == [kind : {"SendDatagram", "Opened", "Message", "Closed"},
          id : Nat, reason : CloseReasons \cup {"none"}]
Stage == Nat \cup {NoTime}
Notice == [kind : {"complete", "readable", "lost", "released"}, bytes : Nat]

ConnectionStates == {"new", "connecting", "connected", "disconnected", "failed", "closed"}

PeerConnection ==
    [ described : BOOLEAN,          \* a remote description is set
      ice : {"checking", "connected", "disconnected", "failed"}, iceEv : BOOLEAN,
      dtls : {"new", "connecting", "connected"}, dtlsEv : BOOLEAN,
      assoc : {"none", "connecting", "connected", "lost"},
      unread : Seq({"message", "long"}),  \* whole messages in the reassembly queue
      assocEv : Seq(Notice),        \* what the association has to say
      pending : BOOLEAN,            \* the stream is in pending_readable
      sctpEv : Seq(Notice),         \* what it said, for the next pass
      channel : {"connecting", "open", "gone"},
      note : BOOLEAN,               \* Open, until the next datagram carries it on
      onOpen : BOOLEAN,             \* OnOpen, until the next pass
      state : ConnectionStates,
      out : Nat, reads : Seq(Nat), arrived : Nat,
      outstanding : Nat, unacked : Nat,
      empties : Nat ]               \* empty messages written: a history variable

Tunnel ==
    [ status : {"none", "live", "refused"},
      opened : BOOLEAN, finished : BOOLEAN, last_now : Nat, handshake_deadline : Nat,
      send_buffer_cap : Caps, events : Seq(Event),
      ice_ms : Stage, dtls_ms : Stage, sctp_ms : Stage, opened_ms : Stage,
      deferred : BOOLEAN,           \* datagrams fed since the last drain
      pc : PeerConnection ]

VARIABLES t,       \* the tunnel
          host,    \* what the host has polled
          now,     \* the host's clock
          inputs, sends
vars == <<t, host, now, inputs, sends>>

-----------------------------------------------------------------------------
(* The peer connection.                                                    *)

NewConnection ==
    [ described |-> FALSE, ice |-> "checking", iceEv |-> FALSE, dtls |-> "new", dtlsEv |-> FALSE,
      assoc |-> "none", unread |-> <<>>, assocEv |-> <<>>, pending |-> FALSE, sctpEv |-> <<>>,
      channel |-> "connecting", note |-> FALSE, onOpen |-> FALSE,
      state |-> "new", out |-> 0, reads |-> <<>>, arrived |-> 0,
      outstanding |-> 0, unacked |-> 0, empties |-> 0 ]

\* A description starts the ICE checks.
set_remote_description(p) == [p EXCEPT !.described = TRUE, !.out = @ + 1]

Says(p, kind, bytes) == [p EXCEPT !.assocEv = Append(@, [kind |-> kind, bytes |-> bytes])]

\* One SCTP chunk reaches the association.  A message that comes before the
\* channel is open is read and dropped there (ErrDataChannelNotExisted).
HandleChunk(p, chunk, open) ==
    CASE chunk = "complete" /\ p.assoc = "connecting" ->
            Says([p EXCEPT !.assoc = "connected"], "complete", 0)
      [] chunk = "lost" /\ p.assoc = "connected" -> Says([p EXCEPT !.assoc = "lost"], "lost", 0)
      [] chunk = "ack" /\ p.assoc = "connected" /\ p.unacked > 0 ->
            Says([p EXCEPT !.unacked = 0], "released", p.unacked)
      [] chunk \in {"data", "long"} /\ p.assoc = "connected" /\ open ->
            Says([p EXCEPT !.unread = Append(@, IF chunk = "long" THEN "long" ELSE "message")],
                 "readable", 0)
      [] OTHER -> p

\* All chunks of a datagram, in order.
HandleChunks(p, chunks, open) ==
    LET upTo[i \in 0..Len(chunks)] ==
            IF i = 0 THEN p ELSE HandleChunk(upTo[i - 1], chunks[i], open)
    IN  upTo[Len(chunks)]

\* How many messages can be read before one that is too long.
Least(S) == CHOOSE i \in S : \A j \in S : i <= j
TooLong(p) == {i \in DOMAIN p.unread : p.unread[i] = "long"}
InFront(p) == IF TooLong(p) = {} THEN Len(p.unread) ELSE Least(TooLong(p)) - 1

\* n messages are read, and handed on while there is a channel to hand them to.
Take(p, n) ==
    LET k == IF p.channel = "open" THEN n ELSE 0
    IN  [p EXCEPT !.unread = SubSeq(@, n + 1, Len(@)), !.arrived = @ + k,
                  !.reads = @ \o [i \in 1..k |-> p.arrived + i]]

\* to_payload refuses a message, and what this round read in front of it goes
\* with the error.
Refuse(p) == [p EXCEPT !.unread = SubSeq(@, InFront(p) + 2, Len(@))]

\* The association is removed.
Drop(p) == [p EXCEPT !.unread = <<>>, !.assocEv = <<>>, !.pending = FALSE, !.unacked = 0]

\* The loop over conn.poll in handle_read, and resume_pending_reads after it.
\* A refused message leaves handle_read: what the association had still to
\* say waits for the next datagram of SCTP.
PollAssociation(p, budget) ==
    LET readable == {i \in DOMAIN p.assocEv : p.assocEv[i].kind = "readable"}
        lost == \E i \in DOMAIN p.assocEv : p.assocEv[i].kind = "lost"
        fails == /\ InFront(p) < budget /\ TooLong(p) # {}
                 /\ readable # {} \/ (p.pending /\ ~lost)
        last == IF fails /\ readable # {} THEN Least(readable) ELSE Len(p.assocEv)
        q == [p EXCEPT !.sctpEv = @ \o SubSeq(p.assocEv, 1, last),
                       !.assocEv = SubSeq(@, last + 1, Len(@)),
                       !.pending = @ \/ (readable # {} /\ ~fails)]
    IN  IF fails THEN Refuse(q)
        ELSE IF lost THEN Drop(IF readable = {} THEN q
                               ELSE Take(q, IF InFront(p) < budget THEN InFront(p) ELSE budget))
        ELSE q

\* Variant: a stream is not parked again when the budget is used up.
resume_unparking(p, budget) ==
    IF ~p.pending THEN p
    ELSE [Take(p, IF InFront(p) < budget THEN InFront(p) ELSE budget) EXCEPT !.pending = FALSE]

\* poll_read of the SCTP handler, which handle_read calls until it has
\* nothing: a parked stream is read on in rounds of the same budget.
ResumePendingReads(p, budget) ==
    IF ~p.pending \/ budget = 0 THEN p
    ELSE IF TooLong(p) = {} THEN [Take(p, Len(p.unread)) EXCEPT !.pending = FALSE]
    ELSE Refuse(Take(p, InFront(p) - (InFront(p) % budget)))

\* RTCPeerConnection::handle_read.  Its handlers' errors are logged, so it
\* always succeeds and dropped_datagrams never grows; any datagram carries a
\* waiting Open note on and reads a parked stream, if the application has
\* taken enough of what was read before.
handle_read(p, d) ==
    LET q == [p EXCEPT !.onOpen = @ \/ p.note, !.note = FALSE]
        budget == IF Len(p.reads) < BacklogLimit THEN BacklogLimit - Len(p.reads) ELSE 0
        r == CASE d.kind = "stun" /\ p.described /\ p.ice = "checking" ->
                    [q EXCEPT !.ice = "connected", !.iceEv = TRUE]
               [] d.kind = "dtls" /\ p.dtls = "connecting" ->
                    [q EXCEPT !.dtls = "connected", !.dtlsEv = TRUE]
               [] d.kind = "sctp" /\ p.dtls = "connected" ->
                    PollAssociation(HandleChunks(q, d.chunks, p.channel = "open"), budget)
               [] OTHER -> q
    IN  ResumePendingReads(r, budget)

\* RTCPeerConnection::handle_timeout.  An association that drains in it is
\* removed without being asked what it had to say.
handle_timeout(p, what) ==
    CASE what = "retransmit" -> [p EXCEPT !.out = @ + 1]
      [] what = "disconnected" /\ p.ice = "connected" ->
            [p EXCEPT !.ice = "disconnected", !.iceEv = TRUE]
      [] what = "failed" /\ p.described /\ p.ice # "failed" ->
            [p EXCEPT !.ice = "failed", !.iceEv = TRUE]
      [] what = "drained" /\ p.assoc # "none" -> [Drop(p) EXCEPT !.assoc = "lost"]
      [] OTHER -> p

\* What the data channel layer does with what the association told it;
\* readable means nothing to it.
HandleNotice(p, n) ==
    CASE n.kind = "complete" /\ p.channel = "connecting" ->
            [p EXCEPT !.channel = "open", !.note = TRUE]
      [] n.kind = "lost" -> [p EXCEPT !.channel = "gone"]
      [] n.kind = "released" /\ p.channel # "gone" ->
            [p EXCEPT !.outstanding = IF n.bytes > @ THEN 0 ELSE @ - n.bytes]
      [] OTHER -> p

HandleNotices(p) ==
    LET upTo[i \in 0..Len(p.sctpEv)] ==
            IF i = 0 THEN p ELSE HandleNotice(upTo[i - 1], p.sctpEv[i])
    IN  upTo[Len(p.sctpEv)]

\* update_connection_state; closed is terminal.
ConnectionState(p) ==
    IF p.state = "closed" THEN "closed"
    ELSE IF p.ice \in {"failed", "disconnected"} THEN p.ice
    ELSE IF p.ice = "connected" /\ p.dtls = "connected" THEN "connected"
    ELSE "connecting"

\* One pass of poll_event: the selected pair starts DTLS, DTLS starts SCTP,
\* the association's notices reach the channel.
Pass(p) ==
    LET q == HandleNotices(p)
    IN  [q EXCEPT !.sctpEv = <<>>, !.onOpen = FALSE, !.iceEv = FALSE, !.dtlsEv = FALSE,
                  !.dtls = IF p.iceEv /\ p.ice = "connected" /\ @ = "new" THEN "connecting" ELSE @,
                  !.assoc = IF p.dtlsEv THEN "connecting" ELSE @,
                  !.state = IF p.iceEv \/ p.dtlsEv THEN ConnectionState(p) ELSE @,
                  !.out = @ + (IF p.dtlsEv \/ (p.iceEv /\ p.ice = "connected") THEN 1 ELSE 0)]

\* The events that pass surfaces, in the order poll_event returns them.
Surfaced(p) ==
    LET q == Pass(p)
        when(cond, ev) == IF cond THEN ev ELSE "nothing"
    IN  << when(p.onOpen, "OnOpen"),
           when(q.channel = "gone" /\ p.channel # "gone", "OnClose"),
           when(q.state # p.state, q.state),
           when(p.iceEv /\ p.ice = "failed", "IceFailed") >>

-----------------------------------------------------------------------------
(* The tunnel's private methods.                                           *)

Ev(kind) == [kind |-> kind, id |-> 0, reason |-> "none"]
Push(x, ev) == [x EXCEPT !.events = Append(@, ev)]

finish(x, why) ==
    IF x.finished THEN x
    ELSE Push([x EXCEPT !.finished = TRUE], [Ev("Closed") EXCEPT !.reason = why])

\* refresh_opened and the event it leads to.
maybe_open(x) ==
    IF x.opened \/ x.pc.channel # "open" THEN x
    ELSE Push([x EXCEPT !.opened = TRUE], Ev("Opened"))

\* Every datagram the peer connection has ready.
drain_writes(x) ==
    [x EXCEPT !.pc.out = 0, !.events = @ \o [i \in 1..x.pc.out |-> Ev("SendDatagram")]]

\* The match in drain's first loop, which stops once the tunnel is finished.
HandleEvent(x, ev) ==
    IF x.finished THEN x
    ELSE CASE ev = "OnOpen" /\ ~x.opened -> Push([x EXCEPT !.opened = TRUE], Ev("Opened"))
           [] ev = "connected" -> maybe_open(x)
           [] ev \in {"OnClose", "disconnected", "closed"} -> finish(x, "Remote")
           [] ev \in {"failed", "IceFailed"} -> finish(x, "Failure")
           [] OTHER -> x

DrainEvents(x) ==
    LET ev == Surfaced(x.pc)
        y == [x EXCEPT !.pc = Pass(@)]
    IN  HandleEvent(HandleEvent(HandleEvent(HandleEvent(y, ev[1]), ev[2]), ev[3]), ev[4])

\* drain's second loop; it stops at the first message once finished.
MessageEvents(x) == [i \in DOMAIN x.pc.reads |-> [Ev("Message") EXCEPT !.id = x.pc.reads[i]]]
DrainReads(x) ==
    IF x.finished THEN [x EXCEPT !.pc.reads = IF @ = <<>> THEN @ ELSE Tail(@)]
    ELSE [x EXCEPT !.events = @ \o MessageEvents(x), !.pc.reads = <<>>]

\* HandshakeTrace::observe, and sample_handshake, which stops once opened_ms is set.
First(stage, ready, at) == IF ready /\ stage = NoTime THEN at ELSE stage
sample_handshake(x) ==
    IF x.opened_ms # NoTime THEN x
    ELSE [x EXCEPT !.ice_ms = First(@, x.pc.ice = "connected", x.last_now),
                   !.dtls_ms = First(@, x.pc.dtls = "connected", x.last_now),
                   !.sctp_ms = First(@, x.pc.assoc = "connected", x.last_now),
                   !.opened_ms = First(@, x.opened, x.last_now)]

\* Variants: read everything although an event finished the tunnel; read one
\* message per drain; sample before opening.
drain_reading_on(x) ==
    LET y == drain_writes(DrainEvents(drain_writes(x)))
        z == [y EXCEPT !.events = @ \o MessageEvents(y), !.pc.reads = <<>>, !.deferred = FALSE]
    IN  sample_handshake(maybe_open(z))
drain_reading_one(x) ==
    LET y == drain_writes(DrainEvents(drain_writes(x)))
        z == IF y.finished \/ y.pc.reads = <<>> THEN y
             ELSE Push([y EXCEPT !.pc.reads = Tail(@)], Head(MessageEvents(y)))
    IN  sample_handshake(maybe_open([z EXCEPT !.deferred = FALSE]))
drain_sampling_first(x) ==
    LET y == DrainReads(drain_writes(DrainEvents(drain_writes(x))))
    IN  maybe_open(sample_handshake([y EXCEPT !.deferred = FALSE]))

drain(x) ==
    LET y == DrainReads(drain_writes(DrainEvents(drain_writes(x))))
    IN  sample_handshake(maybe_open([y EXCEPT !.deferred = FALSE]))

-----------------------------------------------------------------------------
(* The constructors.                                                       *)

NewTunnel ==
    [ status |-> "none", opened |-> FALSE, finished |-> FALSE, last_now |-> now,
      handshake_deadline |-> now + HandshakeTimeout,
      send_buffer_cap |-> DefaultCap, events |-> <<>>,
      ice_ms |-> NoTime, dtls_ms |-> NoTime, sctp_ms |-> NoTime, opened_ms |-> NoTime,
      deferred |-> FALSE, pc |-> NewConnection ]

Refused == [NewTunnel EXCEPT !.status = "refused"]

\* A tunnel that has made its offer and knows no answer yet.
offerer(config) ==
    IF config = "stream" THEN Refused
    ELSE drain([NewTunnel EXCEPT !.status = "live"])

apply_remote_answer(x) == drain([x EXCEPT !.pc = set_remote_description(@)])

\* The relay path: the answer is synthesized from the configuration.
new(config) == IF config # "none" THEN Refused ELSE apply_remote_answer(offerer(config))

\* A tunnel built from the peer's offer.
answerer(config) ==
    IF config \in {"stream", "sdp"} THEN Refused
    ELSE drain([NewTunnel EXCEPT !.status = "live", !.pc = set_remote_description(@)])

Build(x) ==
    /\ t.status = "none"
    /\ t' = x
    /\ UNCHANGED <<host, now, inputs, sends>>

New == \E config \in Configs : Build(new(config))
Offerer == \E config \in Configs : Build(offerer(config))
Answerer == \E config \in Configs : Build(answerer(config))

-----------------------------------------------------------------------------
(* The host's calls.  Each is possible on a live tunnel, finished or not.  *)

Call(x) ==
    /\ t.status = "live"
    /\ t' = x
    /\ UNCHANGED <<host, now>>

\* apply_remote_answer_sdp: a text that does not parse changes nothing.
ApplyRemoteAnswer ==
    /\ ~t.pc.described
    /\ Call(apply_remote_answer(t))
    /\ UNCHANGED <<inputs, sends>>

receive(x, d) ==
    IF x.finished THEN x
    ELSE drain([x EXCEPT !.last_now = now, !.pc = handle_read(@, d)])

\* Variant: defer from the start.
receive_deferred_always(x, d) ==
    IF x.finished THEN x
    ELSE [x EXCEPT !.last_now = now, !.pc = handle_read(@, d), !.deferred = TRUE]

receive_deferred(x, d) ==
    IF x.finished THEN x
    ELSE IF ~x.opened THEN receive(x, d)
    ELSE [x EXCEPT !.last_now = now, !.pc = handle_read(@, d), !.deferred = TRUE]

Input(op(_, _)) ==
    /\ inputs < MaxInputs
    /\ \E d \in Datagrams : Call(op(t, d))
    /\ inputs' = inputs + 1
    /\ UNCHANGED sends

Receive == Input(receive)
ReceiveDeferred == Input(receive_deferred)

finish_input_batch(x) == IF x.finished \/ ~x.opened THEN x ELSE drain(x)

FinishInputBatch ==
    /\ Call(finish_input_batch(t))
    /\ UNCHANGED <<inputs, sends>>

\* A handshake that is out of time ends before anything is drained.
tick(x, what) ==
    IF x.finished THEN x
    ELSE LET y == [x EXCEPT !.last_now = now, !.pc = handle_timeout(@, what)]
         IN  IF ~y.opened /\ now >= y.handshake_deadline THEN finish(y, "Timeout") ELSE drain(y)

\* Variant: the handshake's own deadline is forgotten.
next_deadline_of_pc(x, poll_timeout) == IF x.finished THEN NoTime ELSE poll_timeout

next_deadline(x, poll_timeout) ==
    IF x.finished THEN NoTime
    ELSE IF x.opened THEN poll_timeout ELSE Earlier(x.handshake_deadline, poll_timeout)

\* A tick that is due when the peer connection's next timer is poll_timeout.
\* MaxInputs bounds what ticks bring, never the tick a deadline asks for.
TickAt(poll_timeout) ==
    /\ next_deadline(t, poll_timeout) \in 0..now
    /\ \E what \in Timeouts :
            /\ inputs < MaxInputs \/ what = "nothing"
            /\ Call(tick(t, what))
    /\ inputs' = IF inputs < MaxInputs THEN inputs + 1 ELSE inputs
    /\ UNCHANGED sends

Tick == \E poll_timeout \in {NoTime, now} : TickAt(poll_timeout)

buffered_bytes(x) == IF x.pc.channel = "gone" THEN 0 ELSE x.pc.outstanding

\* An empty message travels as one byte.
WireLength(len) == IF len = 0 THEN 1 ELSE len

\* handle_write of the SCTP handler: a message it refuses
\* (ErrOutboundPacketTooLarge, ErrAssociationNotExisted) is logged and lost.
Write(p, len) ==
    IF WireLength(len) > BufferLength \/ p.assoc # "connected" THEN p
    ELSE [p EXCEPT !.unacked = @ + WireLength(len), !.out = @ + 1,
                   !.empties = IF len = 0 THEN @ + 1 ELSE @]

\* An accepted message is charged for and queued; drain writes it.
Accept(x, len) == drain([x EXCEPT !.pc = Write([x.pc EXCEPT !.outstanding = @ + len], len)])

\* Variant: the cap is compared with what is buffered already.
send_uncharged(x, len) ==
    LET y == maybe_open(x)
    IN  IF x.finished \/ ~y.opened THEN x
        ELSE IF len > MaxMessageSize \/ y.pc.channel # "open"
                \/ buffered_bytes(y) > y.send_buffer_cap THEN y
        ELSE Accept(y, len)

send(x, len) ==
    LET y == maybe_open(x)
    IN  IF x.finished \/ ~y.opened THEN x                    \* NotOpen
        ELSE IF len > MaxMessageSize                         \* TooLarge
                \/ y.pc.channel # "open"                     \* NotOpen
                \/ buffered_bytes(y) + len > y.send_buffer_cap \* Backpressure
             THEN y
        ELSE Accept(y, len)

Send ==
    /\ sends < MaxSends
    /\ \E len \in Sizes : Call(send(t, len))
    /\ sends' = sends + 1
    /\ UNCHANGED inputs

\* Variant: the cap is off by one.
SetSendBufferCapShort ==
    /\ \E cap \in Caps : Call([t EXCEPT !.send_buffer_cap = cap - 1])
    /\ UNCHANGED <<inputs, sends>>

SetSendBufferCap ==
    /\ \E cap \in Caps : Call([t EXCEPT !.send_buffer_cap = cap])
    /\ UNCHANGED <<inputs, sends>>

\* The peer connection's own events are not drained: nobody would read them.
close(x) == IF x.finished THEN x ELSE finish([x EXCEPT !.pc.state = "closed"], "Local")

Close ==
    /\ Call(close(t))
    /\ UNCHANGED <<inputs, sends>>

\* poll_event; host counts what it got.
PollEvent ==
    /\ t.events # <<>>
    /\ t' = [t EXCEPT !.events = Tail(@)]
    /\ LET ev == Head(t.events)
       IN  host' = CASE ev.kind = "Opened"  -> [host EXCEPT !.opens = @ + 1]
                     [] ev.kind = "Message" -> [host EXCEPT !.messages = @ + 1]
                     [] ev.kind = "Closed"  -> [host EXCEPT !.closes = @ + 1, !.reason = ev.reason]
                     [] OTHER -> host
    /\ UNCHANGED <<now, inputs, sends>>

Advance ==
    /\ t.status = "live" /\ now < MaxTime
    /\ now' = now + 1
    /\ UNCHANGED <<t, host, inputs, sends>>

Init ==
    /\ now = 0 /\ t = NewTunnel
    /\ host = [opens |-> 0, messages |-> 0, closes |-> 0, reason |-> "none"]
    /\ inputs = 0 /\ sends = 0

Next ==
    \/ New \/ Offerer \/ Answerer \/ ApplyRemoteAnswer
    \/ Receive \/ ReceiveDeferred \/ FinishInputBatch \/ Tick
    \/ Send \/ SetSendBufferCap \/ Close \/ PollEvent \/ Advance

Spec == Init /\ [][Next]_vars

\* The clock runs, and the host ticks once the deadline it was told is due;
\* the peer connection need not have a timer.
FairSpec == Spec /\ WF_vars(Advance) /\ WF_vars(TickAt(NoTime))

-----------------------------------------------------------------------------
(* Properties.                                                             *)

TypeOK == t \in Tunnel /\ now \in 0..MaxTime /\ inputs \in 0..MaxInputs /\ sends \in 0..MaxSends

Contract == INSTANCE TunnelContract
    WITH opens <- host.opens, messages <- host.messages,
         closes <- host.closes, reason <- host.reason

\* What the host polls is what event.rs promises (drain's order of events,
\* messages and opening; the checks of finished): Opened once and before any
\* message, nothing but datagrams after Closed.
KeepsContract == Contract!Spec

Queued(kind) == {i \in DOMAIN t.events : t.events[i].kind = kind}

\* tick gives up without draining, so everything fed before must have been
\* drained: a tunnel that ends with Timeout had reached its deadline, and no
\* open channel and no completed association was waiting to be noticed.
\* receive_deferred before the channel opens is where this could go wrong.
TimeoutIsHonest ==
    (host.reason = "Timeout" \/ \E i \in Queued("Closed") : t.events[i].reason = "Timeout")
        => /\ t.last_now >= t.handshake_deadline
           /\ ~t.opened /\ t.pc.channel # "open"
           /\ \A i \in DOMAIN t.pc.sctpEv : t.pc.sctpEv[i].kind # "complete"

\* Sampling at the end of drain sees every stage: no stage is recorded before
\* an earlier one, and a tunnel that reports itself open has its whole trace.
TraceComplete ==
    /\ t.opened => t.opened_ms # NoTime
    /\ \A pair \in {<<t.ice_ms, t.dtls_ms>>, <<t.dtls_ms, t.sctp_ms>>, <<t.sctp_ms, t.opened_ms>>} :
            pair[2] # NoTime => pair[1] # NoTime /\ pair[1] <= pair[2]

\* Messages handed on by SCTP reach the host in order, each once: the ones
\* queued are numbered on from the last one polled, without a gap.  One waits
\* in data_read_outs only while a deferred batch is unfinished, and one is
\* lost there only if the tunnel finished first.
DeliveredInOrder ==
    LET messages == Queued("Message")
    IN  /\ \A i, j \in messages : i < j => t.events[i].id < t.events[j].id
        /\ \E last \in host.messages..t.pc.arrived :
              /\ {t.events[i].id : i \in messages} = (host.messages + 1)..last
              /\ ~t.finished => /\ t.pc.arrived = last + Len(t.pc.reads)
                                /\ t.pc.reads # <<>> => t.deferred

\* A message left in SCTP's reassembly queue, by a full pipeline or behind one
\* that is too long, is never forgotten: its stream is parked, or the
\* association has still to say that it is readable.
NothingStranded ==
    t.pc.unread # <<>> =>
        t.pc.pending \/ \E i \in DOMAIN t.pc.assocEv : t.pc.assocEv[i].kind = "readable"

\* Bytes SCTP holds unacknowledged grow beyond the cap send was told of by at
\* most one byte for each empty message, which is charged nothing, although
\* releases are accounted for later than they happen.
SendWithinCap ==
    [][t'.pc.unacked > t.pc.unacked => t'.pc.unacked <= t'.send_buffer_cap + t'.pc.empties]_vars

\* A tunnel whose host ticks at next_deadline opens or ends, also when its
\* offer is never answered and the peer connection has no timer of its own.
HandshakeEnds == t.status = "live" ~> (t.opened \/ t.finished)
=============================================================================
