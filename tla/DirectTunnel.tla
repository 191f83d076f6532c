---------------------------- MODULE DirectTunnel ----------------------------
(***************************************************************************)
(* The shipped backend of crates/rtc-tunnel-core: one negotiated data      *)
(* channel over directly driven ICE, DTLS and SCTP (direct/mod.rs).        *)
(*                                                                         *)
(* The tunnel is sans-I/O: the host calls receive, receive_deferred,       *)
(* finish_input_batch, tick, send, close and poll_event, each of which     *)
(* runs to completion.  The state of one tunnel is the record t; every     *)
(* Rust method is an operator from the tunnel before the call to the       *)
(* tunnel after it, and every public method is an action.                  *)
(*                                                                         *)
(* The rtc-ice, rtc-dtls and rtc-sctp machines are not part of the         *)
(* repository.  They are modelled by what the tunnel observes of them: the *)
(* fields paired, iceEvent, iceOut, dtlsOut, assoc, pend, rq, stream,      *)
(* buffered and sctpOut, driven by the contents of the datagrams.          *)
(*                                                                         *)
(* Err results travel in the field err, which `?' propagates and which is  *)
(* FALSE between two calls because every caller ignores or counts it.      *)
(***************************************************************************)
EXTENDS Integers, Sequences, FiniteSets

CONSTANTS
    TunnelRole,        \* "Offerer" or "Answerer"
    HandshakeTimeout,  \* handshake_timeout_ms, in clock units
    MaxMessageSize,    \* crate::MAX_MESSAGE_SIZE
    DefaultCap,        \* crate::DEFAULT_SEND_BUFFER_CAP
    Caps,              \* the values set_send_buffer_cap is called with
    Sizes,             \* the lengths of the messages the host sends
    Fingerprints,      \* certificates, named by their fingerprint
    ConfigFingerprint, \* TunnelConfig.remote_fingerprint
    VerifyDisabled,    \* TunnelConfig.disable_fingerprint_verification
    Datagrams,         \* the datagrams the network may hand to the tunnel
    Outcomes,          \* what the library machines may answer to a call
    MaxTime,           \* bound of the host's clock
    MaxInputs,         \* bound on datagrams fed, for TLC
    MaxEvents          \* bound on undelivered events, for TLC

NoTime == -1
Time == Nat

\* First in None-or-earlier order: the min of next_deadline and the
\* first-observation rule of HandshakeTrace.
Earlier(a, b) == IF a = NoTime THEN b ELSE IF b = NoTime THEN a
                 ELSE IF a <= b THEN a ELSE b
First(seen, now) == IF seen = NoTime THEN now ELSE seen

-----------------------------------------------------------------------------
(* The inputs.                                                             *)

\* A user message of the peer, as SCTP reassembles it.  Only the four PPIDs
\* read_stream hands up are represented (String is read like Binary,
\* StringEmpty like BinaryEmpty); a message with any other PPID is read and
\* discarded without a trace.
InMessage == [empty : BOOLEAN, len : Nat]
Oversize(m) == ~m.empty /\ m.len > MaxMessageSize

\* What one SCTP packet makes the association do.  Loss may leave the stream
\* readable or remove it.
Loss == {"no", "kept", "purged"}
Packet == [init : BOOLEAN, connected : BOOLEAN, data : Seq(InMessage),
           ack : BOOLEAN, lost : Loss]

DtlsEvent == [type : {"none", "flight"}]
             \cup [type : {"complete"}, cert : Fingerprints]
             \cup [type : {"app"}, packet : Packet]

\* is_stun and is_dtls classify by the first byte; dtls.read returns at most
\* two events for one datagram here.
Datagram == [kind : {"stun"}, ok : BOOLEAN, nominates : BOOLEAN]
            \cup [kind : {"dtls"}, ok : BOOLEAN, first : DtlsEvent, second : DtlsEvent]
            \cup [kind : {"other"}]

\* connect: dtls.connect or sctp connect succeeds; write: dtls.write succeeds;
\* iceFails and lost: what a timeout pass does to ICE and to the association.
Outcome == [connect : BOOLEAN, write : BOOLEAN, iceFails : BOOLEAN, lost : Loss]

\* A well-behaved pass of the libraries is always possible.
AllWell == [connect |-> TRUE, write |-> TRUE, iceFails |-> FALSE, lost |-> "no"]

ASSUME TunnelAssumption ==
    /\ TunnelRole \in {"Offerer", "Answerer"}
    /\ HandshakeTimeout \in Nat
    /\ MaxMessageSize \in Nat
    /\ DefaultCap \in Nat
    /\ Caps \subseteq Nat
    /\ Sizes \subseteq Nat
    /\ ConfigFingerprint \in Fingerprints
    /\ VerifyDisabled \in BOOLEAN
    /\ \A d \in Datagrams : d \in Datagram
    /\ Outcomes \subseteq Outcome
    /\ AllWell \in Outcomes
    /\ MaxTime \in Nat
    /\ MaxInputs \in Nat
    /\ MaxEvents \in Nat

-----------------------------------------------------------------------------
(* The outputs.                                                            *)

CloseReason == {"Local", "Remote", "Timeout"}
SendDatagram == [type |-> "SendDatagram"]
Opened == [type |-> "Opened"]
Message(n) == [type |-> "Message", len |-> n]
Closed(reason) == [type |-> "Closed", reason |-> reason]
Event == [type : {"SendDatagram", "Opened"}]
         \cup [type : {"Message"}, len : Nat]
         \cup [type : {"Closed"}, reason : CloseReason]

Trace == [ice : Time \cup {NoTime}, dtls : Time \cup {NoTime},
          sctp : Time \cup {NoTime}, opened : Time \cup {NoTime}]

Tunnel ==
    [ \* fields of the struct
      dtls_started : BOOLEAN, dtls_connected : BOOLEAN, sctp : BOOLEAN,
      sctp_connected : BOOLEAN, channel_dialed : BOOLEAN, opened : BOOLEAN,
      finished : BOOLEAN, dropped_datagrams : Nat, last_now : Time,
      send_buffer_cap : Nat, remote_fingerprint : Fingerprints,
      events : Seq(Event), trace : Trace, err : BOOLEAN,
      \* the library machines
      verifier : Fingerprints, paired : BOOLEAN, iceEvent : Time \cup {NoTime},
      iceOut : BOOLEAN, dtlsOut : BOOLEAN,
      assoc : {"none", "handshaking", "established", "closed"},
      pend : SUBSET {"connected", "readable", "lost"},
      rq : Seq(InMessage), stream : {"none", "default", "configured"},
      buffered : Nat, sctpOut : BOOLEAN,
      \* history: every user message SCTP made readable
      arrived : Seq(InMessage) ]

VARIABLES t,          \* the tunnel
          now,        \* the host's clock, handed to every call
          inputs,     \* datagrams fed so far
          delivered   \* lifecycle events and messages the host has polled

vars == <<t, now, inputs, delivered>>

handshake_deadline == HandshakeTimeout

-----------------------------------------------------------------------------
(* finish, maybe_open and the drains that cannot fail.                     *)

Push(s, event) == [s EXCEPT !.events = Append(@, event)]

\* Variant: finish is not idempotent.
FinishAgain(s, reason) == [Push(s, Closed(reason)) EXCEPT !.finished = TRUE]

Finish(s, reason) ==
    IF s.finished THEN s
    ELSE [Push(s, Closed(reason)) EXCEPT !.finished = TRUE]

MaybeOpen(s) ==
    IF ~s.opened /\ s.sctp_connected /\ s.channel_dialed
    THEN [Push(s, Opened) EXCEPT !.opened = TRUE,
                                 !.trace.opened = First(@, s.last_now)]
    ELSE s

\* Only Connected and Completed are looked at; Failed and Disconnected are
\* polled and forgotten.
DrainIceEvents(s) ==
    IF s.iceEvent = NoTime THEN s
    ELSE [s EXCEPT !.iceEvent = NoTime, !.trace.ice = First(@, s.iceEvent)]

DrainIceWrites(s) ==
    IF s.iceOut THEN [Push(s, SendDatagram) EXCEPT !.iceOut = FALSE] ELSE s

DrainDtlsTransmits(s) ==
    IF s.dtlsOut THEN [Push(s, SendDatagram) EXCEPT !.dtlsOut = FALSE] ELSE s

-----------------------------------------------------------------------------
(* SCTP: reading, opening the stream, transmitting.                        *)

\* The messages read before the first one to_payload refuses; the refused one
\* is consumed as well, and the ones behind it stay in the queue.
Readable(rq) == {k \in 1..Len(rq) : \A i \in 1..k : ~Oversize(rq[i])}
ReadCount(rq) == Cardinality(Readable(rq))

Payload(m) == IF m.empty THEN 0 ELSE m.len

\* Variants: what waits behind a refused message is lost, or one message is
\* read for each Readable.
ReadStreamDropsRest(s) ==
    LET n == ReadCount(s.rq)
    IN  IF s.stream = "none" THEN s
        ELSE [s EXCEPT !.events = @ \o [i \in 1..n |-> Message(Payload(s.rq[i]))],
                       !.rq = <<>>, !.err = n < Len(s.rq)]
ReadStreamOnce(s) ==
    IF s.stream = "none" \/ s.rq = <<>> THEN s
    ELSE IF Oversize(Head(s.rq)) THEN [s EXCEPT !.rq = Tail(@), !.err = TRUE]
    ELSE [s EXCEPT !.events = Append(@, Message(Payload(Head(s.rq)))), !.rq = Tail(@)]

ReadStream(s) ==
    LET n == ReadCount(s.rq)
        read == [i \in 1..n |-> Message(Payload(s.rq[i]))]
    IN  IF s.stream = "none" THEN s
        ELSE [s EXCEPT !.events = @ \o read,
                       !.rq = SubSeq(@, n + 2, Len(@)),
                       !.err = n < Len(s.rq)]

DrainSctp(s) ==
    LET polled == [s EXCEPT !.pend = {}]
        up == IF "connected" \in s.pend
              THEN [polled EXCEPT !.sctp_connected = TRUE,
                                  !.trace.sctp = First(@, s.last_now)]
              ELSE polled
        lost == IF "lost" \in s.pend THEN Finish(up, "Remote") ELSE up
    IN  IF "readable" \in s.pend THEN ReadStream(lost) ELSE lost

\* channel_dialed is set before the stream is opened; open_stream is refused
\* when the peer's DATA has already created the stream, and the reliability
\* parameters are then never set.
OpenStream(s) ==
    IF s.stream = "none" /\ s.assoc = "established"
    THEN [s EXCEPT !.channel_dialed = TRUE, !.stream = "configured"]
    ELSE [s EXCEPT !.channel_dialed = TRUE, !.err = TRUE]

DrainChannel(s) ==
    IF s.sctp_connected /\ ~s.channel_dialed THEN OpenStream(s) ELSE s

DrainSctpTransmits(s, o) ==
    IF s.assoc = "none" \/ ~s.sctpOut THEN s
    ELSE IF ~s.dtls_started THEN [s EXCEPT !.sctpOut = FALSE]
    ELSE IF o.write THEN [s EXCEPT !.sctpOut = FALSE, !.dtlsOut = TRUE]
    ELSE [s EXCEPT !.sctpOut = FALSE, !.err = TRUE]

-----------------------------------------------------------------------------
(* pump: one pass over the machines, left early by the first Err.          *)

\* The offerer starts the client handshake, which may fail and is retried by
\* the next pump; the answerer's server endpoint needs no start.
ActivateDtls(s, o) ==
    IF TunnelRole # "Offerer" THEN [s EXCEPT !.dtls_started = TRUE]
    ELSE [s EXCEPT !.dtls_started = o.connect, !.dtlsOut = @ \/ o.connect]

\* Variant: DTLS does not wait for a nominated pair.
EnsureDtlsUnpaired(s, o) == IF ~s.dtls_started THEN ActivateDtls(s, o) ELSE s

EnsureDtls(s, o) ==
    IF s.paired /\ ~s.dtls_started THEN ActivateDtls(s, o) ELSE s

PumpProtocol(s, o) ==
    LET a == DrainSctp(s)
        b == DrainChannel(a)
        c == DrainSctpTransmits(b, o)
    IN  IF a.err THEN a ELSE IF b.err THEN b ELSE IF c.err THEN c
        ELSE DrainDtlsTransmits(c)

\* Variant: the Err of a drain is handed on.
PumpKeepsErr(s, o) ==
    LET a == EnsureDtls(DrainIceWrites(DrainIceEvents(s)), o)
        b == IF a.dtls_started THEN PumpProtocol(a, o) ELSE a
    IN  IF b.err THEN b ELSE MaybeOpen(b)

Pump(s, o) ==
    LET a == EnsureDtls(DrainIceWrites(DrainIceEvents(s)), o)
        b == IF a.dtls_started THEN PumpProtocol(a, o) ELSE a
    IN  IF b.err THEN [b EXCEPT !.err = FALSE] ELSE MaybeOpen(b)

-----------------------------------------------------------------------------
(* ingest: one datagram into the machines.                                 *)

StartSctp(s, o) ==
    IF TunnelRole = "Offerer"
    THEN IF o.connect
         THEN [s EXCEPT !.sctp = TRUE, !.assoc = "handshaking", !.sctpOut = TRUE]
         ELSE [s EXCEPT !.sctp = TRUE, !.err = TRUE]
    ELSE [s EXCEPT !.sctp = TRUE]

\* The association's reaction to a packet: events for drain_sctp, messages in
\* the reassembly queue, a stream created by incoming DATA, SACKs to send.
\* DATA may share a flight with the end of the association handshake.
HandleAssociationEvent(s, p) ==
    LET up == p.connected /\ s.assoc = "handshaking"
        data == p.data # <<>>
    IN  [s EXCEPT
          !.assoc = IF p.lost # "no" THEN "closed" ELSE IF up THEN "established" ELSE @,
          !.pend = @ \cup (IF up THEN {"connected"} ELSE {})
                     \cup (IF data THEN {"readable"} ELSE {})
                     \cup (IF p.lost # "no" THEN {"lost"} ELSE {}),
          !.rq = IF p.lost = "purged" THEN <<>> ELSE @ \o p.data,
          !.arrived = @ \o p.data,
          !.stream = IF p.lost = "purged" THEN "none"
                     ELSE IF data /\ @ = "none" THEN "default" ELSE @,
          !.buffered = IF p.ack \/ p.lost = "purged" THEN 0 ELSE @,
          !.sctpOut = @ \/ data \/ up]

\* Without an SCTP endpoint the packet is ignored; a server endpoint answers
\* an INIT with a new association; anything else needs an association.  The
\* code would also replace an association by a second one of the same peer,
\* with a new tag; a peer that does so is left out.
FeedSctp(s, p) ==
    IF ~s.sctp THEN s
    ELSE IF p.init
    THEN IF TunnelRole = "Answerer" /\ s.assoc = "none"
         THEN [s EXCEPT !.assoc = "handshaking", !.sctpOut = TRUE] ELSE s
    ELSE IF s.assoc \in {"none", "closed"} THEN s
    ELSE HandleAssociationEvent(s, p)

\* The closure prepare_dtls builds captures the fingerprint at construction.
VerifyPeer(s, cert) == VerifyDisabled \/ cert = s.verifier

DtlsStep(s, e, at, o) ==
    IF s.err \/ ~s.dtls_started THEN s
    ELSE IF e.type = "flight" THEN [s EXCEPT !.dtlsOut = TRUE]
    ELSE IF e.type = "complete" /\ ~s.dtls_connected /\ VerifyPeer(s, e.cert)
    THEN LET done == [s EXCEPT !.dtls_connected = TRUE,
                               !.trace.dtls = First(@, at),
                               !.dtlsOut = TRUE]
         IN  IF done.sctp THEN done ELSE StartSctp(done, o)
    ELSE IF e.type = "app" /\ s.dtls_connected THEN FeedSctp(s, e.packet)
    ELSE s

FeedDtls(s, d, at, o) ==
    IF ~d.ok THEN [s EXCEPT !.err = TRUE]
    ELSE DtlsStep(DtlsStep(s, d.first, at, o), d.second, at, o)

FeedIce(s, d, at) ==
    IF ~d.ok THEN [s EXCEPT !.err = TRUE]
    ELSE IF d.nominates /\ ~s.paired
    THEN [s EXCEPT !.paired = TRUE, !.iceEvent = at, !.iceOut = TRUE]
    ELSE [s EXCEPT !.iceOut = TRUE]

\* A DTLS record that arrives before ICE nominated the pair is ignored, and so
\* is a datagram that is neither STUN nor DTLS.
Ingest(s, d, at, o) ==
    LET fed == IF d.kind = "stun" THEN FeedIce(s, d, at)
               ELSE IF d.kind = "dtls" /\ s.paired
               THEN FeedDtls(EnsureDtls(s, o), d, at, o)
               ELSE s
    IN  IF fed.err THEN [fed EXCEPT !.err = FALSE, !.dropped_datagrams = @ + 1]
        ELSE fed

-----------------------------------------------------------------------------
(* The public methods.                                                     *)

\* Variants: the clock is not taken over, or a finished tunnel still reads.
ReceiveStale(s, d, at, o) == IF s.finished THEN s ELSE Pump(Ingest(s, d, at, o), o)
ReceiveUnguarded(s, d, at, o) == Pump(Ingest([s EXCEPT !.last_now = at], d, at, o), o)

ReceiveTunnel(s, d, at, o) ==
    IF s.finished THEN s
    ELSE Pump(Ingest([s EXCEPT !.last_now = at], d, at, o), o)

\* Variant: the handshake is deferred like data.
ReceiveAlwaysDeferred(s, d, at, o) ==
    IF s.finished THEN s ELSE Ingest([s EXCEPT !.last_now = at], d, at, o)

ReceiveDeferredTunnel(s, d, at, o) ==
    LET fed == Ingest([s EXCEPT !.last_now = at], d, at, o)
    IN  IF s.finished THEN s ELSE IF fed.opened THEN fed ELSE Pump(fed, o)

FinishInputBatchTunnel(s, o) ==
    IF s.finished \/ ~s.opened THEN s ELSE Pump(s, o)

\* ice, dtls and association handle_timeout: checks and retransmissions become
\* due, ICE may give up its pair, the association may be lost.
HandleTimeouts(s, o) ==
    LET lost == o.lost # "no" /\ s.assoc \in {"handshaking", "established"}
        purged == lost /\ o.lost = "purged"
    IN  [s EXCEPT !.iceOut = TRUE,
                  !.paired = @ /\ ~o.iceFails,
                  !.dtlsOut = @ \/ (s.dtls_started /\ ~s.dtls_connected),
                  !.assoc = IF lost THEN "closed" ELSE @,
                  !.pend = IF lost THEN @ \cup {"lost"} ELSE @,
                  !.rq = IF purged THEN <<>> ELSE @,
                  !.stream = IF purged THEN "none" ELSE @,
                  !.sctpOut = @ \/ s.buffered > 0,
                  !.buffered = IF purged THEN 0 ELSE @]

\* Variant: the deadline is looked at before the pump.
TickDeadlineFirst(s, at, o) ==
    LET timed == IF ~s.opened /\ at >= handshake_deadline THEN Finish(s, "Timeout") ELSE s
    IN  IF s.finished THEN s
        ELSE Pump(HandleTimeouts([timed EXCEPT !.last_now = at], o), o)

TickTunnel(s, at, o) ==
    LET pumped == Pump(HandleTimeouts([s EXCEPT !.last_now = at], o), o)
    IN  IF s.finished THEN s
        ELSE IF ~pumped.opened /\ at >= handshake_deadline
        THEN Finish(pumped, "Timeout") ELSE pumped

\* SCTP cannot carry an empty user message, so it travels as one zero byte.
WireLength(n) == IF n = 0 THEN 1 ELSE n

\* Variant: the message itself is not charged.
SendUncharged(s, n) ==
    IF s.finished \/ ~s.opened THEN "NotOpen"
    ELSE IF n > MaxMessageSize THEN "TooLarge"
    ELSE IF s.assoc = "none" \/ s.stream = "none" THEN "NotOpen"
    ELSE IF s.buffered > s.send_buffer_cap THEN "Backpressure"
    ELSE IF s.assoc # "established" THEN "NotOpen"
    ELSE "Accepted"

SendOutcome(s, n) ==
    IF s.finished \/ ~s.opened THEN "NotOpen"
    ELSE IF n > MaxMessageSize THEN "TooLarge"
    ELSE IF s.assoc = "none" \/ s.stream = "none" THEN "NotOpen"
    ELSE IF s.buffered + n > s.send_buffer_cap THEN "Backpressure"
    ELSE IF s.assoc # "established" THEN "NotOpen"
    ELSE "Accepted"

SendTunnel(s, n, o) ==
    IF SendOutcome(s, n) # "Accepted" THEN s
    ELSE LET written == [s EXCEPT !.buffered = @ + WireLength(n), !.sctpOut = TRUE]
             sent == DrainSctpTransmits([DrainChannel(written) EXCEPT !.err = FALSE], o)
         IN  DrainDtlsTransmits([sent EXCEPT !.err = FALSE])

\* No pump: what ICE says on closing stays inside.
CloseTunnel(s) ==
    IF s.finished THEN s ELSE Finish([s EXCEPT !.paired = FALSE], "Local")

\* Variant: the handshake deadline is not among the timers.
NextDeadlineOfLibraries(s, lib) == IF s.finished THEN NoTime ELSE lib

\* When the host must tick next; lib is the earliest timer of the libraries.
NextDeadline(s, lib) ==
    IF s.finished THEN NoTime
    ELSE Earlier(IF s.opened THEN NoTime ELSE handshake_deadline, lib)

-----------------------------------------------------------------------------
(* The specification: the host calls, in any order the API allows.         *)

Init ==
    /\ t = [dtls_started |-> FALSE, dtls_connected |-> FALSE, sctp |-> FALSE,
            sctp_connected |-> FALSE, channel_dialed |-> FALSE, opened |-> FALSE,
            finished |-> FALSE, dropped_datagrams |-> 0, last_now |-> 0,
            send_buffer_cap |-> DefaultCap, remote_fingerprint |-> ConfigFingerprint,
            events |-> <<>>,
            trace |-> [ice |-> NoTime, dtls |-> NoTime, sctp |-> NoTime, opened |-> NoTime],
            err |-> FALSE, verifier |-> ConfigFingerprint, paired |-> FALSE,
            iceEvent |-> NoTime, iceOut |-> FALSE, dtlsOut |-> FALSE, assoc |-> "none",
            pend |-> {}, rq |-> <<>>, stream |-> "none", buffered |-> 0,
            sctpOut |-> FALSE, arrived |-> <<>>]
    /\ now = 0
    /\ inputs = 0
    /\ delivered = <<>>

Room == Len(t.events) < MaxEvents

Receive(d, o) ==
    /\ Room /\ inputs < MaxInputs
    /\ inputs' = inputs + 1
    /\ t' = ReceiveTunnel(t, d, now, o)
    /\ UNCHANGED <<now, delivered>>

ReceiveDeferred(d, o) ==
    /\ Room /\ inputs < MaxInputs
    /\ inputs' = inputs + 1
    /\ t' = ReceiveDeferredTunnel(t, d, now, o)
    /\ UNCHANGED <<now, delivered>>

FinishInputBatch(o) ==
    /\ Room
    /\ t' = FinishInputBatchTunnel(t, o)
    /\ UNCHANGED <<now, inputs, delivered>>

\* The libraries have no timer running, or one that has expired.
LibTimers == {NoTime, 0}

\* The host ticks when its timer for next_deadline has expired.
Tick(lib, o) ==
    /\ Room
    /\ NextDeadline(t, lib) \in 0..now
    /\ t' = TickTunnel(t, now, o)
    /\ UNCHANGED <<now, inputs, delivered>>

Send(n, o) ==
    /\ Room
    /\ t' = SendTunnel(t, n, o)
    /\ UNCHANGED <<now, inputs, delivered>>

Close ==
    /\ t' = CloseTunnel(t)
    /\ UNCHANGED <<now, inputs, delivered>>

PollEvent ==
    /\ t.events # <<>>
    /\ t' = [t EXCEPT !.events = Tail(@)]
    /\ delivered' = IF Head(t.events) = SendDatagram THEN delivered
                    ELSE Append(delivered, Head(t.events))
    /\ UNCHANGED <<now, inputs>>

SetSendBufferCap(cap) ==
    /\ t' = [t EXCEPT !.send_buffer_cap = cap]
    /\ UNCHANGED <<now, inputs, delivered>>

\* Only the field changes: the verifier keeps what it captured.
ApplyRemoteAnswer(fingerprint) ==
    /\ t' = [t EXCEPT !.remote_fingerprint = fingerprint]
    /\ UNCHANGED <<now, inputs, delivered>>

Advance ==
    /\ now < MaxTime
    /\ now' = now + 1
    /\ UNCHANGED <<t, inputs, delivered>>

Next ==
    \/ \E d \in Datagrams, o \in Outcomes : Receive(d, o)
    \/ \E d \in Datagrams, o \in Outcomes : ReceiveDeferred(d, o)
    \/ \E o \in Outcomes : FinishInputBatch(o)
    \/ \E lib \in LibTimers, o \in Outcomes : Tick(lib, o)
    \/ \E n \in Sizes, o \in Outcomes : Send(n, o)
    \/ Close
    \/ PollEvent
    \/ \E cap \in Caps : SetSendBufferCap(cap)
    \/ \E f \in Fingerprints : ApplyRemoteAnswer(f)
    \/ Advance

Spec == Init /\ [][Next]_vars

\* The host's clock advances, it polls what the tunnel produced, and it ticks
\* at the deadline it was given, even when no library timer asks for it.
FairSpec ==
    /\ Spec
    /\ WF_vars(Advance)
    /\ WF_vars(PollEvent)
    /\ WF_vars(\E o \in Outcomes : Tick(NoTime, o))
-----------------------------------------------------------------------------
(* Properties.                                                             *)

\* Every field keeps its type and no Err survives the call that met it.
TypeOK ==
    /\ t \in Tunnel
    /\ ~t.err
    /\ now \in Time
    /\ inputs \in Nat
    /\ delivered \in Seq(Event)

\* The phases of a tunnel come up strictly in order.
PhasesOf(s) ==
    /\ s.opened => s.channel_dialed
    /\ s.channel_dialed => s.sctp_connected
    /\ s.sctp_connected => s.assoc \in {"established", "closed"}
    /\ s.assoc # "none" => s.sctp
    /\ s.sctp => s.dtls_connected
    /\ s.dtls_connected => s.dtls_started
    /\ s.dtls_started => s.trace.ice # NoTime \/ s.iceEvent # NoTime

\* The channel opens only on a connected association, SCTP runs only over a
\* completed DTLS handshake, and DTLS starts only after ICE has selected a
\* pair (pump, ingest, feed_dtls).
PhaseOrder == PhasesOf(t)

\* Before the channel opens no event of the association and no selected pair of
\* ICE waits for a later pump: receive_deferred pumps each datagram itself while
\* the handshake runs.  Output that a failed write left behind may wait.
NothingWaitsBeforeOpen ==
    ~t.opened => t.pend = {} /\ t.iceEvent = NoTime

\* The trace of a tunnel records exactly the phases reached, in order.
TraceOf(s) ==
    /\ s.dtls_connected <=> s.trace.dtls # NoTime
    /\ s.sctp_connected <=> s.trace.sctp # NoTime
    /\ s.opened <=> s.trace.opened # NoTime
    /\ s.trace.dtls # NoTime => s.trace.ice # NoTime /\ s.trace.ice <= s.trace.dtls
    /\ s.trace.sctp # NoTime => s.trace.dtls # NoTime /\ s.trace.dtls <= s.trace.sctp
    /\ s.trace.opened # NoTime => s.trace.sctp # NoTime /\ s.trace.sctp <= s.trace.opened
    /\ s.trace.ice <= s.last_now
    /\ s.trace.dtls <= s.last_now
    /\ s.trace.sctp <= s.last_now
    /\ s.trace.opened <= s.last_now

\* The handshake trace is complete up to the phase reached, its times never
\* go backwards and none lies in the future (HandshakeTrace).
TraceMonotone == TraceOf(t) /\ t.last_now <= now

\* Every event produced so far, but for the datagrams already polled.
Log == delivered \o t.events
Happened(type) == {i \in DOMAIN Log : Log[i].type = type}

\* The host is told exactly once that the channel opened and exactly once
\* that it closed, however often the calls race (maybe_open, finish).
LifecycleOnce ==
    /\ Cardinality(Happened("Opened")) = IF t.opened THEN 1 ELSE 0
    /\ Cardinality(Happened("Closed")) = IF t.finished THEN 1 ELSE 0

\* A tunnel that reports Closed(Timeout) never opened, and its budget was
\* spent: tick pumps first and only then looks at the handshake deadline.
TimeoutIsHonest ==
    \A i \in Happened("Closed") :
        Log[i].reason = "Timeout" => ~t.opened /\ t.last_now >= handshake_deadline

\* Which of the positions in S is i: the first, the second, ...
Rank(S, i) == Cardinality({k \in S : k <= i})

\* Messages reach the host in the order SCTP produced them, none twice and
\* none missing except the ones to_payload refuses: the n-th Message carries
\* the payload of the n-th acceptable message read, and what is not read yet
\* waits in the reassembly queue (drain_sctp, read_stream, deferred batches).
DeliveredInOrder ==
    t.stream # "none" =>
        LET read == Len(t.arrived) - Len(t.rq)
            taken == {i \in 1..read : ~Oversize(t.arrived[i])}
            told == Happened("Message")
        IN  /\ t.rq = SubSeq(t.arrived, read + 1, Len(t.arrived))
            /\ Cardinality(told) = Cardinality(taken)
            /\ \A i \in told, j \in taken :
                  Rank(told, i) = Rank(taken, j) => Log[i].len = Payload(t.arrived[j])

\* Readable is edge-triggered: a message may sit in the reassembly queue with
\* no read pending only behind one that to_payload refused.
StrandedOnlyBehindOversize ==
    t.rq # <<>> /\ "readable" \notin t.pend =>
        \E i \in 1..(Len(t.arrived) - Len(t.rq)) : Oversize(t.arrived[i])

\* Accepting a message leaves at most one byte over the cap in the send
\* buffer (send; the byte of an empty message is not charged).
SendWithinCap ==
    [][t'.buffered > t.buffered => t'.buffered <= t.send_buffer_cap + 1]_vars

\* Once finished, no later call produces an event, opens the channel or
\* touches the trace: every entry point returns early.
FinishedIsSilent ==
    [][t.finished => /\ t'.events \in {t.events} \cup
                          (IF t.events = <<>> THEN {} ELSE {Tail(t.events)})
                     /\ t'.opened = t.opened
                     /\ t'.trace = t.trace
                     /\ t'.finished]_vars

\* The handshake always ends: with the host ticking at next_deadline the
\* tunnel opens or finishes, whatever the network and the libraries do.
HandshakeEnds == <>(t.opened \/ t.finished)

-----------------------------------------------------------------------------
(* What the comments say and the code does not do.                         *)

\* event.rs: "The tunnel is finished. No further events follow."
ClosedIsLast ==
    /\ \A i \in 1..(Len(t.events) - 1) : t.events[i].type # "Closed"
    /\ t.events # <<>> => \A i \in DOMAIN delivered : delivered[i].type # "Closed"

\* direct/mod.rs, apply_remote_answer_sdp: "a changed fingerprint is applied".
AppliedFingerprintIsUsed ==
    [][t'.dtls_connected /\ ~t.dtls_connected => t.verifier = t.remote_fingerprint]_vars
=============================================================================
