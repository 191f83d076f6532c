------------------------- MODULE DirectTunnelProofs -------------------------
(***************************************************************************)
(* Proofs about DirectTunnel, for every role, timeout, size limit, set of  *)
(* datagrams and library behaviour.                                        *)
(*                                                                         *)
(* The tunnel's methods are operators on its record, so the proof follows  *)
(* the call graph: one lemma per method says that it keeps the record well *)
(* typed and preserves Core, the inductive strengthening of PhasesOf and   *)
(* TraceOf; the lemmas of the callers cite those of the callees.           *)
(***************************************************************************)
EXTENDS DirectTunnel, FiniteSetTheorems, TLAPS

\* What holds between any two calls inside a method.  Beyond the two stated
\* invariants: a selected pair has been or is about to be traced, an event of
\* the association presupposes the association, and a completed DTLS handshake
\* presupposes a traced ICE phase.
Core(s) ==
    /\ PhasesOf(s)
    /\ TraceOf(s)
    /\ s.paired => s.trace.ice # NoTime \/ s.iceEvent # NoTime
    /\ s.iceEvent <= s.last_now
    /\ s.pend # {} => s.assoc # "none"
    /\ "connected" \in s.pend => s.assoc \in {"established", "closed"}

\* What holds between two calls of the host.
Settled(s) == ~s.opened => s.pend = {} /\ s.iceEvent = NoTime

\* A well-typed record in which Core holds.
Sound(s) == s \in Tunnel /\ Core(s)

\* What the parts of pump leave alone.
Frame(s, r) ==
    /\ r.pend = s.pend
    /\ r.iceEvent = s.iceEvent
    /\ r.last_now = s.last_now
    /\ s.opened => r.opened
Keeps(s, r) == Frame(s, r) /\ r.err = s.err

-----------------------------------------------------------------------------
(* Updates of one field.                                                   *)

LEMMA EventsUpdate ==
    ASSUME NEW s, Sound(s), NEW es \in Seq(Event)
    PROVE  LET r == [s EXCEPT !.events = es] IN
           /\ Sound(r)
           /\ Keeps(s, r)
           /\ r.opened = s.opened
           /\ r.sctp_connected = s.sctp_connected
           /\ r.channel_dialed = s.channel_dialed
<1>1. [s EXCEPT !.events = es] \in Tunnel
  BY DEF Tunnel, Sound
<1>2. Core([s EXCEPT !.events = es])
  BY DEF Core, PhasesOf, TraceOf, Tunnel, Sound
<1> QED BY <1>1, <1>2 DEF Sound, Keeps, Frame, Tunnel

LEMMA PushSound ==
    ASSUME NEW s, Sound(s), NEW e \in Event
    PROVE  /\ Sound(Push(s, e))
           /\ Keeps(s, Push(s, e))
           /\ Push(s, e).opened = s.opened
           /\ Push(s, e).sctp_connected = s.sctp_connected
           /\ Push(s, e).channel_dialed = s.channel_dialed
<1>1. s.events \in Seq(Event)
  BY DEF Tunnel, Sound
<1>2. Append(s.events, e) \in Seq(Event)
  BY <1>1
<1> QED BY <1>2, EventsUpdate DEF Push

LEMMA EventTypes ==
    /\ SendDatagram \in Event
    /\ Opened \in Event
    /\ \A n \in Nat : Message(n) \in Event
    /\ \A r \in CloseReason : Closed(r) \in Event
BY DEF SendDatagram, Opened, Message, Closed, Event

\* Fields that Core does not mention.
LEMMA FlagUpdates ==
    ASSUME NEW s, Sound(s), NEW b \in BOOLEAN
    PROVE  /\ Sound([s EXCEPT !.iceOut = b]) /\ Keeps(s, [s EXCEPT !.iceOut = b])
           /\ Sound([s EXCEPT !.dtlsOut = b]) /\ Keeps(s, [s EXCEPT !.dtlsOut = b])
           /\ Sound([s EXCEPT !.sctpOut = b]) /\ Keeps(s, [s EXCEPT !.sctpOut = b])
           /\ Sound([s EXCEPT !.finished = b]) /\ Keeps(s, [s EXCEPT !.finished = b])
<1>1. Sound([s EXCEPT !.iceOut = b]) /\ Keeps(s, [s EXCEPT !.iceOut = b])
  BY SMTT(30) DEF Sound, Core, PhasesOf, TraceOf, Tunnel, Keeps, Frame
<1>2. Sound([s EXCEPT !.dtlsOut = b]) /\ Keeps(s, [s EXCEPT !.dtlsOut = b])
  BY SMTT(30) DEF Sound, Core, PhasesOf, TraceOf, Tunnel, Keeps, Frame
<1>3. Sound([s EXCEPT !.sctpOut = b]) /\ Keeps(s, [s EXCEPT !.sctpOut = b])
  BY SMTT(30) DEF Sound, Core, PhasesOf, TraceOf, Tunnel, Keeps, Frame
<1>4. Sound([s EXCEPT !.finished = b]) /\ Keeps(s, [s EXCEPT !.finished = b])
  BY SMTT(30) DEF Sound, Core, PhasesOf, TraceOf, Tunnel, Keeps, Frame
<1> QED BY <1>1, <1>2, <1>3, <1>4

LEMMA SettingUpdates ==
    ASSUME NEW s, Sound(s)
    PROVE  /\ \A n \in Nat : Sound([s EXCEPT !.send_buffer_cap = n]) /\ Keeps(s, [s EXCEPT !.send_buffer_cap = n])
           /\ \A n \in Nat : Sound([s EXCEPT !.dropped_datagrams = n]) /\ Keeps(s, [s EXCEPT !.dropped_datagrams = n])
           /\ \A f \in Fingerprints : Sound([s EXCEPT !.remote_fingerprint = f]) /\ Keeps(s, [s EXCEPT !.remote_fingerprint = f])
<1>1. ASSUME NEW n \in Nat
      PROVE  Sound([s EXCEPT !.send_buffer_cap = n]) /\ Keeps(s, [s EXCEPT !.send_buffer_cap = n])
  BY ZenonT(60) DEF Sound, Core, PhasesOf, TraceOf, Tunnel, Keeps, Frame
<1>2. ASSUME NEW n \in Nat
      PROVE  Sound([s EXCEPT !.dropped_datagrams = n]) /\ Keeps(s, [s EXCEPT !.dropped_datagrams = n])
  BY ZenonT(60) DEF Sound, Core, PhasesOf, TraceOf, Tunnel, Keeps, Frame
<1>3. ASSUME NEW f \in Fingerprints
      PROVE  Sound([s EXCEPT !.remote_fingerprint = f]) /\ Keeps(s, [s EXCEPT !.remote_fingerprint = f])
  BY ZenonT(60) DEF Sound, Core, PhasesOf, TraceOf, Tunnel, Keeps, Frame
<1> QED BY <1>1, <1>2, <1>3

\* err is set by a failing step and cleared by the caller that ignores it.
LEMMA ErrSound ==
    ASSUME NEW s, Sound(s), NEW b \in BOOLEAN
    PROVE  LET r == [s EXCEPT !.err = b] IN
           /\ Sound(r)
           /\ r.err = b
           /\ r.pend = s.pend
           /\ r.iceEvent = s.iceEvent
           /\ r.opened = s.opened
           /\ r.last_now = s.last_now
BY SMTT(30) DEF Sound, Core, PhasesOf, TraceOf, Tunnel

-----------------------------------------------------------------------------
(* The drains.                                                             *)

LEMMA FinishSound ==
    ASSUME NEW s, Sound(s), NEW reason \in CloseReason
    PROVE  Sound(Finish(s, reason)) /\ Keeps(s, Finish(s, reason))
<1> DEFINE p == Push(s, Closed(reason))
<1>1. Sound(p)
  BY PushSound, EventTypes
<1>2. Keeps(s, p)
  BY PushSound, EventTypes
<1> HIDE DEF p
<1>3. Sound([p EXCEPT !.finished = TRUE]) /\ Keeps(p, [p EXCEPT !.finished = TRUE])
  BY <1>1, FlagUpdates
<1> QED BY <1>1, <1>2, <1>3 DEF Finish, Keeps, Frame, p

LEMMA MaybeOpenSound ==
    ASSUME NEW s, Sound(s)
    PROVE  Sound(MaybeOpen(s)) /\ Keeps(s, MaybeOpen(s))
<1> DEFINE p == Push(s, Opened)
<1>1. Sound(p)
  BY PushSound, EventTypes
<1>2. /\ Keeps(s, p)
      /\ p.opened = s.opened
      /\ p.sctp_connected = s.sctp_connected
      /\ p.channel_dialed = s.channel_dialed
  BY PushSound, EventTypes
<1> DEFINE q == [p EXCEPT !.opened = TRUE, !.trace.opened = First(@, s.last_now)]
<1> HIDE DEF p
<1>3. q \in Tunnel
  BY <1>1, <1>2 DEF Sound, Tunnel, Trace, First, Time, NoTime, Keeps, Frame
<1>4. Keeps(s, q)
  BY <1>1, <1>2 DEF Sound, Tunnel, Keeps, Frame
<1>5. ASSUME ~s.opened, s.sctp_connected, s.channel_dialed
      PROVE  Core(q)
  <2>1. p.trace.opened = NoTime /\ p.trace \in Trace /\ p.last_now \in Time
    BY <1>1, <1>2, <1>5 DEF Sound, Tunnel, Core, TraceOf
  <2>2. PhasesOf(q)
    BY <1>1, <1>2, <1>5 DEF Sound, Tunnel, Trace, Core, PhasesOf, Keeps, Frame
  <2>3. /\ q.trace.opened = q.last_now
        /\ q.trace.ice = p.trace.ice
        /\ q.trace.dtls = p.trace.dtls
        /\ q.trace.sctp = p.trace.sctp
        /\ q.opened
        /\ q.sctp_connected = p.sctp_connected
        /\ q.dtls_connected = p.dtls_connected
        /\ q.last_now = p.last_now
    BY <1>1, <1>2, <2>1 DEF Sound, Tunnel, Trace, First, Keeps, Frame
  <2>4. TraceOf(p) /\ p.sctp_connected
    BY <1>1, <1>2, <1>5 DEF Sound, Core
  <2>5. TraceOf(q)
    <3> HIDE DEF q
    <3> QED BY <2>1, <2>3, <2>4 DEF Trace, TraceOf, Time, NoTime
  <2> QED BY <1>1, <1>2, <2>2, <2>5 DEF Sound, Tunnel, Trace, Core
<1> QED BY <1>3, <1>4, <1>5 DEF MaybeOpen, Sound, Keeps, Frame, p

LEMMA DrainIceEventsSound ==
    ASSUME NEW s, Sound(s)
    PROVE  /\ Sound(DrainIceEvents(s))
           /\ DrainIceEvents(s).iceEvent = NoTime
           /\ DrainIceEvents(s).pend = s.pend
           /\ DrainIceEvents(s).last_now = s.last_now
           /\ DrainIceEvents(s).err = s.err
<1> DEFINE q == [s EXCEPT !.iceEvent = NoTime, !.trace.ice = First(@, s.iceEvent)]
<1>1. q \in Tunnel
  BY DEF Sound, Tunnel, Trace, First, Time, NoTime
<1>2. q.iceEvent = NoTime /\ q.pend = s.pend /\ q.last_now = s.last_now /\ q.err = s.err
  BY DEF Sound, Tunnel
<1>3. ASSUME s.iceEvent # NoTime
      PROVE  Core(q)
  <2>1. PhasesOf(q)
    BY <1>3 DEF Sound, Tunnel, Trace, Core, PhasesOf, First
  <2>2. TraceOf(q)
    BY <1>3 DEF Sound, Tunnel, Trace, Core, TraceOf, First, Time, NoTime
  <2> QED BY <1>3, <2>1, <2>2 DEF Sound, Tunnel, Trace, Core, First, Time, NoTime
<1> QED BY <1>1, <1>2, <1>3 DEF DrainIceEvents, Sound

LEMMA DrainIceWritesSound ==
    ASSUME NEW s, Sound(s)
    PROVE  Sound(DrainIceWrites(s)) /\ Keeps(s, DrainIceWrites(s))
<1> DEFINE p == Push(s, SendDatagram)
<1>1. Sound(p) /\ Keeps(s, p)
  BY PushSound, EventTypes
<1> HIDE DEF p
<1>2. Sound([p EXCEPT !.iceOut = FALSE]) /\ Keeps(p, [p EXCEPT !.iceOut = FALSE])
  BY <1>1, FlagUpdates
<1> QED BY <1>1, <1>2 DEF DrainIceWrites, Keeps, Frame, p

LEMMA DrainDtlsTransmitsSound ==
    ASSUME NEW s, Sound(s)
    PROVE  Sound(DrainDtlsTransmits(s)) /\ Keeps(s, DrainDtlsTransmits(s))
<1> DEFINE p == Push(s, SendDatagram)
<1>1. Sound(p) /\ Keeps(s, p)
  BY PushSound, EventTypes
<1> HIDE DEF p
<1>2. Sound([p EXCEPT !.dtlsOut = FALSE]) /\ Keeps(p, [p EXCEPT !.dtlsOut = FALSE])
  BY <1>1, FlagUpdates
<1> QED BY <1>1, <1>2 DEF DrainDtlsTransmits, Keeps, Frame, p

\* The number of messages read is the length of a prefix of the queue.
LEMMA ReadCountType ==
    ASSUME NEW rq \in Seq(InMessage)
    PROVE  ReadCount(rq) \in 0..Len(rq)
<1>1. Len(rq) \in Nat
  OBVIOUS
<1>2. IsFiniteSet(1..Len(rq)) /\ Cardinality(1..Len(rq)) = Len(rq)
  BY <1>1, FS_Interval, SMTT(30)
<1>3. Readable(rq) \subseteq 1..Len(rq)
  BY DEF Readable
<1>4. Cardinality(Readable(rq)) <= Len(rq) /\ IsFiniteSet(Readable(rq))
  BY <1>2, <1>3, FS_Subset
<1>5. Cardinality(Readable(rq)) \in Nat
  BY <1>4, FS_CardinalityType
<1> QED BY <1>1, <1>4, <1>5 DEF ReadCount

LEMMA ReadStreamSound ==
    ASSUME NEW s, Sound(s)
    PROVE  /\ Sound(ReadStream(s))
           /\ Frame(s, ReadStream(s))
<1> DEFINE n == ReadCount(s.rq)
           es == s.events \o [i \in 1..n |-> Message(Payload(s.rq[i]))]
           rest == SubSeq(s.rq, n + 2, Len(s.rq))
           e == n < Len(s.rq)
           r == [s EXCEPT !.events = es, !.rq = rest, !.err = e]
<1>1. s.rq \in Seq(InMessage) /\ s.events \in Seq(Event)
  BY DEF Sound, Tunnel
<1>2. n \in Nat /\ n <= Len(s.rq)
  BY <1>1, ReadCountType
<1>3. \A i \in 1..n : Message(Payload(s.rq[i])) \in Event
  <2>1. ASSUME NEW i \in 1..n PROVE Payload(s.rq[i]) \in Nat
    <3>1. s.rq[i] \in InMessage
      BY <1>1, <1>2
    <3> QED BY <3>1 DEF InMessage, Payload
  <2> QED BY <2>1, EventTypes
<1>4. [i \in 1..n |-> Message(Payload(s.rq[i]))] \in Seq(Event)
  <2> HIDE DEF n
  <2> QED BY <1>2, <1>3
<1>5. es \in Seq(Event)
  BY <1>1, <1>4
<1>6. rest \in Seq(InMessage)
  <2> HIDE DEF n
  <2> QED BY <1>1, <1>2
<1>7. Sound(r) /\ Frame(s, r)
  <2> HIDE DEF es, rest, e
  <2>1. e \in BOOLEAN
    BY DEF e
  <2>2. r \in Tunnel
    BY <1>5, <1>6, <2>1 DEF Sound, Tunnel
  <2>3. Core(r)
    BY <1>5, <1>6, <2>1 DEF Sound, Core, PhasesOf, TraceOf, Tunnel
  <2>4. Frame(s, r)
    BY DEF Sound, Tunnel, Frame
  <2> QED BY <2>2, <2>3, <2>4 DEF Sound
<1> QED BY <1>7 DEF ReadStream, Frame

\* drain_sctp has polled the association's events and noted that it is up.
LEMMA PolledSound ==
    ASSUME NEW s, Sound(s)
    PROVE  LET polled == [s EXCEPT !.pend = {}]
               a == IF "connected" \in s.pend
                    THEN [polled EXCEPT !.sctp_connected = TRUE,
                                        !.trace.sctp = First(@, s.last_now)]
                    ELSE polled
           IN  Sound(a) /\ a.pend = {} /\ a.iceEvent = s.iceEvent /\ a.last_now = s.last_now
<1> DEFINE polled == [s EXCEPT !.pend = {}]
           up == [polled EXCEPT !.sctp_connected = TRUE,
                                !.trace.sctp = First(@, s.last_now)]
           a == IF "connected" \in s.pend THEN up ELSE polled
<1>1. /\ Sound(polled)
      /\ polled.pend = {}
      /\ polled.iceEvent = s.iceEvent
      /\ polled.last_now = s.last_now
  BY ZenonT(60) DEF Sound, Core, PhasesOf, TraceOf, Tunnel
<1>2. ASSUME "connected" \in s.pend
      PROVE  Sound(up)
  <2>1. up \in Tunnel
    BY <1>1, ZenonT(60) DEF Sound, Tunnel, Trace, First, Time, NoTime
  <2>2. /\ up.trace.ice = s.trace.ice
        /\ up.trace.dtls = s.trace.dtls
        /\ up.trace.opened = s.trace.opened
        /\ up.trace.sctp = First(s.trace.sctp, s.last_now)
        /\ up.sctp_connected
        /\ up.dtls_connected = s.dtls_connected
        /\ up.opened = s.opened
        /\ up.last_now = s.last_now
    BY DEF Sound, Tunnel, Trace
  <2>3. s.assoc \in {"established", "closed"} /\ s.sctp /\ s.dtls_connected
    BY <1>2 DEF Sound, Core, PhasesOf
  <2>4. TraceOf(up)
    <3>1. TraceOf(s) /\ s.trace \in Trace /\ s.last_now \in Time
      BY DEF Sound, Core, Tunnel
    <3>2. s.opened => s.sctp_connected
      BY DEF Sound, Core, PhasesOf
    <3> HIDE DEF up
    <3> QED BY <2>2, <2>3, <3>1, <3>2 DEF TraceOf, Trace, First, Time, NoTime
  <2>5. PhasesOf(up)
    BY <2>3 DEF Sound, Core, PhasesOf, Tunnel, Trace
  <2>6. Core(up)
    BY <2>4, <2>5 DEF Sound, Core, Tunnel, Trace
  <2> QED BY <2>1, <2>6 DEF Sound
<1>3. /\ Sound(a)
      /\ a.pend = {}
      /\ a.iceEvent = s.iceEvent
      /\ a.last_now = s.last_now
  <2>1. up.pend = {} /\ up.iceEvent = s.iceEvent /\ up.last_now = s.last_now
    BY DEF Sound, Tunnel
  <2> HIDE DEF up, polled
  <2> QED BY <1>1, <1>2, <2>1
<1> HIDE DEF a
<1> QED BY <1>3 DEF a

LEMMA DrainSctpSound ==
    ASSUME NEW s, Sound(s)
    PROVE  /\ Sound(DrainSctp(s))
           /\ DrainSctp(s).pend = {}
           /\ DrainSctp(s).iceEvent = s.iceEvent
           /\ DrainSctp(s).last_now = s.last_now
<1> DEFINE polled == [s EXCEPT !.pend = {}]
           a == IF "connected" \in s.pend
                THEN [polled EXCEPT !.sctp_connected = TRUE,
                                    !.trace.sctp = First(@, s.last_now)]
                ELSE polled
           b == IF "lost" \in s.pend THEN Finish(a, "Remote") ELSE a
<1>1. Sound(a) /\ a.pend = {} /\ a.iceEvent = s.iceEvent /\ a.last_now = s.last_now
  BY PolledSound
<1>2. Sound(b) /\ b.pend = {} /\ b.iceEvent = s.iceEvent /\ b.last_now = s.last_now
  <2> HIDE DEF a
  <2>1. "Remote" \in CloseReason
    BY DEF CloseReason
  <2> QED BY <1>1, <2>1, FinishSound DEF Keeps, Frame
<1>3. DrainSctp(s) = IF "readable" \in s.pend THEN ReadStream(b) ELSE b
  BY DEF DrainSctp
<1> HIDE DEF b
<1> QED BY <1>2, <1>3, ReadStreamSound DEF Frame

LEMMA DrainChannelSound ==
    ASSUME NEW s, Sound(s)
    PROVE  Sound(DrainChannel(s)) /\ Frame(s, DrainChannel(s))
<1> DEFINE q == [s EXCEPT !.channel_dialed = TRUE, !.stream = "configured"]
           e == [s EXCEPT !.channel_dialed = TRUE, !.err = TRUE]
<1>1. q \in Tunnel /\ e \in Tunnel
  BY DEF Sound, Tunnel
<1>2. Frame(s, q) /\ Frame(s, e)
  BY DEF Sound, Tunnel, Frame
<1>3. ASSUME s.sctp_connected
      PROVE  Core(q) /\ Core(e)
  BY <1>3 DEF Sound, Core, PhasesOf, TraceOf, Tunnel
<1> QED BY <1>1, <1>2, <1>3 DEF DrainChannel, OpenStream, Sound, Frame

LEMMA DrainSctpTransmitsSound ==
    ASSUME NEW s, Sound(s), NEW o \in Outcome
    PROVE  Sound(DrainSctpTransmits(s, o)) /\ Frame(s, DrainSctpTransmits(s, o))
<1> DEFINE p == [s EXCEPT !.sctpOut = FALSE]
           q == [s EXCEPT !.sctpOut = FALSE, !.dtlsOut = TRUE]
           e == [s EXCEPT !.sctpOut = FALSE, !.err = TRUE]
<1>1. Sound(p) /\ Frame(s, p)
  BY FlagUpdates DEF Keeps
<1>2. Sound(q) /\ Frame(s, q)
  <2>1. q = [p EXCEPT !.dtlsOut = TRUE]
    BY DEF Sound, Tunnel
  <2> HIDE DEF p, q
  <2> QED BY <1>1, <2>1, FlagUpdates DEF Keeps, Frame
<1>3. Sound(e) /\ Frame(s, e)
  <2>1. e = [p EXCEPT !.err = TRUE]
    BY DEF Sound, Tunnel
  <2> HIDE DEF p, e
  <2> QED BY <1>1, <2>1, ErrSound DEF Frame
<1> QED BY <1>1, <1>2, <1>3 DEF DrainSctpTransmits, Frame

-----------------------------------------------------------------------------
(* pump.                                                                   *)

LEMMA EnsureDtlsSound ==
    ASSUME NEW s, Sound(s), NEW o \in Outcome
    PROVE  /\ Sound(EnsureDtls(s, o))
           /\ Keeps(s, EnsureDtls(s, o))
           /\ EnsureDtls(s, o).opened = s.opened
           /\ EnsureDtls(s, o).dtls_connected = s.dtls_connected
<1> DEFINE q == [s EXCEPT !.dtls_started = TRUE]
           w == s.dtlsOut \/ o.connect
           r == [s EXCEPT !.dtls_started = o.connect, !.dtlsOut = w]
<1>1. o.connect \in BOOLEAN /\ w \in BOOLEAN
  BY DEF Outcome
<1> HIDE DEF w
<1>2. q \in Tunnel /\ r \in Tunnel
  BY <1>1 DEF Sound, Tunnel
<1>3. /\ Keeps(s, q) /\ q.opened = s.opened /\ q.dtls_connected = s.dtls_connected
      /\ Keeps(s, r) /\ r.opened = s.opened /\ r.dtls_connected = s.dtls_connected
  BY DEF Sound, Tunnel, Keeps, Frame
<1>4. ASSUME s.paired, ~s.dtls_started
      PROVE  Core(q) /\ Core(r)
  <2>1. Core(q)
    BY <1>4 DEF Sound, Core, PhasesOf, TraceOf, Tunnel
  <2>2. PhasesOf(r)
    BY <1>1, <1>4 DEF Sound, Core, PhasesOf, Tunnel
  <2>3. TraceOf(r)
    BY DEF Sound, Core, TraceOf, Tunnel
  <2>4. Core(r)
    BY <2>2, <2>3 DEF Sound, Core, Tunnel
  <2> QED BY <2>1, <2>4
<1> QED BY <1>2, <1>3, <1>4 DEF EnsureDtls, ActivateDtls, Sound, Keeps, Frame, w

LEMMA PumpProtocolSound ==
    ASSUME NEW s, Sound(s), NEW o \in Outcome
    PROVE  LET r == PumpProtocol(s, o) IN
           /\ Sound(r)
           /\ r.pend = {}
           /\ r.iceEvent = s.iceEvent
           /\ r.last_now = s.last_now
<1> DEFINE a == DrainSctp(s)
           b == DrainChannel(a)
           c == DrainSctpTransmits(b, o)
           d == DrainDtlsTransmits(c)
<1>1. Sound(a) /\ a.pend = {} /\ a.iceEvent = s.iceEvent /\ a.last_now = s.last_now
  BY DrainSctpSound
<1>2. Sound(b) /\ b.pend = {} /\ b.iceEvent = s.iceEvent /\ b.last_now = s.last_now
  <2> HIDE DEF a
  <2> QED BY <1>1, DrainChannelSound DEF Frame
<1>3. Sound(c) /\ c.pend = {} /\ c.iceEvent = s.iceEvent /\ c.last_now = s.last_now
  <2> HIDE DEF b
  <2> QED BY <1>2, DrainSctpTransmitsSound DEF Frame
<1>4. Sound(d) /\ d.pend = {} /\ d.iceEvent = s.iceEvent /\ d.last_now = s.last_now
  <2> HIDE DEF c
  <2> QED BY <1>3, DrainDtlsTransmitsSound DEF Keeps, Frame
<1>5. PumpProtocol(s, o) \in {a, b, c, d}
  BY DEF PumpProtocol
<1> HIDE DEF a, b, c, d
<1> QED BY <1>1, <1>2, <1>3, <1>4, <1>5

\* A pump leaves nothing behind: every queued event of the association and of
\* the ICE agent has been polled, even when a step failed.
LEMMA PumpSound ==
    ASSUME NEW s, Sound(s), NEW o \in Outcome, ~s.err
    PROVE  LET r == Pump(s, o) IN
           /\ Sound(r)
           /\ ~r.err
           /\ r.pend = {}
           /\ r.iceEvent = NoTime
           /\ r.last_now = s.last_now
<1> DEFINE x == DrainIceEvents(s)
           y == DrainIceWrites(x)
           a == EnsureDtls(y, o)
           b == IF a.dtls_started THEN PumpProtocol(a, o) ELSE a
<1>1. Sound(x) /\ x.iceEvent = NoTime /\ x.last_now = s.last_now
  BY DrainIceEventsSound
<1>2. Sound(y) /\ y.iceEvent = NoTime /\ y.last_now = s.last_now
  <2> HIDE DEF x
  <2> QED BY <1>1, DrainIceWritesSound DEF Keeps, Frame
<1>3. Sound(a) /\ a.iceEvent = NoTime /\ a.last_now = s.last_now
  <2> HIDE DEF y
  <2> QED BY <1>2, EnsureDtlsSound DEF Keeps, Frame
<1>4. ~a.dtls_started => a.pend = {}
  <2> HIDE DEF a
  <2> QED BY <1>3 DEF Sound, Core, PhasesOf
<1>5. Sound(b) /\ b.pend = {} /\ b.iceEvent = NoTime /\ b.last_now = s.last_now
  <2> HIDE DEF a
  <2> QED BY <1>3, <1>4, PumpProtocolSound
<1>6. Pump(s, o) = IF b.err THEN [b EXCEPT !.err = FALSE] ELSE MaybeOpen(b)
  BY DEF Pump
<1> HIDE DEF b
<1>7. CASE b.err
  BY <1>5, <1>6, <1>7, ErrSound, ZenonT(60)
<1>8. CASE ~b.err
  BY <1>5, <1>6, <1>8, MaybeOpenSound DEF Keeps, Frame
<1> QED BY <1>7, <1>8

-----------------------------------------------------------------------------
(* ingest.                                                                 *)

LEMMA StartSctpSound ==
    ASSUME NEW s, Sound(s), NEW o \in Outcome, s.dtls_connected, s.assoc = "none"
    PROVE  LET r == StartSctp(s, o) IN
           Sound(r) /\ Frame(s, r) /\ r.opened = s.opened /\ r.dtls_connected
<1> DEFINE p == [s EXCEPT !.sctp = TRUE, !.assoc = "handshaking", !.sctpOut = TRUE]
           q == [s EXCEPT !.sctp = TRUE, !.err = TRUE]
           r == [s EXCEPT !.sctp = TRUE]
<1>1. p \in Tunnel /\ q \in Tunnel /\ r \in Tunnel
  BY ZenonT(60) DEF Sound, Tunnel
<1>2. /\ Frame(s, p) /\ p.opened = s.opened /\ p.dtls_connected
      /\ Frame(s, q) /\ q.opened = s.opened /\ q.dtls_connected
      /\ Frame(s, r) /\ r.opened = s.opened /\ r.dtls_connected
  BY DEF Sound, Tunnel, Frame
<1>3. Core(p)
  BY DEF Sound, Core, PhasesOf, TraceOf, Tunnel
<1>4. Core(q)
  BY DEF Sound, Core, PhasesOf, TraceOf, Tunnel
<1>5. Core(r)
  BY DEF Sound, Core, PhasesOf, TraceOf, Tunnel
<1>6. StartSctp(s, o) \in {p, q, r}
  BY DEF StartSctp
<1> HIDE DEF p, q, r
<1> QED BY <1>1, <1>2, <1>3, <1>4, <1>5, <1>6 DEF Sound

LEMMA HandleAssociationEventSound ==
    ASSUME NEW s, Sound(s), NEW p \in Packet, s.assoc \in {"handshaking", "established"}
    PROVE  LET r == HandleAssociationEvent(s, p) IN
           /\ Sound(r)
           /\ r.iceEvent = s.iceEvent
           /\ r.last_now = s.last_now
           /\ r.opened = s.opened
           /\ r.err = s.err
           /\ r.dtls_connected = s.dtls_connected
<1> DEFINE up == p.connected /\ s.assoc = "handshaking"
           data == p.data # <<>>
           as == IF p.lost # "no" THEN "closed" ELSE IF up THEN "established" ELSE s.assoc
           pe == s.pend \cup (IF up THEN {"connected"} ELSE {})
                        \cup (IF data THEN {"readable"} ELSE {})
                        \cup (IF p.lost # "no" THEN {"lost"} ELSE {})
           rq == IF p.lost = "purged" THEN <<>> ELSE s.rq \o p.data
           ar == s.arrived \o p.data
           st == IF p.lost = "purged" THEN "none"
                 ELSE IF data /\ s.stream = "none" THEN "default" ELSE s.stream
           bu == IF p.ack \/ p.lost = "purged" THEN 0 ELSE s.buffered
           ou == s.sctpOut \/ data \/ up
           r == [s EXCEPT !.assoc = as, !.pend = pe, !.rq = rq, !.arrived = ar,
                          !.stream = st, !.buffered = bu, !.sctpOut = ou]
<1>1. HandleAssociationEvent(s, p) = r
  BY DEF HandleAssociationEvent
<1>2. /\ s.pend \in SUBSET {"connected", "readable", "lost"}
      /\ s.rq \in Seq(InMessage) /\ s.arrived \in Seq(InMessage)
      /\ s.stream \in {"none", "default", "configured"} /\ s.buffered \in Nat
      /\ p.data \in Seq(InMessage)
  BY DEF Sound, Tunnel, Packet
<1>3. as \in {"none", "handshaking", "established", "closed"} /\ as # "none"
  OBVIOUS
<1>4. pe \in SUBSET {"connected", "readable", "lost"}
  <2> HIDE DEF up, data
  <2> QED BY <1>2
<1>5. rq \in Seq(InMessage) /\ ar \in Seq(InMessage)
  BY <1>2
<1>6. st \in {"none", "default", "configured"} /\ bu \in Nat
  BY <1>2
<1>7. ou \in BOOLEAN
  OBVIOUS
<1>8. "connected" \in pe => as \in {"established", "closed"}
  <2>1. "connected" \in s.pend => s.assoc \in {"established", "closed"}
    BY DEF Sound, Core
  <2>2. "connected" \in pe => up \/ "connected" \in s.pend
    OBVIOUS
  <2> QED BY <2>1, <2>2
<1>9. s.sctp_connected => as \in {"established", "closed"}
  <2>1. s.sctp_connected => s.assoc = "established"
    BY DEF Sound, Core, PhasesOf
  <2> QED BY <2>1
<1> HIDE DEF as, pe, rq, ar, st, bu, ou
<1>10. r \in Tunnel
  BY <1>3, <1>4, <1>5, <1>6, <1>7, ZenonT(60) DEF Sound, Tunnel
<1>11. PhasesOf(r)
  BY <1>3, <1>9 DEF Sound, Core, PhasesOf, Tunnel
<1>12. TraceOf(r)
  BY DEF Sound, Core, TraceOf, Tunnel
<1>13. Core(r)
  BY <1>3, <1>8, <1>11, <1>12 DEF Sound, Core, Tunnel
<1>14. /\ r.iceEvent = s.iceEvent /\ r.last_now = s.last_now /\ r.opened = s.opened
       /\ r.err = s.err /\ r.dtls_connected = s.dtls_connected
  BY DEF Sound, Tunnel
<1> QED BY <1>1, <1>10, <1>13, <1>14 DEF Sound

\* What the parts of ingest leave alone.
Stays(s, r) ==
    /\ r.iceEvent = s.iceEvent
    /\ r.last_now = s.last_now
    /\ r.opened = s.opened
    /\ s.dtls_connected => r.dtls_connected

LEMMA FeedSctpSound ==
    ASSUME NEW s, Sound(s), NEW p \in Packet
    PROVE  Sound(FeedSctp(s, p)) /\ Stays(s, FeedSctp(s, p))
<1> DEFINE q == [s EXCEPT !.assoc = "handshaking", !.sctpOut = TRUE]
<1>1. q \in Tunnel /\ Stays(s, q)
  BY DEF Sound, Tunnel, Stays
<1>2. ASSUME s.sctp, s.assoc = "none"
      PROVE  Core(q)
  BY <1>2 DEF Sound, Core, PhasesOf, TraceOf, Tunnel
<1>3. s.assoc \notin {"none", "closed"} => s.assoc \in {"handshaking", "established"}
  BY DEF Sound, Tunnel
<1>4. s.assoc \notin {"none", "closed"} =>
         /\ Sound(HandleAssociationEvent(s, p))
         /\ Stays(s, HandleAssociationEvent(s, p))
  BY <1>3, HandleAssociationEventSound DEF Stays
<1> QED BY <1>1, <1>2, <1>4 DEF FeedSctp, Sound, Stays

LEMMA DtlsStepSound ==
    ASSUME NEW s, Sound(s), NEW e \in DtlsEvent, NEW at, at = s.last_now,
           NEW o \in Outcome, ~s.dtls_connected => s.iceEvent = NoTime
    PROVE  Sound(DtlsStep(s, e, at, o)) /\ Stays(s, DtlsStep(s, e, at, o))
<1>1. CASE s.err \/ ~s.dtls_started
  BY <1>1 DEF DtlsStep, Stays
<1>2. CASE ~s.err /\ s.dtls_started /\ e.type = "flight"
  <2>1. Sound([s EXCEPT !.dtlsOut = TRUE])
    BY FlagUpdates
  <2>2. Stays(s, [s EXCEPT !.dtlsOut = TRUE])
    BY DEF Stays, Sound, Tunnel
  <2> QED BY <1>2, <2>1, <2>2 DEF DtlsStep
<1>3. CASE /\ ~s.err /\ s.dtls_started /\ e.type = "complete"
           /\ ~s.dtls_connected /\ VerifyPeer(s, e.cert)
  <2> DEFINE done == [s EXCEPT !.dtls_connected = TRUE, !.trace.dtls = First(@, at),
                               !.dtlsOut = TRUE]
  <2>1. done \in Tunnel
    BY DEF Sound, Tunnel, Trace, First, Time, NoTime
  <2>2. /\ done.trace.ice = s.trace.ice
        /\ done.trace.dtls = First(s.trace.dtls, at)
        /\ done.trace.sctp = s.trace.sctp
        /\ done.trace.opened = s.trace.opened
        /\ done.dtls_connected
        /\ done.sctp_connected = s.sctp_connected
        /\ done.opened = s.opened
        /\ done.last_now = s.last_now
    BY DEF Sound, Tunnel, Trace
  <2>3. ~s.sctp /\ s.assoc = "none" /\ ~s.sctp_connected /\ ~s.opened /\ s.trace.ice # NoTime
    BY <1>3 DEF Sound, Core, PhasesOf
  <2>4. TraceOf(done)
    <3>1. TraceOf(s) /\ s.trace \in Trace /\ s.last_now \in Time
      BY DEF Sound, Core, Tunnel
    <3> HIDE DEF done
    <3> QED BY <1>3, <2>2, <2>3, <3>1 DEF TraceOf, Trace, First, Time, NoTime
  <2>5. PhasesOf(done)
    BY <1>3, <2>3 DEF Sound, Core, PhasesOf, Tunnel, Trace
  <2>6. Core(done)
    BY <2>4, <2>5 DEF Sound, Core, Tunnel, Trace
  <2>7. /\ Stays(s, done) /\ ~done.sctp /\ done.assoc = "none"
        /\ done.dtls_connected /\ done.opened = s.opened
    BY <2>3 DEF Stays, Sound, Tunnel
  <2>8. DtlsStep(s, e, at, o) = StartSctp(done, o)
    BY <1>3, <2>7 DEF DtlsStep
  <2> HIDE DEF done
  <2> QED BY <2>1, <2>6, <2>7, <2>8, StartSctpSound DEF Sound, Stays, Frame
<1>4. CASE ~s.err /\ s.dtls_started /\ e.type = "app" /\ s.dtls_connected
  <2>1. e.packet \in Packet
    BY <1>4 DEF DtlsEvent
  <2>2. DtlsStep(s, e, at, o) = FeedSctp(s, e.packet)
    BY <1>4 DEF DtlsStep
  <2> QED BY <2>1, <2>2, FeedSctpSound
<1>5. CASE DtlsStep(s, e, at, o) = s
  BY <1>5 DEF Stays
<1> QED BY <1>1, <1>2, <1>3, <1>4, <1>5 DEF DtlsStep

LEMMA FeedDtlsSound ==
    ASSUME NEW s, Sound(s), NEW d \in Datagram, d.kind = "dtls", NEW at, at = s.last_now,
           NEW o \in Outcome, ~s.dtls_connected => s.iceEvent = NoTime
    PROVE  Sound(FeedDtls(s, d, at, o)) /\ Stays(s, FeedDtls(s, d, at, o))
<1> DEFINE x == DtlsStep(s, d.first, at, o)
           y == DtlsStep(x, d.second, at, o)
<1>1. d.first \in DtlsEvent /\ d.second \in DtlsEvent
  BY DEF Datagram
<1>2. Sound(x) /\ Stays(s, x)
  BY <1>1, DtlsStepSound
<1>3. Sound(y) /\ Stays(x, y)
  <2>1. at = x.last_now /\ (~x.dtls_connected => x.iceEvent = NoTime)
    BY <1>2 DEF Stays
  <2> HIDE DEF x
  <2> QED BY <1>1, <1>2, <2>1, DtlsStepSound
<1>4. Sound([s EXCEPT !.err = TRUE]) /\ Stays(s, [s EXCEPT !.err = TRUE])
  <2>1. Sound([s EXCEPT !.err = TRUE])
    BY ErrSound
  <2>2. Stays(s, [s EXCEPT !.err = TRUE])
    BY DEF Stays, Sound, Tunnel
  <2> QED BY <2>1, <2>2
<1>5. FeedDtls(s, d, at, o) \in {[s EXCEPT !.err = TRUE], y}
  BY DEF FeedDtls
<1> HIDE DEF x, y
<1> QED BY <1>2, <1>3, <1>4, <1>5 DEF Stays

LEMMA FeedIceSound ==
    ASSUME NEW s, Sound(s), NEW d, NEW at, at = s.last_now
    PROVE  LET r == FeedIce(s, d, at) IN
           Sound(r) /\ r.last_now = s.last_now /\ r.opened = s.opened
<1> DEFINE q == [s EXCEPT !.paired = TRUE, !.iceEvent = at, !.iceOut = TRUE]
           w == [s EXCEPT !.iceOut = TRUE]
           e == [s EXCEPT !.err = TRUE]
<1>1. Sound(w) /\ Sound(e)
  BY FlagUpdates, ErrSound
<1>2. q \in Tunnel
  BY DEF Sound, Tunnel
<1>3. PhasesOf(q) /\ TraceOf(q)
  BY DEF Sound, Core, PhasesOf, TraceOf, Tunnel, Time, NoTime
<1>4. Core(q)
  BY <1>3 DEF Sound, Core, Tunnel, Time, NoTime
<1>5. /\ q.last_now = s.last_now /\ q.opened = s.opened
      /\ w.last_now = s.last_now /\ w.opened = s.opened
      /\ e.last_now = s.last_now /\ e.opened = s.opened
  BY DEF Sound, Tunnel
<1>6. FeedIce(s, d, at) \in {q, w, e}
  BY DEF FeedIce
<1> HIDE DEF q, w, e
<1> QED BY <1>1, <1>2, <1>4, <1>5, <1>6 DEF Sound

LEMMA IngestSound ==
    ASSUME NEW s, Sound(s), ~s.err, Settled(s), NEW d \in Datagram,
           NEW at, at = s.last_now, NEW o \in Outcome
    PROVE  LET r == Ingest(s, d, at, o) IN
           Sound(r) /\ ~r.err /\ r.last_now = s.last_now /\ r.opened = s.opened
<1> DEFINE m == EnsureDtls(s, o)
           fed == IF d.kind = "stun" THEN FeedIce(s, d, at)
                  ELSE IF d.kind = "dtls" /\ s.paired THEN FeedDtls(m, d, at, o)
                  ELSE s
           clear == [fed EXCEPT !.err = FALSE, !.dropped_datagrams = @ + 1]
<1>1. /\ Sound(m) /\ m.iceEvent = s.iceEvent /\ m.last_now = s.last_now
      /\ m.opened = s.opened
  BY EnsureDtlsSound DEF Keeps, Frame
<1>2. ~m.dtls_connected => m.iceEvent = NoTime
  <2> HIDE DEF m
  <2>1. m.opened => m.dtls_connected
    BY <1>1 DEF Sound, Core, PhasesOf
  <2> QED BY <1>1, <2>1 DEF Settled
<1>3. Sound(fed) /\ fed.last_now = s.last_now /\ fed.opened = s.opened
  <2>1. Sound(FeedIce(s, d, at)) /\ FeedIce(s, d, at).last_now = s.last_now
        /\ FeedIce(s, d, at).opened = s.opened
    BY FeedIceSound
  <2>2. d.kind = "dtls" => /\ Sound(FeedDtls(m, d, at, o))
                           /\ FeedDtls(m, d, at, o).last_now = s.last_now
                           /\ FeedDtls(m, d, at, o).opened = s.opened
    <3> HIDE DEF m
    <3> QED BY <1>1, <1>2, FeedDtlsSound DEF Stays
  <2> HIDE DEF m
  <2> QED BY <2>1, <2>2
<1>4. Ingest(s, d, at, o) = IF fed.err THEN clear ELSE fed
  BY DEF Ingest
<1> HIDE DEF fed
<1>5. Sound(clear) /\ ~clear.err /\ clear.last_now = s.last_now /\ clear.opened = s.opened
  <2>1. fed.dropped_datagrams + 1 \in Nat
    BY <1>3 DEF Sound, Tunnel
  <2> DEFINE g == [fed EXCEPT !.dropped_datagrams = fed.dropped_datagrams + 1]
  <2>2. Sound(g)
    BY <1>3, <2>1, SettingUpdates
  <2>3. g.last_now = s.last_now /\ g.opened = s.opened
    BY <1>3 DEF Sound, Tunnel
  <2>4. clear = [g EXCEPT !.err = FALSE]
    BY <1>3 DEF Sound, Tunnel
  <2> HIDE DEF g, clear
  <2> QED BY <2>2, <2>3, <2>4, ErrSound
<1> QED BY <1>3, <1>4, <1>5

-----------------------------------------------------------------------------
(* The public methods: each leaves a tunnel ready for the next call.       *)

Ready(s, at) == Sound(s) /\ ~s.err /\ Settled(s) /\ s.last_now <= at

\* Every call starts by taking the host's clock, which never goes back.
LEMMA ClockSound ==
    ASSUME NEW s, NEW at \in Time, Ready(s, at)
    PROVE  LET m == [s EXCEPT !.last_now = at] IN
           Sound(m) /\ ~m.err /\ Settled(m) /\ m.last_now = at /\ m.opened = s.opened
<1> DEFINE m == [s EXCEPT !.last_now = at]
<1>1. m \in Tunnel
  BY DEF Ready, Sound, Tunnel
<1>2. PhasesOf(m)
  BY DEF Ready, Sound, Core, PhasesOf, Tunnel
<1>3. /\ m.last_now = at /\ m.trace = s.trace /\ m.iceEvent = s.iceEvent
      /\ m.dtls_connected = s.dtls_connected /\ m.sctp_connected = s.sctp_connected
      /\ m.opened = s.opened /\ m.pend = s.pend /\ m.assoc = s.assoc
      /\ m.paired = s.paired /\ m.err = s.err
  BY DEF Ready, Sound, Tunnel
<1>4. /\ s.trace \in Trace /\ s.last_now \in Time /\ s.iceEvent \in Time \cup {NoTime}
      /\ Core(s) /\ s.last_now <= at
  BY DEF Ready, Sound, Tunnel
<1> HIDE DEF m
<1>5. TraceOf(m)
  BY <1>3, <1>4 DEF Core, TraceOf, Trace, Time, NoTime
<1>6. Core(m)
  BY <1>2, <1>3, <1>4, <1>5 DEF Core, Time, NoTime
<1>7. Settled(m) /\ ~m.err
  BY <1>3 DEF Ready, Settled
<1> QED BY <1>1, <1>3, <1>6, <1>7 DEF Sound, m

LEMMA PumpReady ==
    ASSUME NEW s, NEW at \in Time, Sound(s), ~s.err, s.last_now <= at, NEW o \in Outcome
    PROVE  Ready(Pump(s, o), at)
BY PumpSound DEF Ready, Settled

LEMMA ReceiveReady ==
    ASSUME NEW s, NEW at \in Time, Ready(s, at), NEW d \in Datagram, NEW o \in Outcome
    PROVE  /\ Ready(ReceiveTunnel(s, d, at, o), at)
           /\ Ready(ReceiveDeferredTunnel(s, d, at, o), at)
<1> DEFINE m == [s EXCEPT !.last_now = at]
           fed == Ingest(m, d, at, o)
<1>1. Sound(m) /\ ~m.err /\ Settled(m) /\ m.last_now = at
  BY ClockSound
<1>2. Sound(fed) /\ ~fed.err /\ fed.last_now = at
  <2> HIDE DEF m
  <2> QED BY <1>1, IngestSound
<1>3. Ready(Pump(fed, o), at)
  <2> HIDE DEF fed
  <2> QED BY <1>2, PumpReady DEF Time
<1>4. fed.opened => Ready(fed, at)
  <2> HIDE DEF fed
  <2> QED BY <1>2 DEF Ready, Settled, Time
<1>5. /\ ReceiveTunnel(s, d, at, o) \in {s, Pump(fed, o)}
      /\ ReceiveDeferredTunnel(s, d, at, o) = IF s.finished THEN s ELSE
                                               IF fed.opened THEN fed ELSE Pump(fed, o)
  BY DEF ReceiveTunnel, ReceiveDeferredTunnel
<1> HIDE DEF fed
<1> QED BY <1>3, <1>4, <1>5

LEMMA HandleTimeoutsSound ==
    ASSUME NEW s, Sound(s), ~s.err, NEW o \in Outcome
    PROVE  LET r == HandleTimeouts(s, o) IN Sound(r) /\ ~r.err /\ r.last_now = s.last_now
<1> DEFINE lost == o.lost # "no" /\ s.assoc \in {"handshaking", "established"}
           purged == lost /\ o.lost = "purged"
           pa == s.paired /\ ~o.iceFails
           dt == s.dtlsOut \/ (s.dtls_started /\ ~s.dtls_connected)
           as == IF lost THEN "closed" ELSE s.assoc
           pe == IF lost THEN s.pend \cup {"lost"} ELSE s.pend
           rq == IF purged THEN <<>> ELSE s.rq
           st == IF purged THEN "none" ELSE s.stream
           ou == s.sctpOut \/ s.buffered > 0
           bu == IF purged THEN 0 ELSE s.buffered
           r == [s EXCEPT !.iceOut = TRUE, !.paired = pa, !.dtlsOut = dt, !.assoc = as,
                          !.pend = pe, !.rq = rq, !.stream = st, !.sctpOut = ou,
                          !.buffered = bu]
<1>1. HandleTimeouts(s, o) = r
  BY DEF HandleTimeouts
<1>2. /\ s.pend \in SUBSET {"connected", "readable", "lost"} /\ s.rq \in Seq(InMessage)
      /\ s.stream \in {"none", "default", "configured"} /\ s.buffered \in Nat
      /\ s.assoc \in {"none", "handshaking", "established", "closed"}
  BY DEF Sound, Tunnel
<1>3. pa \in BOOLEAN /\ dt \in BOOLEAN /\ ou \in BOOLEAN /\ (pa => s.paired)
  OBVIOUS
<1>4. /\ as \in {"none", "handshaking", "established", "closed"}
      /\ pe \in SUBSET {"connected", "readable", "lost"}
      /\ rq \in Seq(InMessage)
      /\ st \in {"none", "default", "configured"} /\ bu \in Nat
  BY <1>2
<1>5. /\ as # "none" => s.assoc # "none"
      /\ s.assoc \in {"established", "closed"} => as \in {"established", "closed"}
      /\ pe # {} => as # "none"
      /\ "connected" \in pe => as \in {"established", "closed"}
  BY DEF Sound, Core
<1> HIDE DEF pa, dt, as, pe, rq, st, ou, bu
<1>6. r \in Tunnel
  BY <1>3, <1>4, ZenonT(60) DEF Sound, Tunnel
<1>7. PhasesOf(r)
  BY <1>5 DEF Sound, Core, PhasesOf, Tunnel
<1>8. TraceOf(r)
  BY DEF Sound, Core, TraceOf, Tunnel
<1>9. Core(r)
  BY <1>3, <1>5, <1>7, <1>8 DEF Sound, Core, Tunnel
<1>10. ~r.err /\ r.last_now = s.last_now
  BY DEF Sound, Tunnel
<1> QED BY <1>1, <1>6, <1>9, <1>10 DEF Sound

LEMMA TickReady ==
    ASSUME NEW s, NEW at \in Time, Ready(s, at), NEW o \in Outcome
    PROVE  Ready(TickTunnel(s, at, o), at)
<1> DEFINE m == [s EXCEPT !.last_now = at]
           h == HandleTimeouts(m, o)
           pumped == Pump(h, o)
<1>1. Sound(m) /\ ~m.err /\ m.last_now = at
  BY ClockSound
<1>2. Sound(h) /\ ~h.err /\ h.last_now = at
  <2> HIDE DEF m
  <2> QED BY <1>1, HandleTimeoutsSound
<1>3. Sound(pumped) /\ ~pumped.err /\ pumped.pend = {} /\ pumped.iceEvent = NoTime
      /\ pumped.last_now = at
  <2> HIDE DEF h
  <2> QED BY <1>2, PumpSound
<1>4. TickTunnel(s, at, o) \in {s, pumped, Finish(pumped, "Timeout")}
  BY DEF TickTunnel
<1> HIDE DEF pumped
<1>5. "Timeout" \in CloseReason
  BY DEF CloseReason
<1>6. Ready(pumped, at) /\ Ready(Finish(pumped, "Timeout"), at)
  BY <1>3, <1>5, FinishSound DEF Ready, Settled, Keeps, Frame, Time
<1> QED BY <1>4, <1>6

\* write_sctp: the message is in SCTP's buffer.
LEMMA WrittenSound ==
    ASSUME NEW s, NEW at \in Time, Ready(s, at), NEW n \in Nat
    PROVE  LET written == [s EXCEPT !.buffered = @ + WireLength(n), !.sctpOut = TRUE] IN
           Sound(written) /\ Frame(s, written)
<1> DEFINE written == [s EXCEPT !.buffered = @ + WireLength(n), !.sctpOut = TRUE]
<1>1. s.buffered + WireLength(n) \in Nat
  BY DEF WireLength, Ready, Sound, Tunnel
<1>2. written \in Tunnel
  BY <1>1 DEF Ready, Sound, Tunnel
<1>3. Core(written) /\ Frame(s, written)
  BY DEF Ready, Sound, Core, PhasesOf, TraceOf, Tunnel, Frame
<1> QED BY <1>2, <1>3 DEF Sound

LEMMA SendReady ==
    ASSUME NEW s, NEW at \in Time, Ready(s, at), NEW n \in Nat, NEW o \in Outcome
    PROVE  Ready(SendTunnel(s, n, o), at)
<1>1. CASE SendOutcome(s, n) # "Accepted"
  BY <1>1 DEF SendTunnel
<1>2. CASE SendOutcome(s, n) = "Accepted"
  <2> DEFINE written == [s EXCEPT !.buffered = @ + WireLength(n), !.sctpOut = TRUE]
             x == DrainChannel(written)
             y == [x EXCEPT !.err = FALSE]
             sent == DrainSctpTransmits(y, o)
             z == [sent EXCEPT !.err = FALSE]
             r == DrainDtlsTransmits(z)
  <2>3. Sound(written) /\ Frame(s, written)
    BY WrittenSound
  <2>4. Sound(x) /\ Frame(s, x)
    <3> HIDE DEF written
    <3> QED BY <2>3, DrainChannelSound DEF Frame
  <2>5. Sound(y) /\ Frame(s, y)
    <3> HIDE DEF x
    <3> QED BY <2>4, ErrSound DEF Frame
  <2>6. Sound(sent) /\ Frame(s, sent)
    <3> HIDE DEF y
    <3> QED BY <2>5, DrainSctpTransmitsSound DEF Frame
  <2>7. Sound(z) /\ Frame(s, z) /\ ~z.err
    <3> HIDE DEF sent
    <3> QED BY <2>6, ErrSound DEF Frame
  <2>8. Sound(r) /\ Frame(s, r) /\ ~r.err
    <3> HIDE DEF z
    <3> QED BY <2>7, DrainDtlsTransmitsSound DEF Keeps, Frame
  <2>9. SendTunnel(s, n, o) = r
    BY <1>2 DEF SendTunnel
  <2>10. s.opened
    BY <1>2 DEF SendOutcome
  <2> HIDE DEF r
  <2>11. Settled(r)
    BY <2>8, <2>10 DEF Settled, Frame
  <2> QED BY <2>8, <2>9, <2>11 DEF Ready, Frame
<1> QED BY <1>1, <1>2

LEMMA CloseReady ==
    ASSUME NEW s, NEW at \in Time, Ready(s, at)
    PROVE  Ready(CloseTunnel(s), at)
<1> DEFINE p == [s EXCEPT !.paired = FALSE]
<1>1. Sound(p) /\ ~p.err /\ p.pend = s.pend /\ p.iceEvent = s.iceEvent
      /\ p.opened = s.opened /\ p.last_now = s.last_now
  BY ZenonT(60) DEF Ready, Sound, Core, PhasesOf, TraceOf, Tunnel
<1>2. "Local" \in CloseReason
  BY DEF CloseReason
<1> HIDE DEF p
<1>3. Sound(Finish(p, "Local")) /\ Keeps(p, Finish(p, "Local"))
  BY <1>1, <1>2, FinishSound
<1>4. Ready(Finish(p, "Local"), at)
  BY <1>1, <1>3 DEF Ready, Settled, Keeps, Frame
<1> QED BY <1>4 DEF CloseTunnel, p

-----------------------------------------------------------------------------
(* The inductive invariant.                                                *)

LEMMA InitReady == Init => TypeOK /\ Ready(t, now)
<1> SUFFICES ASSUME Init PROVE TypeOK /\ Ready(t, now)
  OBVIOUS
<1>1. t \in Tunnel
  BY TunnelAssumption DEF Init, Tunnel, Trace, Time, NoTime
<1>2. Core(t) /\ Settled(t) /\ t.last_now <= now /\ ~t.err
  BY DEF Init, Core, PhasesOf, TraceOf, Settled, NoTime
<1>3. now \in Time /\ inputs \in Nat /\ delivered \in Seq(Event)
  BY DEF Init, Time
<1> QED BY <1>1, <1>2, <1>3 DEF TypeOK, Ready, Sound

LEMMA NextReady ==
    ASSUME TypeOK, Ready(t, now), [Next]_vars
    PROVE  TypeOK' /\ Ready(t, now)'
<1> USE TunnelAssumption
<1>1. Ready(t', now') /\ now' \in Time /\ inputs' \in Nat /\ delivered' \in Seq(Event)
      => TypeOK' /\ Ready(t, now)'
  BY DEF TypeOK, Ready, Sound, Core, PhasesOf, TraceOf, Settled
<1>2. now \in Time /\ inputs \in Nat /\ delivered \in Seq(Event)
  BY DEF TypeOK
<1>3. ASSUME NEW d \in Datagrams, NEW o \in Outcomes, Receive(d, o) \/ ReceiveDeferred(d, o)
      PROVE  TypeOK' /\ Ready(t, now)'
  <2>1. d \in Datagram /\ o \in Outcome
    OBVIOUS
  <2>2. t' \in {ReceiveTunnel(t, d, now, o), ReceiveDeferredTunnel(t, d, now, o)}
    BY <1>3 DEF Receive, ReceiveDeferred
  <2>3. Ready(t', now)
    BY <1>2, <2>1, <2>2, ReceiveReady
  <2>4. now' = now /\ inputs' \in Nat /\ delivered' = delivered
    BY <1>2, <1>3 DEF Receive, ReceiveDeferred
  <2> QED BY <1>1, <1>2, <2>3, <2>4
<1>4. ASSUME NEW o \in Outcomes, FinishInputBatch(o)
      PROVE  TypeOK' /\ Ready(t, now)'
  <2>1. Ready(Pump(t, o), now)
    BY <1>2, PumpReady DEF Ready
  <2>2. t' \in {t, Pump(t, o)} /\ UNCHANGED <<now, inputs, delivered>>
    BY <1>4 DEF FinishInputBatch, FinishInputBatchTunnel
  <2> QED BY <1>1, <1>2, <2>1, <2>2
<1>5. ASSUME NEW lib \in LibTimers, NEW o \in Outcomes, Tick(lib, o)
      PROVE  TypeOK' /\ Ready(t, now)'
  <2>1. Ready(TickTunnel(t, now, o), now)
    BY <1>2, TickReady
  <2> QED BY <1>1, <1>2, <1>5, <2>1 DEF Tick
<1>6. ASSUME NEW n \in Sizes, NEW o \in Outcomes, Send(n, o)
      PROVE  TypeOK' /\ Ready(t, now)'
  <2>1. n \in Nat /\ o \in Outcome
    OBVIOUS
  <2>2. Ready(SendTunnel(t, n, o), now)
    BY <1>2, <2>1, SendReady
  <2> QED BY <1>1, <1>2, <1>6, <2>2 DEF Send
<1>7. ASSUME Close
      PROVE  TypeOK' /\ Ready(t, now)'
  BY <1>1, <1>2, <1>7, CloseReady DEF Close
<1>8. ASSUME PollEvent
      PROVE  TypeOK' /\ Ready(t, now)'
  <2>1. t.events \in Seq(Event) /\ t.events # <<>>
    BY <1>8 DEF PollEvent, Ready, Sound, Tunnel
  <2>2. Tail(t.events) \in Seq(Event) /\ Head(t.events) \in Event
    BY <2>1
  <2> DEFINE r == [t EXCEPT !.events = Tail(t.events)]
  <2>3. Sound(r) /\ Keeps(t, r) /\ r.opened = t.opened
    BY <2>2, EventsUpdate DEF Ready
  <2>4. t' = r /\ now' = now /\ inputs' = inputs /\ delivered' \in Seq(Event)
    BY <1>2, <1>8, <2>2 DEF PollEvent
  <2> HIDE DEF r
  <2>5. Ready(r, now)
    BY <2>3 DEF Ready, Settled, Keeps, Frame
  <2> QED BY <1>1, <1>2, <2>4, <2>5
<1>9. ASSUME NEW cap \in Caps, SetSendBufferCap(cap)
      PROVE  TypeOK' /\ Ready(t, now)'
  <2> DEFINE r == [t EXCEPT !.send_buffer_cap = cap]
  <2>1. cap \in Nat
    OBVIOUS
  <2>2. Sound(r) /\ Keeps(t, r)
    BY <2>1, SettingUpdates DEF Ready
  <2>3. t' = r /\ UNCHANGED <<now, inputs, delivered>>
    BY <1>9 DEF SetSendBufferCap
  <2> HIDE DEF r
  <2>4. Ready(r, now)
    BY <2>2 DEF Ready, Settled, Keeps, Frame
  <2> QED BY <1>1, <1>2, <2>3, <2>4
<1>10. ASSUME NEW f \in Fingerprints, ApplyRemoteAnswer(f)
       PROVE  TypeOK' /\ Ready(t, now)'
  <2> DEFINE r == [t EXCEPT !.remote_fingerprint = f]
  <2>1. Sound(r) /\ Keeps(t, r)
    BY SettingUpdates DEF Ready
  <2>2. t' = r /\ UNCHANGED <<now, inputs, delivered>>
    BY <1>10 DEF ApplyRemoteAnswer
  <2> HIDE DEF r
  <2>3. Ready(r, now)
    BY <2>1 DEF Ready, Settled, Keeps, Frame
  <2> QED BY <1>1, <1>2, <2>2, <2>3
<1>11. ASSUME Advance
       PROVE  TypeOK' /\ Ready(t, now)'
  <2>1. t.last_now \in Time
    BY DEF Ready, Sound, Tunnel
  <2>2. t' = t /\ now' = now + 1 /\ UNCHANGED <<inputs, delivered>>
    BY <1>11 DEF Advance
  <2>3. Ready(t, now + 1)
    BY <1>2, <2>1 DEF Ready, Time
  <2> QED BY <1>1, <1>2, <2>2, <2>3 DEF Time
<1>12. ASSUME UNCHANGED vars
       PROVE  TypeOK' /\ Ready(t, now)'
  BY <1>1, <1>2, <1>12 DEF vars
<1> QED BY <1>3, <1>4, <1>5, <1>6, <1>7, <1>8, <1>9, <1>10, <1>11, <1>12 DEF Next

\* Between any two calls every field of the tunnel has its type and no Err is
\* left over.
THEOREM TypeCorrect == Spec => []TypeOK
<1>1. TypeOK /\ Ready(t, now) /\ [Next]_vars => TypeOK' /\ Ready(t, now)'
  BY NextReady
<1> QED BY InitReady, <1>1, PTL DEF Spec

\* The handshake phases come up strictly in order, whatever the peer sends,
\* whichever library call fails and however the host interleaves its calls.
THEOREM PhasesInOrder == Spec => []PhaseOrder
<1>1. TypeOK /\ Ready(t, now) /\ [Next]_vars => TypeOK' /\ Ready(t, now)'
  BY NextReady
<1>2. Ready(t, now) => PhaseOrder
  BY DEF Ready, Sound, Core, PhaseOrder
<1> QED BY InitReady, <1>1, <1>2, PTL DEF Spec

\* While the handshake runs, no event of ICE or of the association waits for a
\* later pump, even after a pump that failed half-way.
THEOREM HandshakeIsDriven == Spec => []NothingWaitsBeforeOpen
<1>1. TypeOK /\ Ready(t, now) /\ [Next]_vars => TypeOK' /\ Ready(t, now)'
  BY NextReady
<1>2. Ready(t, now) => NothingWaitsBeforeOpen
  BY DEF Ready, Settled, NothingWaitsBeforeOpen
<1> QED BY InitReady, <1>1, <1>2, PTL DEF Spec

\* The handshake trace records exactly the phases reached, with times that
\* never go backwards.
THEOREM TraceIsMonotone == Spec => []TraceMonotone
<1>1. TypeOK /\ Ready(t, now) /\ [Next]_vars => TypeOK' /\ Ready(t, now)'
  BY NextReady
<1>2. Ready(t, now) => TraceMonotone
  BY DEF Ready, Sound, Core, TraceMonotone
<1> QED BY InitReady, <1>1, <1>2, PTL DEF Spec

=============================================================================
