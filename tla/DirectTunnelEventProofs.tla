---------------------- MODULE DirectTunnelEventProofs ----------------------
(***************************************************************************)
(* Proofs about what DirectTunnel tells its host and what it reads from    *)
(* SCTP, for every role, timeout, size limit, set of datagrams and library *)
(* behaviour.                                                              *)
(*                                                                         *)
(* The argument again follows the call graph.  Most methods are Silent:    *)
(* they produce no event.  The few that speak keep the Story: one Opened,  *)
(* one Closed, and no Closed(Timeout) before tick has pumped.              *)
(***************************************************************************)
EXTENDS DirectTunnelProofs

-----------------------------------------------------------------------------
(* Events of one type in what was polled, d, and what still waits, q.      *)

Some(q, type) == \E i \in DOMAIN q : q[i].type = type
AtMostOne(q, type) == \A i, j \in DOMAIN q : q[i].type = type /\ q[j].type = type => i = j

\* The event has been produced once if flag is set and never if it is not.
Once(d, q, type, flag) ==
    /\ flag <=> Some(d, type) \/ Some(q, type)
    /\ AtMostOne(d, type) /\ AtMostOne(q, type)
    /\ ~(Some(d, type) /\ Some(q, type))

IsTimeout(e) == e.type = "Closed" /\ e.reason = "Timeout"
NoTimeout(q) == \A i \in DOMAIN q : ~IsTimeout(q[i])

LEMMA AppendFacts ==
    ASSUME NEW S, NEW q \in Seq(S), NEW e \in S
    PROVE  /\ Append(q, e) \in Seq(S)
           /\ Len(q) \in Nat /\ DOMAIN q = 1..Len(q)
           /\ DOMAIN Append(q, e) = 1..(Len(q) + 1)
           /\ Append(q, e)[Len(q) + 1] = e
           /\ \A i \in 1..Len(q) : Append(q, e)[i] = q[i]
           /\ \A i \in DOMAIN Append(q, e) : i \in DOMAIN q \/ i = Len(q) + 1
           /\ Len(q) + 1 \notin DOMAIN q
OBVIOUS

LEMMA TailFacts ==
    ASSUME NEW S, NEW q \in Seq(S), q # <<>>
    PROVE  /\ Tail(q) \in Seq(S) /\ Head(q) \in S
           /\ 1 \in DOMAIN q /\ Head(q) = q[1]
           /\ \A i \in DOMAIN Tail(q) : i + 1 \in DOMAIN q /\ Tail(q)[i] = q[i + 1] /\ i \in Nat \ {0}
           /\ \A i \in DOMAIN q : i = 1 \/ (i - 1 \in DOMAIN Tail(q) /\ i \in Nat /\ Tail(q)[i - 1] = q[i])
OBVIOUS

LEMMA ConcatFacts ==
    ASSUME NEW S, NEW q \in Seq(S), NEW m \in Seq(S)
    PROVE  /\ q \o m \in Seq(S)
           /\ Len(q) \in Nat
           /\ \A i \in DOMAIN (q \o m) :
                 \/ i \in DOMAIN q /\ (q \o m)[i] = q[i]
                 \/ i - Len(q) \in DOMAIN m /\ (q \o m)[i] = m[i - Len(q)] /\ i \in Int
           /\ \A i \in DOMAIN q : i \in DOMAIN (q \o m) /\ (q \o m)[i] = q[i]
           /\ \A i \in DOMAIN m : i \in Int /\ i + Len(q) \in DOMAIN (q \o m) /\ (q \o m)[i + Len(q)] = m[i]
OBVIOUS

LEMMA OtherEventOnce ==
    ASSUME NEW d, NEW q \in Seq(Event), NEW e \in Event, NEW type, NEW flag \in BOOLEAN,
           Once(d, q, type, flag), e.type # type
    PROVE  Once(d, Append(q, e), type, flag)
<1> DEFINE r == Append(q, e)
<1>1. /\ \A i \in DOMAIN r : (i \in DOMAIN q /\ r[i] = q[i]) \/ r[i] = e
      /\ \A i \in DOMAIN q : i \in DOMAIN r /\ r[i] = q[i]
  BY AppendFacts
<1> HIDE DEF r
<1>2. Some(r, type) <=> Some(q, type)
  BY <1>1 DEF Some
<1>3. AtMostOne(r, type)
  BY <1>1 DEF Once, AtMostOne
<1> QED BY <1>2, <1>3 DEF Once, r

LEMMA ThisEventOnce ==
    ASSUME NEW d, NEW q \in Seq(Event), NEW e \in Event, NEW type,
           Once(d, q, type, FALSE), e.type = type
    PROVE  Once(d, Append(q, e), type, TRUE)
<1> DEFINE r == Append(q, e)
<1>1. /\ \A i \in DOMAIN r : (i \in DOMAIN q /\ r[i] = q[i]) \/ i = Len(q) + 1
      /\ Len(q) + 1 \in DOMAIN r /\ r[Len(q) + 1] = e
  BY AppendFacts
<1> HIDE DEF r
<1>2. Some(r, type)
  BY <1>1 DEF Some
<1>3. AtMostOne(r, type)
  BY <1>1 DEF Once, AtMostOne, Some
<1> QED BY <1>2, <1>3 DEF Once, r

LEMMA MessagesOnce ==
    ASSUME NEW d, NEW q \in Seq(Event), NEW m \in Seq(Event), NEW type, NEW flag \in BOOLEAN,
           Once(d, q, type, flag), \A i \in DOMAIN m : m[i].type # type
    PROVE  Once(d, q \o m, type, flag)
<1> DEFINE r == q \o m
<1>1. /\ \A i \in DOMAIN r : (i \in DOMAIN q /\ r[i] = q[i]) \/ r[i].type # type
      /\ \A i \in DOMAIN q : i \in DOMAIN r /\ r[i] = q[i]
  BY ConcatFacts
<1> HIDE DEF r
<1>2. Some(r, type) <=> Some(q, type)
  BY <1>1 DEF Some
<1>3. AtMostOne(r, type)
  BY <1>1 DEF Once, AtMostOne
<1> QED BY <1>2, <1>3 DEF Once, r

LEMMA PolledOnce ==
    ASSUME NEW d \in Seq(Event), NEW q \in Seq(Event), q # <<>>, NEW type, NEW flag \in BOOLEAN,
           Once(d, q, type, flag), type # "SendDatagram"
    PROVE  Once(IF Head(q) = SendDatagram THEN d ELSE Append(d, Head(q)), Tail(q), type, flag)
<1> DEFINE r == Tail(q)
           e == Head(q)
           f == Append(d, e)
<1>1. /\ 1 \in DOMAIN q /\ e = q[1] /\ e \in Event
      /\ \A i \in DOMAIN r : i + 1 \in DOMAIN q /\ r[i] = q[i + 1] /\ i \in Nat \ {0}
      /\ \A i \in DOMAIN q : i = 1 \/ (i - 1 \in DOMAIN r /\ r[i - 1] = q[i])
  BY TailFacts
<1>2. /\ \A i \in DOMAIN f : (i \in DOMAIN d /\ f[i] = d[i]) \/ (i = Len(d) + 1 /\ f[i] = e)
      /\ \A i \in DOMAIN d : i \in DOMAIN f /\ f[i] = d[i]
      /\ Len(d) + 1 \in DOMAIN f /\ f[Len(d) + 1] = e
  BY <1>1, AppendFacts
<1> HIDE DEF r, e, f
<1>3. Some(q, type) <=> e.type = type \/ Some(r, type)
  BY <1>1 DEF Some
<1>4. AtMostOne(r, type) /\ (e.type = type => ~Some(r, type))
  <2>1. AtMostOne(q, type)
    BY DEF Once
  <2>2. AtMostOne(r, type)
    <3> SUFFICES ASSUME NEW i \in DOMAIN r, NEW j \in DOMAIN r, r[i].type = type, r[j].type = type
                 PROVE  i = j
      BY DEF AtMostOne
    <3>1. i + 1 \in DOMAIN q /\ j + 1 \in DOMAIN q /\ q[i + 1].type = type /\ q[j + 1].type = type
          /\ i \in Nat /\ j \in Nat
      BY <1>1
    <3>2. i + 1 = j + 1
      BY <2>1, <3>1 DEF AtMostOne
    <3> QED BY <3>1, <3>2
  <2>3. ASSUME e.type = type, NEW i \in DOMAIN r, r[i].type = type
        PROVE  FALSE
    <3>1. i + 1 = 1 /\ i \in Nat \ {0}
      BY <1>1, <2>1, <2>3 DEF AtMostOne
    <3> QED BY <3>1
  <2> QED BY <2>2, <2>3 DEF Some
<1>5. Some(f, type) <=> Some(d, type) \/ e.type = type
  BY <1>2 DEF Some
<1>6. ~(Some(d, type) /\ e.type = type) => AtMostOne(f, type)
  BY <1>2 DEF Once, AtMostOne, Some
<1>7. e = SendDatagram => e.type # type
  BY DEF SendDatagram
<1>8. Once(f, r, type, flag)
  BY <1>3, <1>4, <1>5, <1>6 DEF Once
<1>9. e = SendDatagram => Once(d, r, type, flag)
  BY <1>3, <1>4, <1>7 DEF Once
<1> QED BY <1>8, <1>9 DEF r, e, f

\* What Once says of the two halves is what LifecycleOnce says of the log.
LEMMA OnceCounts ==
    ASSUME NEW d \in Seq(Event), NEW q \in Seq(Event), NEW type, NEW flag \in BOOLEAN,
           Once(d, q, type, flag)
    PROVE  Cardinality({i \in DOMAIN (d \o q) : (d \o q)[i].type = type}) = IF flag THEN 1 ELSE 0
<1> DEFINE l == d \o q
           T == {i \in DOMAIN l : l[i].type = type}
<1>1. /\ \A i \in DOMAIN l : \/ i \in DOMAIN d /\ l[i] = d[i]
                             \/ i - Len(d) \in DOMAIN q /\ l[i] = q[i - Len(d)] /\ i \in Int
      /\ \A i \in DOMAIN d : i \in DOMAIN l /\ l[i] = d[i]
      /\ \A i \in DOMAIN q : i + Len(d) \in DOMAIN l /\ l[i + Len(d)] = q[i]
      /\ Len(d) \in Nat
  BY ConcatFacts
<1> HIDE DEF l
<1>2. \A i, j \in T : i = j
  <2> SUFFICES ASSUME NEW i \in T, NEW j \in T PROVE i = j
    OBVIOUS
  <2>1. CASE i \in DOMAIN d /\ l[i] = d[i]
    BY <1>1, <2>1 DEF Once, AtMostOne, Some
  <2>2. CASE i - Len(d) \in DOMAIN q /\ l[i] = q[i - Len(d)] /\ i \in Int
    <3>1. j - Len(d) \in DOMAIN q /\ l[j] = q[j - Len(d)] /\ j \in Int
      BY <1>1, <2>2 DEF Once, Some
    <3>2. i - Len(d) = j - Len(d)
      BY <2>2, <3>1 DEF Once, AtMostOne
    <3> QED BY <1>1, <2>2, <3>1, <3>2
  <2> QED BY <1>1, <2>1, <2>2
<1>3. T # {} <=> flag
  BY <1>1 DEF Once, Some
<1>4. CASE flag
  <2> PICK x \in T : TRUE
    BY <1>3, <1>4
  <2>1. T = {x}
    BY <1>2
  <2>2. Cardinality({x}) = 1
    BY FS_Singleton
  <2> HIDE DEF T
  <2> QED BY <1>4, <2>1, <2>2 DEF T, l
<1>5. CASE ~flag
  <2>1. T = {}
    BY <1>3, <1>5
  <2>2. Cardinality({}) = 0
    BY FS_EmptySet
  <2> HIDE DEF T
  <2> QED BY <1>5, <2>1, <2>2 DEF T, l
<1> QED BY <1>4, <1>5

-----------------------------------------------------------------------------
(* The story so far, and the methods that do not add to it.                *)

\* While a call runs: what has been produced matches opened and finished, and
\* no timeout has been reported.
Story(d, s) ==
    /\ Once(d, s.events, "Opened", s.opened)
    /\ Once(d, s.events, "Closed", s.finished)
    /\ NoTimeout(s.events)

Silent(s, r) == r.events = s.events /\ r.opened = s.opened /\ r.finished = s.finished

LEMMA SilentStory ==
    ASSUME NEW d, NEW s, NEW r, Story(d, s), Silent(s, r)
    PROVE  Story(d, r)
BY DEF Story, Silent

LEMMA SilentDrains ==
    ASSUME NEW s, Sound(s), NEW o
    PROVE  /\ Silent(s, [s EXCEPT !.err = FALSE])
           /\ Silent(s, DrainIceEvents(s))
           /\ Silent(s, DrainChannel(s))
           /\ Silent(s, DrainSctpTransmits(s, o))
           /\ Silent(s, EnsureDtls(s, o))
<1>1. Silent(s, [s EXCEPT !.err = FALSE])
  BY DEF Silent, Sound, Tunnel
<1>2. Silent(s, DrainIceEvents(s))
  BY DEF Silent, Sound, Tunnel, DrainIceEvents
<1>3. Silent(s, DrainChannel(s))
  BY DEF Silent, Sound, Tunnel, DrainChannel, OpenStream
<1>4. Silent(s, DrainSctpTransmits(s, o))
  BY DEF Silent, Sound, Tunnel, DrainSctpTransmits
<1>5. Silent(s, EnsureDtls(s, o))
  BY DEF Silent, Sound, Tunnel, EnsureDtls, ActivateDtls
<1> QED BY <1>1, <1>2, <1>3, <1>4, <1>5

LEMMA DtlsStepSilent ==
    ASSUME NEW s, Sound(s), NEW e, NEW at, NEW o
    PROVE  Silent(s, DtlsStep(s, e, at, o))
<1>1. \A p : Silent(s, FeedSctp(s, p))
  BY DEF Silent, Sound, Tunnel, FeedSctp, HandleAssociationEvent
<1> DEFINE done == [s EXCEPT !.dtls_connected = TRUE, !.trace.dtls = First(@, at),
                             !.dtlsOut = TRUE]
<1>2. Silent(s, done) /\ Silent(s, StartSctp(done, o))
  BY DEF Silent, Sound, Tunnel, StartSctp
<1>3. Silent(s, [s EXCEPT !.dtlsOut = TRUE]) /\ Silent(s, s)
  BY DEF Silent, Sound, Tunnel
<1>4. DtlsStep(s, e, at, o) \in {s, [s EXCEPT !.dtlsOut = TRUE], done, StartSctp(done, o),
                                 FeedSctp(s, e.packet)}
  BY DEF DtlsStep
<1> HIDE DEF done
<1> QED BY <1>1, <1>2, <1>3, <1>4

\* A datagram changes nothing the host hears of until it is pumped.
LEMMA IngestSilent ==
    ASSUME NEW s, Sound(s), ~s.err, Settled(s), NEW d \in Datagram,
           NEW at, at = s.last_now, NEW o \in Outcome
    PROVE  Silent(s, Ingest(s, d, at, o))
<1> DEFINE m == EnsureDtls(s, o)
           x == DtlsStep(m, d.first, at, o)
           y == DtlsStep(x, d.second, at, o)
           fed == IF d.kind = "stun" THEN FeedIce(s, d, at)
                  ELSE IF d.kind = "dtls" /\ s.paired THEN FeedDtls(m, d, at, o)
                  ELSE s
<1>1. /\ Sound(m) /\ Silent(s, m) /\ m.iceEvent = s.iceEvent /\ m.last_now = s.last_now
      /\ m.opened = s.opened
  BY EnsureDtlsSound, SilentDrains DEF Keeps, Frame
<1>2. ~m.dtls_connected => m.iceEvent = NoTime
  <2> HIDE DEF m
  <2>1. m.opened => m.dtls_connected
    BY <1>1 DEF Sound, Core, PhasesOf
  <2> QED BY <1>1, <2>1 DEF Settled
<1>3. ASSUME d.kind = "dtls"
      PROVE  Silent(s, FeedDtls(m, d, at, o)) /\ Sound(FeedDtls(m, d, at, o))
  <2>1. d.first \in DtlsEvent /\ d.second \in DtlsEvent
    BY <1>3 DEF Datagram
  <2> HIDE DEF m
  <2>2. Sound(x) /\ Silent(m, x)
    BY <1>1, <1>2, <2>1, DtlsStepSound, DtlsStepSilent
  <2>3. Silent(x, y)
    <3> HIDE DEF x
    <3> QED BY <2>2, DtlsStepSilent
  <2>4. Silent(m, [m EXCEPT !.err = TRUE])
    BY <1>1 DEF Silent, Sound, Tunnel
  <2>5. FeedDtls(m, d, at, o) \in {[m EXCEPT !.err = TRUE], y}
    BY DEF FeedDtls
  <2>6. Sound(FeedDtls(m, d, at, o))
    BY <1>1, <1>2, <1>3, FeedDtlsSound
  <2> HIDE DEF x, y
  <2> QED BY <1>1, <2>2, <2>3, <2>4, <2>5, <2>6 DEF Silent
<1>4. Silent(s, FeedIce(s, d, at)) /\ Sound(FeedIce(s, d, at))
  <2>1. Silent(s, FeedIce(s, d, at))
    BY DEF Silent, Sound, Tunnel, FeedIce
  <2> QED BY <2>1, FeedIceSound
<1>5. Silent(s, fed) /\ Sound(fed)
  <2> HIDE DEF m
  <2> QED BY <1>3, <1>4 DEF Silent
<1>6. Ingest(s, d, at, o) = IF fed.err THEN [fed EXCEPT !.err = FALSE, !.dropped_datagrams = @ + 1]
                            ELSE fed
  BY DEF Ingest
<1> HIDE DEF fed
<1>7. Silent(fed, [fed EXCEPT !.err = FALSE, !.dropped_datagrams = @ + 1])
  BY <1>5 DEF Silent, Sound, Tunnel
<1> QED BY <1>5, <1>6, <1>7 DEF Silent

LEMMA HandleTimeoutsSilent ==
    ASSUME NEW s, Sound(s), NEW o
    PROVE  Silent(s, HandleTimeouts(s, o))
BY DEF Silent, Sound, Tunnel, HandleTimeouts

-----------------------------------------------------------------------------
(* The methods that speak.                                                 *)

LEMMA PushFields ==
    ASSUME NEW s, Sound(s), NEW e \in Event
    PROVE  /\ Push(s, e).events = Append(s.events, e)
           /\ Push(s, e).opened = s.opened /\ Push(s, e).finished = s.finished
           /\ s.events \in Seq(Event) /\ s.opened \in BOOLEAN /\ s.finished \in BOOLEAN
BY DEF Push, Sound, Tunnel

LEMMA NoTimeoutAppend ==
    ASSUME NEW q \in Seq(Event), NEW e \in Event, NoTimeout(q), ~IsTimeout(e)
    PROVE  NoTimeout(Append(q, e))
BY AppendFacts DEF NoTimeout

\* A datagram to send is no part of the story.
LEMMA DatagramStory ==
    ASSUME NEW d, NEW s, Sound(s), Story(d, s)
    PROVE  /\ Story(d, Push(s, SendDatagram))
           /\ Story(d, DrainIceWrites(s))
           /\ Story(d, DrainDtlsTransmits(s))
<1> DEFINE p == Push(s, SendDatagram)
<1>1. /\ SendDatagram \in Event /\ ~IsTimeout(SendDatagram)
      /\ SendDatagram.type # "Opened" /\ SendDatagram.type # "Closed"
  BY EventTypes DEF SendDatagram, IsTimeout
<1>2. /\ p.events = Append(s.events, SendDatagram)
      /\ p.opened = s.opened /\ p.finished = s.finished
      /\ s.events \in Seq(Event) /\ s.opened \in BOOLEAN /\ s.finished \in BOOLEAN
      /\ Sound(p)
  BY <1>1, PushFields, PushSound
<1> HIDE DEF p
<1>3. /\ Once(d, Append(s.events, SendDatagram), "Opened", s.opened)
      /\ Once(d, Append(s.events, SendDatagram), "Closed", s.finished)
  BY <1>1, <1>2, OtherEventOnce DEF Story
<1>4. NoTimeout(Append(s.events, SendDatagram))
  BY <1>1, <1>2, NoTimeoutAppend DEF Story
<1>5. Story(d, p)
  BY <1>2, <1>3, <1>4 DEF Story
<1>6. Silent(p, [p EXCEPT !.iceOut = FALSE]) /\ Silent(p, [p EXCEPT !.dtlsOut = FALSE])
  BY <1>2 DEF Silent, Sound, Tunnel
<1>7. Story(d, [p EXCEPT !.iceOut = FALSE]) /\ Story(d, [p EXCEPT !.dtlsOut = FALSE])
  BY <1>5, <1>6, SilentStory
<1>8. /\ DrainIceWrites(s) \in {s, [p EXCEPT !.iceOut = FALSE]}
      /\ DrainDtlsTransmits(s) \in {s, [p EXCEPT !.dtlsOut = FALSE]}
  BY DEF DrainIceWrites, DrainDtlsTransmits, p
<1> QED BY <1>5, <1>7, <1>8 DEF p

LEMMA MaybeOpenStory ==
    ASSUME NEW d, NEW s, Sound(s), Story(d, s)
    PROVE  Story(d, MaybeOpen(s)) /\ MaybeOpen(s).finished = s.finished
<1> DEFINE p == Push(s, Opened)
           r == [p EXCEPT !.opened = TRUE, !.trace.opened = First(@, s.last_now)]
<1>1. Opened \in Event /\ ~IsTimeout(Opened) /\ Opened.type = "Opened" /\ Opened.type # "Closed"
  BY EventTypes DEF Opened, IsTimeout
<1>2. /\ p.events = Append(s.events, Opened) /\ p.finished = s.finished
      /\ s.events \in Seq(Event) /\ s.opened \in BOOLEAN /\ s.finished \in BOOLEAN
      /\ Sound(p)
  BY <1>1, PushFields, PushSound
<1> HIDE DEF p
<1>3. r.events = Append(s.events, Opened) /\ r.opened = TRUE /\ r.finished = s.finished
  BY <1>2 DEF Sound, Tunnel
<1>4. Once(d, Append(s.events, Opened), "Closed", s.finished)
  BY <1>1, <1>2, OtherEventOnce DEF Story
<1>5. ~s.opened => Once(d, Append(s.events, Opened), "Opened", TRUE)
  <2> SUFFICES ASSUME ~s.opened PROVE Once(d, Append(s.events, Opened), "Opened", TRUE)
    OBVIOUS
  <2>1. s.opened = FALSE
    BY <1>2
  <2>2. Once(d, s.events, "Opened", FALSE)
    BY <2>1 DEF Story
  <2> QED BY <1>1, <1>2, <2>2, ThisEventOnce
<1>6. NoTimeout(Append(s.events, Opened))
  BY <1>1, <1>2, NoTimeoutAppend DEF Story
<1>7. ~s.opened => Story(d, r)
  <2> HIDE DEF r
  <2> QED BY <1>3, <1>4, <1>5, <1>6 DEF Story
<1>8. MaybeOpen(s) = IF ~s.opened /\ s.sctp_connected /\ s.channel_dialed THEN r ELSE s
  BY DEF MaybeOpen, p
<1> HIDE DEF r
<1> QED BY <1>3, <1>7, <1>8

\* finish tells once; a timeout may be reported only after everything else.
LEMMA FinishStory ==
    ASSUME NEW d, NEW s, Sound(s), Story(d, s), NEW reason \in CloseReason
    PROVE  LET r == Finish(s, reason) IN
           /\ Once(d, r.events, "Opened", r.opened)
           /\ Once(d, r.events, "Closed", r.finished)
           /\ r.opened = s.opened /\ r.last_now = s.last_now /\ r.finished
           /\ reason # "Timeout" => NoTimeout(r.events)
<1> DEFINE e == Closed(reason)
           p == Push(s, e)
           r == [p EXCEPT !.finished = TRUE]
<1>1. e \in Event /\ e.type = "Closed" /\ e.type # "Opened" /\ e.reason = reason
  BY EventTypes DEF Closed
<1> HIDE DEF e
<1>2. /\ p.events = Append(s.events, e) /\ p.opened = s.opened
      /\ s.events \in Seq(Event) /\ s.opened \in BOOLEAN /\ s.finished \in BOOLEAN
      /\ Sound(p) /\ p.last_now = s.last_now
  BY <1>1, PushFields, PushSound DEF Keeps, Frame
<1> HIDE DEF p
<1>3. r.events = Append(s.events, e) /\ r.opened = s.opened /\ r.finished = TRUE
      /\ r.last_now = s.last_now
  BY <1>2 DEF Sound, Tunnel
<1>4. Once(d, Append(s.events, e), "Opened", s.opened)
  BY <1>1, <1>2, OtherEventOnce DEF Story
<1>5. ~s.finished => Once(d, Append(s.events, e), "Closed", TRUE)
  <2> SUFFICES ASSUME ~s.finished PROVE Once(d, Append(s.events, e), "Closed", TRUE)
    OBVIOUS
  <2>1. s.finished = FALSE
    BY <1>2
  <2>2. Once(d, s.events, "Closed", FALSE)
    BY <2>1 DEF Story
  <2> QED BY <1>1, <1>2, <2>2, ThisEventOnce
<1>6. reason # "Timeout" => NoTimeout(Append(s.events, e))
  BY <1>1, <1>2, NoTimeoutAppend DEF Story, IsTimeout
<1>7. Finish(s, reason) = IF s.finished THEN s ELSE r
  BY DEF Finish, p, e
<1> HIDE DEF r
<1> QED BY <1>3, <1>4, <1>5, <1>6, <1>7 DEF Story

LEMMA ReadStreamStory ==
    ASSUME NEW d, NEW s, Sound(s), Story(d, s)
    PROVE  Story(d, ReadStream(s))
<1> DEFINE n == ReadCount(s.rq)
           m == [i \in 1..n |-> Message(Payload(s.rq[i]))]
           r == ReadStream(s)
<1>1. /\ s.rq \in Seq(InMessage) /\ s.events \in Seq(Event)
      /\ s.opened \in BOOLEAN /\ s.finished \in BOOLEAN
  BY DEF Sound, Tunnel
<1>2. n \in Nat /\ n <= Len(s.rq)
  BY <1>1, ReadCountType
<1>3. \A i \in 1..n : Message(Payload(s.rq[i])) \in Event
  <2>1. ASSUME NEW i \in 1..n PROVE Payload(s.rq[i]) \in Nat
    <3>1. s.rq[i] \in InMessage
      BY <1>1, <1>2
    <3> QED BY <3>1 DEF InMessage, Payload
  <2> QED BY <2>1, EventTypes
<1>4. m \in Seq(Event) /\ DOMAIN m = 1..n
  <2> HIDE DEF n
  <2> QED BY <1>2, <1>3
<1>5. \A i \in DOMAIN m : m[i].type = "Message"
  BY <1>4 DEF Message
<1>6. /\ r.opened = s.opened /\ r.finished = s.finished
      /\ r.events = s.events \/ r.events = s.events \o m
  BY DEF ReadStream, Sound, Tunnel
<1> HIDE DEF m, r
<1>7. /\ Once(d, s.events \o m, "Opened", s.opened)
      /\ Once(d, s.events \o m, "Closed", s.finished)
  BY <1>1, <1>4, <1>5, MessagesOnce DEF Story
<1>8. NoTimeout(s.events \o m)
  <2> DEFINE es == s.events \o m
  <2>1. \A i \in DOMAIN es : \/ i \in DOMAIN s.events /\ es[i] = s.events[i]
                            \/ \E j \in DOMAIN m : es[i] = m[j]
    <3>1. \A i \in DOMAIN es :
             \/ i \in DOMAIN s.events /\ es[i] = s.events[i]
             \/ i - Len(s.events) \in DOMAIN m /\ es[i] = m[i - Len(s.events)] /\ i \in Int
      BY <1>1, <1>4, ConcatFacts
    <3> HIDE DEF es
    <3> QED BY <3>1
  <2> HIDE DEF es
  <2> QED BY <1>5, <2>1 DEF Story, NoTimeout, IsTimeout, es
<1> QED BY <1>6, <1>7, <1>8 DEF Story, r

LEMMA DrainSctpStory ==
    ASSUME NEW d, NEW s, Sound(s), Story(d, s)
    PROVE  Story(d, DrainSctp(s))
<1> DEFINE polled == [s EXCEPT !.pend = {}]
           a == IF "connected" \in s.pend
                THEN [polled EXCEPT !.sctp_connected = TRUE, !.trace.sctp = First(@, s.last_now)]
                ELSE polled
           b == IF "lost" \in s.pend THEN Finish(a, "Remote") ELSE a
<1>1. Silent(s, a)
  BY DEF Silent, Sound, Tunnel
<1>2. Sound(a)
  BY PolledSound
<1> HIDE DEF a
<1>3. Story(d, a)
  BY <1>1, SilentStory
<1>4. Story(d, b) /\ Sound(b)
  <2>1. "Remote" \in CloseReason /\ "Remote" # "Timeout"
    BY DEF CloseReason
  <2> QED BY <1>2, <1>3, <2>1, FinishStory, FinishSound DEF Story
<1>5. DrainSctp(s) = IF "readable" \in s.pend THEN ReadStream(b) ELSE b
  BY DEF DrainSctp, a
<1> HIDE DEF b
<1> QED BY <1>4, <1>5, ReadStreamStory

LEMMA PumpStory ==
    ASSUME NEW d, NEW s, Sound(s), Story(d, s), NEW o \in Outcome
    PROVE  Story(d, Pump(s, o))
<1> DEFINE x == DrainIceEvents(s)
           y == DrainIceWrites(x)
           e == EnsureDtls(y, o)
           a == DrainSctp(e)
           b == DrainChannel(a)
           c == DrainSctpTransmits(b, o)
           f == DrainDtlsTransmits(c)
           g == IF e.dtls_started THEN PumpProtocol(e, o) ELSE e
<1>1. Sound(x) /\ Story(d, x)
  BY DrainIceEventsSound, SilentDrains, SilentStory
<1>2. Sound(y) /\ Story(d, y)
  <2> HIDE DEF x
  <2> QED BY <1>1, DrainIceWritesSound, DatagramStory
<1>3. Sound(e) /\ Story(d, e)
  <2> HIDE DEF y
  <2> QED BY <1>2, EnsureDtlsSound, SilentDrains, SilentStory
<1>4. Sound(a) /\ Story(d, a)
  <2> HIDE DEF e
  <2> QED BY <1>3, DrainSctpSound, DrainSctpStory
<1>5. Sound(b) /\ Story(d, b)
  <2> HIDE DEF a
  <2> QED BY <1>4, DrainChannelSound, SilentDrains, SilentStory
<1>6. Sound(c) /\ Story(d, c)
  <2> HIDE DEF b
  <2> QED BY <1>5, DrainSctpTransmitsSound, SilentDrains, SilentStory
<1>7. Sound(f) /\ Story(d, f)
  <2> HIDE DEF c
  <2> QED BY <1>6, DrainDtlsTransmitsSound, DatagramStory
<1>8. g \in {e, a, b, c, f}
  BY DEF PumpProtocol
<1>9. Pump(s, o) = IF g.err THEN [g EXCEPT !.err = FALSE] ELSE MaybeOpen(g)
  BY DEF Pump
<1> HIDE DEF e, a, b, c, f, g
<1>10. Sound(g) /\ Story(d, g)
  BY <1>3, <1>4, <1>5, <1>6, <1>7, <1>8
<1>11. Story(d, [g EXCEPT !.err = FALSE])
  BY <1>10, SilentDrains, SilentStory
<1> QED BY <1>9, <1>10, <1>11, MaybeOpenStory

-----------------------------------------------------------------------------
(* The public methods.                                                     *)

\* A timeout has been reported only of a tunnel that did not open in time.
Honest(d, s) ==
    \/ NoTimeout(d) /\ NoTimeout(s.events)
    \/ s.finished /\ ~s.opened /\ s.last_now >= handshake_deadline

\* What holds between two calls.
Tale(d, s) ==
    /\ Once(d, s.events, "Opened", s.opened)
    /\ Once(d, s.events, "Closed", s.finished)
    /\ Honest(d, s)

\* A call that does anything finds a tunnel that has not reported its end.
LEMMA UnfinishedStory ==
    ASSUME NEW d, NEW s, Sound(s), Tale(d, s), ~s.finished
    PROVE  Story(d, s) /\ NoTimeout(d)
<1>1. ~Some(d, "Closed") /\ ~Some(s.events, "Closed")
  BY DEF Tale, Once
<1>2. NoTimeout(d) /\ NoTimeout(s.events)
  BY <1>1 DEF NoTimeout, IsTimeout, Some
<1> QED BY <1>2 DEF Tale, Story

LEMMA StoryTale ==
    ASSUME NEW d, NEW s, Story(d, s), NoTimeout(d)
    PROVE  Tale(d, s)
BY DEF Story, Tale, Honest

LEMMA ReceiveTale ==
    ASSUME NEW d, NEW s, NEW at \in Time, Ready(s, at), Tale(d, s),
           NEW g \in Datagram, NEW o \in Outcome
    PROVE  Tale(d, ReceiveTunnel(s, g, at, o)) /\ Tale(d, ReceiveDeferredTunnel(s, g, at, o))
<1> DEFINE m == [s EXCEPT !.last_now = at]
           fed == Ingest(m, g, at, o)
<1>1. CASE s.finished
  BY <1>1 DEF ReceiveTunnel, ReceiveDeferredTunnel
<1>2. CASE ~s.finished
  <2>1. Story(d, s) /\ NoTimeout(d)
    BY <1>2, UnfinishedStory DEF Ready
  <2>2. Sound(m) /\ ~m.err /\ Settled(m) /\ m.last_now = at
    BY ClockSound
  <2>3. Silent(s, m)
    BY DEF Silent, Ready, Sound, Tunnel
  <2> HIDE DEF m
  <2>4. Sound(fed) /\ Silent(m, fed)
    BY <2>2, IngestSound, IngestSilent
  <2> HIDE DEF fed
  <2>5. Story(d, fed)
    BY <2>1, <2>3, <2>4, SilentStory
  <2>6. Story(d, Pump(fed, o))
    BY <2>4, <2>5, PumpStory
  <2>7. /\ ReceiveTunnel(s, g, at, o) = Pump(fed, o)
        /\ ReceiveDeferredTunnel(s, g, at, o) \in {fed, Pump(fed, o)}
    BY <1>2 DEF ReceiveTunnel, ReceiveDeferredTunnel, fed, m
  <2> QED BY <2>1, <2>5, <2>6, <2>7, StoryTale
<1> QED BY <1>1, <1>2

LEMMA FinishInputBatchTale ==
    ASSUME NEW d, NEW s, Sound(s), Tale(d, s), NEW o \in Outcome
    PROVE  Tale(d, FinishInputBatchTunnel(s, o))
<1>1. CASE s.finished \/ ~s.opened
  BY <1>1 DEF FinishInputBatchTunnel
<1>2. CASE ~s.finished /\ s.opened
  BY <1>2, UnfinishedStory, PumpStory, StoryTale DEF FinishInputBatchTunnel
<1> QED BY <1>1, <1>2

\* tick looks at the deadline after it has pumped, so that a channel that
\* opens in this very tick is not reported as timed out.
LEMMA TickTale ==
    ASSUME NEW d, NEW s, NEW at \in Time, Ready(s, at), Tale(d, s), NEW o \in Outcome
    PROVE  Tale(d, TickTunnel(s, at, o))
<1> DEFINE m == [s EXCEPT !.last_now = at]
           h == HandleTimeouts(m, o)
           pumped == Pump(h, o)
           r == Finish(pumped, "Timeout")
<1>1. CASE s.finished
  BY <1>1 DEF TickTunnel
<1>2. CASE ~s.finished
  <2>1. Story(d, s) /\ NoTimeout(d)
    BY <1>2, UnfinishedStory DEF Ready
  <2>2. Sound(m) /\ ~m.err /\ m.last_now = at
    BY ClockSound
  <2>3. Silent(s, m)
    BY DEF Silent, Ready, Sound, Tunnel
  <2> HIDE DEF m
  <2>4. Sound(h) /\ ~h.err /\ h.last_now = at /\ Silent(m, h)
    BY <2>2, HandleTimeoutsSound, HandleTimeoutsSilent
  <2>5. Story(d, h)
    BY <2>1, <2>3, <2>4, SilentStory
  <2> HIDE DEF h
  <2>6. Sound(pumped) /\ pumped.last_now = at /\ Story(d, pumped)
    BY <2>4, <2>5, PumpSound, PumpStory
  <2>7. TickTunnel(s, at, o) = IF ~pumped.opened /\ at >= handshake_deadline THEN r ELSE pumped
    BY <1>2 DEF TickTunnel, h, m
  <2> HIDE DEF pumped
  <2>8. /\ Once(d, r.events, "Opened", r.opened) /\ Once(d, r.events, "Closed", r.finished)
        /\ r.opened = pumped.opened /\ r.last_now = at /\ r.finished
    <3>1. "Timeout" \in CloseReason
      BY DEF CloseReason
    <3> QED BY <2>6, <3>1, FinishStory
  <2> HIDE DEF r
  <2>9. ~pumped.opened /\ at >= handshake_deadline => Tale(d, r)
    BY <2>8 DEF Tale, Honest
  <2>10. Tale(d, pumped)
    BY <2>1, <2>6, StoryTale
  <2> QED BY <2>7, <2>9, <2>10
<1> QED BY <1>1, <1>2

LEMMA SendTale ==
    ASSUME NEW d, NEW s, NEW at \in Time, Ready(s, at), Tale(d, s), NEW n \in Nat, NEW o \in Outcome
    PROVE  Tale(d, SendTunnel(s, n, o))
<1>1. CASE SendOutcome(s, n) # "Accepted"
  BY <1>1 DEF SendTunnel
<1>2. CASE SendOutcome(s, n) = "Accepted"
  <2> DEFINE written == [s EXCEPT !.buffered = @ + WireLength(n), !.sctpOut = TRUE]
             x == DrainChannel(written)
             y == [x EXCEPT !.err = FALSE]
             sent == DrainSctpTransmits(y, o)
             z == [sent EXCEPT !.err = FALSE]
  <2>1. Story(d, s) /\ NoTimeout(d)
    <3>1. ~s.finished
      BY <1>2 DEF SendOutcome
    <3> QED BY <3>1, UnfinishedStory DEF Ready
  <2>2. Sound(written) /\ Silent(s, written)
    BY WrittenSound, ZenonT(60) DEF Silent, Ready, Sound, Tunnel
  <2> HIDE DEF written
  <2>3. Sound(x) /\ Silent(written, x)
    BY <2>2, DrainChannelSound, SilentDrains
  <2> HIDE DEF x
  <2>4. Sound(y) /\ Silent(x, y)
    BY <2>3, ErrSound, SilentDrains
  <2> HIDE DEF y
  <2>5. Sound(sent) /\ Silent(y, sent)
    BY <2>4, DrainSctpTransmitsSound, SilentDrains
  <2> HIDE DEF sent
  <2>6. Sound(z) /\ Silent(sent, z)
    BY <2>5, ErrSound, SilentDrains
  <2> HIDE DEF z
  <2>7. Silent(s, z)
    BY <2>2, <2>3, <2>4, <2>5, <2>6 DEF Silent
  <2>8. Story(d, z)
    BY <2>1, <2>7, SilentStory
  <2>9. SendTunnel(s, n, o) = DrainDtlsTransmits(z)
    BY <1>2 DEF SendTunnel, z, sent, y, x, written
  <2> QED BY <2>1, <2>6, <2>8, <2>9, DatagramStory, StoryTale
<1> QED BY <1>1, <1>2

LEMMA CloseTale ==
    ASSUME NEW d, NEW s, NEW at \in Time, Ready(s, at), Tale(d, s)
    PROVE  Tale(d, CloseTunnel(s))
<1> DEFINE p == [s EXCEPT !.paired = FALSE]
           r == Finish(p, "Local")
<1>1. CASE s.finished
  BY <1>1 DEF CloseTunnel
<1>2. CASE ~s.finished
  <2>1. Story(d, s) /\ NoTimeout(d)
    BY <1>2, UnfinishedStory DEF Ready
  <2>2. Sound(p) /\ Silent(s, p)
    <3>1. Sound(p)
      BY ZenonT(60) DEF Ready, Sound, Core, PhasesOf, TraceOf, Tunnel
    <3> QED BY <3>1 DEF Silent, Ready, Sound, Tunnel
  <2> HIDE DEF p
  <2>3. Story(d, p)
    BY <2>1, <2>2, SilentStory
  <2>4. Story(d, r)
    <3>1. "Local" \in CloseReason /\ "Local" # "Timeout"
      BY DEF CloseReason
    <3> QED BY <2>2, <2>3, <3>1, FinishStory DEF Story
  <2>5. CloseTunnel(s) = r
    BY <1>2 DEF CloseTunnel, p
  <2> QED BY <2>1, <2>4, <2>5, StoryTale
<1> QED BY <1>1, <1>2

-----------------------------------------------------------------------------
(* The inductive invariant: Ready and Tale.                                *)

Inv == TypeOK /\ Ready(t, now) /\ Tale(delivered, t)

LEMMA InitTale == Init => Inv
<1> SUFFICES ASSUME Init PROVE Inv
  OBVIOUS
<1>1. TypeOK /\ Ready(t, now)
  BY InitReady
<1>2. t.events = <<>> /\ delivered = <<>> /\ ~t.opened /\ ~t.finished
  BY DEF Init
<1>3. Tale(delivered, t)
  BY <1>2 DEF Tale, Once, Some, AtMostOne, Honest, NoTimeout
<1> QED BY <1>1, <1>3 DEF Inv

LEMMA NextTale == Inv /\ [Next]_vars => Inv'
<1> SUFFICES ASSUME Inv, [Next]_vars PROVE Inv'
  OBVIOUS
<1> USE TunnelAssumption
<1>1. TypeOK' /\ Ready(t, now)'
  BY NextReady DEF Inv
<1>2. now \in Time /\ Ready(t, now) /\ Tale(delivered, t) /\ Sound(t) /\ delivered \in Seq(Event)
  BY DEF Inv, TypeOK, Ready
<1>3. Tale(delivered', t') => Inv'
  BY <1>1 DEF Inv, Tale, Once, Some, AtMostOne, Honest, NoTimeout
<1>4. ASSUME NEW g \in Datagrams, NEW o \in Outcomes, Receive(g, o) \/ ReceiveDeferred(g, o)
      PROVE  Tale(delivered', t')
  <2>1. g \in Datagram /\ o \in Outcome
    OBVIOUS
  <2>2. /\ t' \in {ReceiveTunnel(t, g, now, o), ReceiveDeferredTunnel(t, g, now, o)}
        /\ delivered' = delivered
    BY <1>4 DEF Receive, ReceiveDeferred
  <2> QED BY <1>2, <2>1, <2>2, ReceiveTale
<1>5. ASSUME NEW o \in Outcomes, FinishInputBatch(o)
      PROVE  Tale(delivered', t')
  <2>1. o \in Outcome
    OBVIOUS
  <2> QED BY <1>2, <1>5, <2>1, FinishInputBatchTale DEF FinishInputBatch
<1>6. ASSUME NEW lib \in LibTimers, NEW o \in Outcomes, Tick(lib, o)
      PROVE  Tale(delivered', t')
  <2>1. o \in Outcome
    OBVIOUS
  <2> QED BY <1>2, <1>6, <2>1, TickTale DEF Tick
<1>7. ASSUME NEW n \in Sizes, NEW o \in Outcomes, Send(n, o)
      PROVE  Tale(delivered', t')
  <2>1. n \in Nat /\ o \in Outcome
    OBVIOUS
  <2> QED BY <1>2, <1>7, <2>1, SendTale DEF Send
<1>8. ASSUME Close
      PROVE  Tale(delivered', t')
  BY <1>2, <1>8, CloseTale DEF Close
<1>9. ASSUME PollEvent
      PROVE  Tale(delivered', t')
  <2> DEFINE q == t.events
             d == IF Head(q) = SendDatagram THEN delivered ELSE Append(delivered, Head(q))
  <2>1. /\ q \in Seq(Event) /\ q # <<>> /\ t.opened \in BOOLEAN /\ t.finished \in BOOLEAN
        /\ delivered' = d /\ t'.events = Tail(q) /\ t'.opened = t.opened
        /\ t'.finished = t.finished /\ t'.last_now = t.last_now
    BY <1>2, <1>9 DEF PollEvent, Sound, Tunnel
  <2> HIDE DEF q
  <2>2. Once(d, Tail(q), "Opened", t.opened) /\ Once(d, Tail(q), "Closed", t.finished)
    BY <1>2, <2>1, PolledOnce DEF Tale, q
  <2>3. NoTimeout(delivered) /\ NoTimeout(q) => NoTimeout(d) /\ NoTimeout(Tail(q))
    <3> SUFFICES ASSUME NoTimeout(delivered), NoTimeout(q)
                 PROVE  NoTimeout(d) /\ NoTimeout(Tail(q))
      OBVIOUS
    <3>1. NoTimeout(Tail(q)) /\ ~IsTimeout(Head(q)) /\ Head(q) \in Event
      BY <2>1, TailFacts DEF NoTimeout
    <3> QED BY <1>2, <3>1, NoTimeoutAppend
  <2> HIDE DEF d
  <2> QED BY <1>2, <2>1, <2>2, <2>3 DEF Tale, Honest, q
<1>10. ASSUME \/ \E cap \in Caps : SetSendBufferCap(cap)
              \/ \E f \in Fingerprints : ApplyRemoteAnswer(f)
              \/ Advance
              \/ UNCHANGED vars
       PROVE  Tale(delivered', t')
  <2>1. Silent(t, t') /\ t'.last_now = t.last_now /\ delivered' = delivered
    BY <1>2, <1>10, SMTT(30) DEF SetSendBufferCap, ApplyRemoteAnswer, Advance, vars, Silent, Sound, Tunnel
  <2> QED BY <1>2, <2>1 DEF Tale, Honest, Silent
<1> QED BY <1>3, <1>4, <1>5, <1>6, <1>7, <1>8, <1>9, <1>10 DEF Next

-----------------------------------------------------------------------------
(* The theorems.                                                           *)

\* The host is told exactly once that the channel opened and exactly once that
\* it closed, however receive, tick, close and poll_event interleave.
THEOREM LifecycleToldOnce == Spec => []LifecycleOnce
<1>1. Inv => LifecycleOnce
  <2> SUFFICES ASSUME Inv PROVE LifecycleOnce
    OBVIOUS
  <2>1. /\ delivered \in Seq(Event) /\ t.events \in Seq(Event)
        /\ t.opened \in BOOLEAN /\ t.finished \in BOOLEAN
    BY DEF Inv, TypeOK, Tunnel
  <2>2. /\ Once(delivered, t.events, "Opened", t.opened)
        /\ Once(delivered, t.events, "Closed", t.finished)
    BY DEF Inv, Tale
  <2> QED BY <2>1, <2>2, OnceCounts, SMTT(30) DEF LifecycleOnce, Happened, Log
<1> QED BY <1>1, InitTale, NextTale, PTL DEF Spec

\* A tunnel that reports Closed(Timeout) never opened and its budget was spent.
THEOREM TimeoutReportedHonestly == Spec => []TimeoutIsHonest
<1>1. Inv => TimeoutIsHonest
  <2> SUFFICES ASSUME Inv, NEW i \in DOMAIN Log, Log[i].type = "Closed", Log[i].reason = "Timeout"
               PROVE  ~t.opened /\ t.last_now >= handshake_deadline
    BY DEF TimeoutIsHonest, Happened
  <2>1. delivered \in Seq(Event) /\ t.events \in Seq(Event)
    BY DEF Inv, TypeOK, Tunnel
  <2>2. \/ \E j \in DOMAIN delivered : Log[i] = delivered[j]
        \/ \E j \in DOMAIN t.events : Log[i] = t.events[j]
    BY <2>1, ConcatFacts DEF Log
  <2>3. ~(NoTimeout(delivered) /\ NoTimeout(t.events))
    BY <2>2 DEF NoTimeout, IsTimeout
  <2> QED BY <2>3 DEF Inv, Tale, Honest
<1> QED BY <1>1, InitTale, NextTale, PTL DEF Spec

\* Once finished, no later call produces an event, opens the channel or touches
\* the trace: every entry point returns early.
THEOREM FinishedSaysNothing == Spec => FinishedIsSilent
<1> DEFINE Mute == /\ t'.events \in {t.events} \cup
                          (IF t.events = <<>> THEN {} ELSE {Tail(t.events)})
                   /\ t'.opened = t.opened
                   /\ t'.trace = t.trace
                   /\ t'.finished
<1>1. Inv /\ [Next]_vars => [t.finished => Mute]_vars
  <2> SUFFICES ASSUME Inv, Next, t.finished PROVE Mute
    OBVIOUS
  <2>0. t \in Tunnel
    BY DEF Inv, TypeOK
  <2>1. t' = t => Mute
    OBVIOUS
  <2>2. ASSUME NEW g \in Datagrams, NEW o \in Outcomes, Receive(g, o) \/ ReceiveDeferred(g, o)
        PROVE  Mute
    BY <2>1, <2>2 DEF Receive, ReceiveDeferred, ReceiveTunnel, ReceiveDeferredTunnel
  <2>3. ASSUME NEW o \in Outcomes, FinishInputBatch(o)
        PROVE  Mute
    BY <2>1, <2>3 DEF FinishInputBatch, FinishInputBatchTunnel
  <2>4. ASSUME NEW lib \in LibTimers, NEW o \in Outcomes, Tick(lib, o)
        PROVE  Mute
    BY <2>1, <2>4 DEF Tick, TickTunnel
  <2>5. ASSUME NEW n \in Sizes, NEW o \in Outcomes, Send(n, o)
        PROVE  Mute
    BY <2>1, <2>5 DEF Send, SendTunnel, SendOutcome
  <2>6. ASSUME Close
        PROVE  Mute
    BY <2>1, <2>6 DEF Close, CloseTunnel
  <2>7. ASSUME PollEvent
        PROVE  Mute
    BY <2>0, <2>7 DEF PollEvent, Tunnel
  <2>8. ASSUME \/ \E cap \in Caps : SetSendBufferCap(cap)
               \/ \E f \in Fingerprints : ApplyRemoteAnswer(f)
        PROVE  Mute
    BY <2>0, <2>8 DEF SetSendBufferCap, ApplyRemoteAnswer, Tunnel
  <2>9. ASSUME Advance
        PROVE  Mute
    BY <2>1, <2>9 DEF Advance
  <2> QED BY <2>2, <2>3, <2>4, <2>5, <2>6, <2>7, <2>8, <2>9 DEF Next
<1> QED BY <1>1, InitTale, NextTale, PTL DEF Spec, FinishedIsSilent
=============================================================================
