---------------------------- MODULE BrowserRelay ----------------------------
(***************************************************************************)
(* packages/rtc-tunnel/src/browser.ts: openBrowserConnection, the provider *)
(* that hands the protocol to the browser's RTCPeerConnection.             *)
(*                                                                         *)
(* Everything runs on one thread, a task at a time, but the tasks come     *)
(* from four sources that order nothing between them: the data channel's   *)
(* events, the connection's state changes, the timer and the promise chain *)
(* of the offer.  A task queued before close() still runs after it.        *)
(***************************************************************************)
EXTENDS Naturals, Sequences

CONSTANTS
    MaxMessages,   \* bound on messages from the peer, for TLC
    MaxChanges     \* bound on changes of connectionState, for TLC

ASSUME BrowserAssumption == {MaxMessages, MaxChanges} \subseteq Nat

VARIABLES
    c,         \* the closure of openBrowserConnection
    web,       \* the browser: data channel, peer connection, queued tasks
    promise, onOpens, onCloses,
    packets,   \* calls of onPacket
    late       \* calls of onPacket after the caller was told of the end
vars == <<c, web, promise, onOpens, onCloses, packets, late>>

Relay == INSTANCE RelayContract

Settle(how) == IF promise = "pending" THEN how ELSE promise
Ended == promise = "rejected" \/ onCloses > 0

-----------------------------------------------------------------------------
(* The browser.  Closing the connection stops new events; closing the      *)
(* channel queues a close event of its own.                                *)

Enqueue(task) == [web EXCEPT !.tasks = Append(@, task)]

ChannelOpens ==
    /\ web.channel = "connecting" /\ web.pc = "open" /\ web.offer = "done"
    /\ web' = [Enqueue("open") EXCEPT !.channel = "open"]
    /\ UNCHANGED <<c, promise, onOpens, onCloses, packets, late>>

\* A message is binary or text.
MessageArrives(kind) ==
    /\ web.channel = "open" /\ web.pc = "open" /\ web.received < MaxMessages
    /\ web' = [Enqueue(kind) EXCEPT !.received = @ + 1]
    /\ UNCHANGED <<c, promise, onOpens, onCloses, packets, late>>

PeerCloses ==
    /\ web.channel = "open" /\ web.pc = "open"
    /\ web' = [Enqueue("close") EXCEPT !.channel = "closed"]
    /\ UNCHANGED <<c, promise, onOpens, onCloses, packets, late>>

ConnectionChanges(state) ==
    /\ web.pc = "open" /\ web.changes < MaxChanges /\ state # web.state
    /\ web' = [web EXCEPT !.state = state, !.notify = TRUE, !.changes = @ + 1]
    /\ UNCHANGED <<c, promise, onOpens, onCloses, packets, late>>

OfferDone ==
    /\ web.offer = "pending" /\ web.pc = "open"
    /\ web' = [web EXCEPT !.offer = "done"]
    /\ UNCHANGED <<c, promise, onOpens, onCloses, packets, late>>

Shut(w) ==
    [w EXCEPT !.pc = "closed", !.channel = "closed",
              !.tasks = IF w.channel = "closed" THEN @ ELSE Append(@, "close")]

-----------------------------------------------------------------------------
(* openBrowserConnection.  w is the browser after the task was taken.      *)

\* Variant: a failure before opening is not reported.
failSilently(w) ==
    IF c.closed THEN web' = w /\ UNCHANGED <<c, promise, onCloses>>
    ELSE /\ c' = [c EXCEPT !.closed = TRUE, !.timer = "cleared", !.settled = TRUE]
         /\ web' = Shut(w)
         /\ onCloses' = IF c.opened THEN onCloses + 1 ELSE onCloses
         /\ UNCHANGED promise

\* The first failure frees the channel and the connection and is reported
\* once: by the promise before the channel opened, by onClose after.
fail(w) ==
    IF c.closed THEN web' = w /\ UNCHANGED <<c, promise, onCloses>>
    ELSE /\ c' = [c EXCEPT !.closed = TRUE, !.timer = "cleared", !.settled = TRUE]
         /\ web' = Shut(w)
         /\ promise' = IF c.settled THEN promise ELSE Settle("rejected")
         /\ onCloses' = IF c.settled /\ c.opened THEN onCloses + 1 ELSE onCloses

TimerFires ==
    /\ c.timer = "armed"
    /\ fail(web)
    /\ UNCHANGED <<onOpens, packets, late>>

Taken(task) ==
    /\ web.tasks # <<>> /\ Head(web.tasks) = task

Rest == [web EXCEPT !.tasks = Tail(@)]

\* Variants: no check of closed; the timer is left running.
onopenUnguarded ==
    /\ Taken("open")
    /\ web' = Rest
    /\ c' = [c EXCEPT !.opened = TRUE, !.timer = "cleared", !.settled = TRUE]
    /\ promise' = Settle("resolved") /\ onOpens' = onOpens + 1
    /\ UNCHANGED <<onCloses, packets, late>>
onopenTicking ==
    /\ Taken("open")
    /\ web' = Rest
    /\ IF c.closed THEN UNCHANGED <<c, promise, onOpens>>
       ELSE /\ c' = [c EXCEPT !.opened = TRUE, !.settled = TRUE]
            /\ promise' = Settle("resolved") /\ onOpens' = onOpens + 1
    /\ UNCHANGED <<onCloses, packets, late>>

onopen ==
    /\ Taken("open")
    /\ web' = Rest
    /\ IF c.closed THEN UNCHANGED <<c, promise, onOpens>>
       ELSE /\ c' = [c EXCEPT !.opened = TRUE, !.timer = "cleared", !.settled = TRUE]
            /\ promise' = Settle("resolved") /\ onOpens' = onOpens + 1
    /\ UNCHANGED <<onCloses, packets, late>>

\* Only an ArrayBuffer is a packet.
onmessage ==
    /\ Taken("binary") \/ Taken("text")
    /\ web' = Rest
    /\ LET passed == ~c.closed /\ Taken("binary")
       IN  /\ packets' = IF passed THEN packets + 1 ELSE packets
           /\ late' = IF passed /\ Ended THEN late + 1 ELSE late
    /\ UNCHANGED <<c, promise, onOpens, onCloses>>

onclose ==
    /\ Taken("close")
    /\ fail(Rest)
    /\ UNCHANGED <<onOpens, packets, late>>

\* The handler reads the state of the moment it runs, not of the change.
onconnectionstatechange ==
    /\ web.notify
    /\ LET seen == [web EXCEPT !.notify = FALSE]
       IN  IF web.pc = "open" /\ web.state \in {"failed", "disconnected"} THEN fail(seen)
           ELSE web' = seen /\ UNCHANGED <<c, promise, onCloses>>
    /\ UNCHANGED <<onOpens, packets, late>>

\* createOffer, setLocalDescription or setRemoteDescription rejects.
OfferFails ==
    /\ web.offer = "pending"
    /\ fail([web EXCEPT !.offer = "failed"])
    /\ UNCHANGED <<onOpens, packets, late>>

\* The caller has the handle once the promise is resolved.
HandleSend ==
    /\ promise = "resolved"
    /\ web' = IF c.closed \/ web.channel # "open" THEN web ELSE [web EXCEPT !.sent = TRUE]
    /\ UNCHANGED <<c, promise, onOpens, onCloses, packets, late>>

HandleClose ==
    /\ promise = "resolved"
    /\ IF c.closed THEN UNCHANGED <<c, web, onCloses>>
       ELSE /\ c' = [c EXCEPT !.closed = TRUE, !.timer = "cleared"]
            /\ web' = Shut(web)
            /\ onCloses' = onCloses + 1
    /\ UNCHANGED <<promise, onOpens, packets, late>>

Init ==
    /\ c = [settled |-> FALSE, opened |-> FALSE, closed |-> FALSE, timer |-> "armed"]
    /\ web = [channel |-> "connecting", pc |-> "open", state |-> "new", notify |-> FALSE,
              offer |-> "pending", tasks |-> <<>>, received |-> 0, changes |-> 0,
              sent |-> FALSE]
    /\ promise = "pending" /\ onOpens = 0 /\ onCloses = 0 /\ packets = 0 /\ late = 0

Next ==
    \/ ChannelOpens \/ PeerCloses \/ OfferDone
    \/ \E kind \in {"binary", "text"} : MessageArrives(kind)
    \/ \E state \in {"connected", "disconnected", "failed"} : ConnectionChanges(state)
    \/ TimerFires \/ onopen \/ onmessage \/ onclose \/ onconnectionstatechange
    \/ OfferFails \/ HandleSend \/ HandleClose

\* A timer that is armed fires in the end.
FairSpec == Init /\ [][Next]_vars /\ WF_vars(TimerFires)

-----------------------------------------------------------------------------
(* Properties.                                                             *)

\* The browser provider keeps the same contract as the driver, whatever the
\* order in which timeout, channel events, state changes, a failing offer and
\* the caller's close end the connection.
KeepsContract == Relay!Spec

\* Once the caller was told of the end, the timer is off, the channel and the
\* connection are closed and no packet follows; an open connection has no
\* timer left that could end it.
EndIsFinal ==
    /\ Ended => web.pc = "closed" /\ web.channel = "closed"
    /\ Ended \/ promise = "resolved" => c.timer # "armed"
    /\ late = 0

\* The caller's await ends: the handshake timer covers every way of failing
\* that reports nothing.
PromiseSettles == <>(promise # "pending")
=============================================================================
