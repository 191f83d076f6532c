------------------------- MODULE BrowserRelayProofs -------------------------
(***************************************************************************)
(* Proofs about BrowserRelay, for any number of messages and changes of    *)
(* the connection's state.                                                 *)
(*                                                                         *)
(* The variables of the closure are kept beside the promise and the calls  *)
(* of onOpen and onClose; the inductive invariant says how they correspond *)
(* and what has been released.                                             *)
(***************************************************************************)
EXTENDS BrowserRelay, TLAPS

Task == {"open", "binary", "text", "close"}

Closure == [settled : BOOLEAN, opened : BOOLEAN, closed : BOOLEAN, timer : {"armed", "cleared"}]

Web ==
    [ channel : {"connecting", "open", "closed"}, pc : {"open", "closed"},
      state : {"new", "connected", "disconnected", "failed"}, notify : BOOLEAN,
      offer : {"pending", "done", "failed"}, tasks : Seq(Task),
      received : Nat, changes : Nat, sent : BOOLEAN ]

Typed ==
    /\ c \in Closure /\ web \in Web
    /\ promise \in {"pending", "resolved", "rejected"}
    /\ onOpens \in Nat /\ onCloses \in Nat /\ packets \in Nat /\ late \in Nat

\* settled and opened are the promise, as the closure remembers it.
Remembered ==
    /\ c.settled <=> promise # "pending"
    /\ c.opened <=> promise = "resolved"

\* onOpen was called iff the promise was resolved, onClose iff that connection
\* is closed; a rejected promise means a closed connection.
Told ==
    /\ onOpens = IF promise = "resolved" THEN 1 ELSE 0
    /\ onCloses = IF promise = "resolved" /\ c.closed THEN 1 ELSE 0
    /\ promise = "rejected" => c.closed

\* A closed connection has released everything; an open one has no timer.
Released ==
    /\ c.closed => web.pc = "closed" /\ web.channel = "closed" /\ c.timer = "cleared"
    /\ c.opened => c.timer = "cleared"
    /\ late = 0

\* The data channel opens once: there is one open event, none before the
\* channel opened and none left once it was handled.
NoOpen(q) == \A i \in DOMAIN q : q[i] # "open"
OneOpen(q) == \A i, j \in DOMAIN q : q[i] = "open" /\ q[j] = "open" => i = j
OpensOnce(w) == OneOpen(w.tasks) /\ (w.channel = "connecting" => NoOpen(w.tasks))
HasOpened(w) == w.channel # "connecting" /\ NoOpen(w.tasks)

Inv ==
    /\ Typed /\ Remembered /\ Told /\ Released
    /\ OpensOnce(web) /\ (c.opened => HasOpened(web))

\* What any task makes of the browser: nothing that was closed opens again.
Later(w) ==
    /\ w \in Web
    /\ web.pc = "closed" => w.pc = "closed"
    /\ web.channel = "closed" => w.channel = "closed"
    /\ OpensOnce(web) => OpensOnce(w)
    /\ HasOpened(web) => HasOpened(w)

-----------------------------------------------------------------------------
(* Queues of tasks.                                                        *)

LEMMA AppendOpen ==
    ASSUME NEW q \in Seq(Task), NEW task \in Task, NoOpen(q)
    PROVE  OneOpen(Append(q, task))
<1> DEFINE r == Append(q, task)
<1>1. /\ \A i \in DOMAIN r : (i \in DOMAIN q /\ r[i] = q[i]) \/ i = Len(q) + 1
      /\ Len(q) \in Nat
  OBVIOUS
<1> HIDE DEF r
<1> QED BY <1>1 DEF NoOpen, OneOpen, r

LEMMA AppendOther ==
    ASSUME NEW q \in Seq(Task), NEW task \in Task \ {"open"}
    PROVE  /\ NoOpen(q) => NoOpen(Append(q, task))
           /\ OneOpen(q) => OneOpen(Append(q, task))
<1> DEFINE r == Append(q, task)
<1>1. /\ DOMAIN r = 1..Len(q) + 1 /\ r[Len(q) + 1] = task
      /\ \A i \in 1..Len(q) : r[i] = q[i]
      /\ DOMAIN q = 1..Len(q) /\ Len(q) \in Nat
  OBVIOUS
<1>2. \A i \in DOMAIN r : i \in DOMAIN q \/ i = Len(q) + 1
  BY <1>1
<1> HIDE DEF r
<1> QED BY <1>1, <1>2 DEF NoOpen, OneOpen, r

LEMMA TailOpens ==
    ASSUME NEW q \in Seq(Task), q # <<>>
    PROVE  /\ NoOpen(q) => NoOpen(Tail(q))
           /\ OneOpen(q) => OneOpen(Tail(q))
           /\ OneOpen(q) /\ Head(q) = "open" => NoOpen(Tail(q))
<1> DEFINE r == Tail(q)
<1>1. /\ \A i \in DOMAIN r : i + 1 \in DOMAIN q /\ r[i] = q[i + 1] /\ i \in Nat \ {0}
      /\ 1 \in DOMAIN q /\ Head(q) = q[1]
  OBVIOUS
<1> HIDE DEF r
<1> QED BY <1>1 DEF NoOpen, OneOpen, r

-----------------------------------------------------------------------------
(* The operators on the browser.                                           *)

LEMMA SameQueueIsLater ==
    ASSUME NEW w \in Web, w.pc = web.pc, w.channel = web.channel, w.tasks = web.tasks
    PROVE  Later(w)
BY DEF Later, OpensOnce, HasOpened

LEMMA EnqueueTyped ==
    ASSUME NEW task \in Task, web \in Web
    PROVE  /\ Enqueue(task) \in Web
           /\ Enqueue(task).pc = web.pc /\ Enqueue(task).channel = web.channel
           /\ Enqueue(task).tasks = Append(web.tasks, task)
<1>1. web.tasks \in Seq(Task)
  BY DEF Web
<1>2. Append(web.tasks, task) \in Seq(Task)
  BY <1>1
<1> QED BY <1>2 DEF Enqueue, Web

LEMMA RestIsLater ==
    ASSUME web \in Web, web.tasks # <<>>
    PROVE  /\ Later(Rest)
           /\ OpensOnce(web) /\ web.channel # "connecting" /\ Head(web.tasks) = "open"
              => HasOpened(Rest)
<1>1. web.tasks \in Seq(Task)
  BY DEF Web
<1>2. Tail(web.tasks) \in Seq(Task)
  BY <1>1
<1>3. /\ Rest \in Web /\ Rest.pc = web.pc /\ Rest.channel = web.channel
      /\ Rest.tasks = Tail(web.tasks)
  BY <1>2 DEF Rest, Web
<1> QED BY <1>1, <1>3, TailOpens DEF OpensOnce, HasOpened, Later

LEMMA ShutIsLater ==
    ASSUME NEW w, Later(w)
    PROVE  Later(Shut(w)) /\ Shut(w).pc = "closed" /\ Shut(w).channel = "closed"
<1>0. w \in Web
  BY DEF Later
<1>1. w.tasks \in Seq(Task) /\ "close" \in Task \ {"open"}
  BY <1>0 DEF Web, Task
<1>2. Append(w.tasks, "close") \in Seq(Task)
  BY <1>1
<1>3. CASE w.channel = "closed"
  <2>1. /\ Shut(w) \in Web /\ Shut(w).pc = "closed" /\ Shut(w).channel = "closed"
        /\ Shut(w).tasks = w.tasks
    BY <1>0, <1>3 DEF Shut, Web
  <2> QED BY <1>3, <2>1 DEF Later, OpensOnce, HasOpened
<1>4. CASE w.channel # "closed"
  <2>1. /\ Shut(w) \in Web /\ Shut(w).pc = "closed" /\ Shut(w).channel = "closed"
        /\ Shut(w).tasks = Append(w.tasks, "close")
    BY <1>0, <1>2, <1>4 DEF Shut, Web
  <2>2. /\ OneOpen(w.tasks) => OneOpen(Shut(w).tasks)
        /\ NoOpen(w.tasks) => NoOpen(Shut(w).tasks)
    BY <1>1, <2>1, AppendOther
  <2> QED BY <2>1, <2>2 DEF Later, OpensOnce, HasOpened
<1> QED BY <1>3, <1>4

\* fail keeps the invariant, whichever task calls it, and reports the end
\* once: it refuses a pending promise or ends an open connection.
LEMMA FailKeepsInv ==
    ASSUME Inv, NEW w, Later(w), fail(w), UNCHANGED <<onOpens, packets, late>>
    PROVE  Inv' /\ [Relay!Next]_Relay!vars
<1>1. CASE c.closed
  BY <1>1 DEF fail, Inv, Typed, Remembered, Told, Released, Later, Relay!vars
<1>2. CASE ~c.closed
  <2>1. /\ c' \in Closure /\ c'.closed /\ c'.settled /\ c'.timer = "cleared"
        /\ c'.opened = c.opened
    BY <1>2 DEF fail, Inv, Typed, Closure
  <2>2. Later(web') /\ web'.pc = "closed" /\ web'.channel = "closed"
    BY <1>2, ShutIsLater DEF fail
  <2>3. Typed'
    BY <1>2, <2>1, <2>2 DEF fail, Inv, Typed, Settle, Later
  <2>4. Remembered' /\ Told'
    <3>1. CASE promise = "pending"
      BY <1>2, <2>1, <3>1 DEF fail, Inv, Typed, Remembered, Told, Settle
    <3>2. CASE promise # "pending"
      BY <1>2, <2>1, <3>2 DEF fail, Inv, Typed, Remembered, Told, Settle
    <3> QED BY <3>1, <3>2
  <2>5. Released'
    BY <2>1, <2>2 DEF Inv, Released
  <2>6. OpensOnce(web') /\ (c'.opened => HasOpened(web'))
    BY <2>1, <2>2 DEF Inv, Later
  <2>7. [Relay!Next]_Relay!vars
    BY <1>2 DEF fail, Inv, Typed, Closure, Remembered, Told, Settle,
                Relay!Next, Relay!Refuse, Relay!End, Relay!vars
  <2>8. (OpensOnce(web) /\ (c.opened => HasOpened(web)))'
    BY <2>6 DEF OpensOnce, HasOpened, OneOpen, NoOpen
  <2> QED BY <2>3, <2>4, <2>5, <2>7, <2>8 DEF Inv
<1> QED BY <1>1, <1>2

\* So does a step that only the browser sees.
LEMMA BrowserKeepsInv ==
    ASSUME Inv, Later(web'), UNCHANGED <<c, promise, onOpens, onCloses, late>>, packets' \in Nat
    PROVE  Inv' /\ [Relay!Next]_Relay!vars
<1>1. Typed' /\ Remembered' /\ Told' /\ Released' /\ UNCHANGED Relay!vars
  BY DEF Inv, Typed, Remembered, Told, Released, Later, Relay!vars
<1>2. OpensOnce(web') /\ (c'.opened => HasOpened(web'))
  BY DEF Inv, Later
<1>3. (OpensOnce(web) /\ (c.opened => HasOpened(web)))'
  BY <1>2 DEF OpensOnce, HasOpened, OneOpen, NoOpen
<1> QED BY <1>1, <1>3 DEF Inv

-----------------------------------------------------------------------------
(* Every step keeps the invariant and is a step of the contract, or        *)
(* changes nothing the caller can see.                                     *)

LEMMA InitInv == Init => Inv /\ Relay!Init
<1> SUFFICES ASSUME Init PROVE Inv /\ Relay!Init
  OBVIOUS
<1>1. Typed
  BY DEF Init, Typed, Closure, Web
<1>2. OpensOnce(web) /\ ~c.opened
  BY DEF Init, OpensOnce, OneOpen, NoOpen
<1> QED BY <1>1, <1>2 DEF Init, Inv, Remembered, Told, Released, Relay!Init

LEMMA StepInv == Inv /\ [Next]_vars => Inv' /\ [Relay!Next]_Relay!vars
<1> SUFFICES ASSUME Inv, [Next]_vars
             PROVE  Inv' /\ [Relay!Next]_Relay!vars
  OBVIOUS
<1>0. /\ web \in Web /\ c \in Closure /\ packets \in Nat
      /\ web.tasks \in Seq(Task) /\ web.changes + 1 \in Nat
  BY DEF Inv, Typed, Web
<1>1. CASE ChannelOpens
  <2>1. "open" \in Task
    BY DEF Task
  <2>2. /\ web' \in Web /\ web'.pc = web.pc /\ web'.channel = "open"
        /\ web'.tasks = Append(web.tasks, "open")
    BY <1>0, <1>1, <2>1, EnqueueTyped DEF ChannelOpens, Web
  <2>3. OpensOnce(web) => OneOpen(web'.tasks)
    BY <1>0, <1>1, <2>1, <2>2, AppendOpen DEF ChannelOpens, OpensOnce
  <2>4. Later(web')
    BY <1>1, <2>2, <2>3 DEF ChannelOpens, Later, OpensOnce, HasOpened
  <2> QED BY <1>0, <1>1, <2>4, BrowserKeepsInv DEF ChannelOpens
<1>2. ASSUME NEW kind \in {"binary", "text"}, MessageArrives(kind)
      PROVE  Inv' /\ [Relay!Next]_Relay!vars
  <2>1. kind \in Task \ {"open"}
    BY DEF Task
  <2>2. /\ web' \in Web /\ web'.pc = web.pc /\ web'.channel = web.channel
        /\ web'.tasks = Append(web.tasks, kind)
    <3> DEFINE w == Enqueue(kind)
    <3>1. /\ w \in Web /\ w.pc = web.pc /\ w.channel = web.channel
          /\ w.tasks = Append(web.tasks, kind)
      BY <1>0, <2>1, EnqueueTyped
    <3>2. web' = [w EXCEPT !.received = @ + 1]
      BY <1>2 DEF MessageArrives
    <3>3. w.received + 1 \in Nat
      BY <3>1 DEF Web
    <3> HIDE DEF w
    <3> QED BY <3>1, <3>2, <3>3 DEF Web
  <2>3. /\ OneOpen(web.tasks) => OneOpen(web'.tasks)
        /\ NoOpen(web.tasks) => NoOpen(web'.tasks)
    BY <1>0, <2>1, <2>2, AppendOther
  <2>4. Later(web')
    BY <2>2, <2>3 DEF Later, OpensOnce, HasOpened
  <2> QED BY <1>0, <1>2, <2>4, BrowserKeepsInv DEF MessageArrives
<1>3. CASE PeerCloses
  <2>1. "close" \in Task \ {"open"}
    BY DEF Task
  <2>2. /\ web' \in Web /\ web'.pc = web.pc /\ web'.channel = "closed"
        /\ web'.tasks = Append(web.tasks, "close")
    BY <1>0, <1>3, <2>1, EnqueueTyped DEF PeerCloses, Web
  <2>3. /\ OneOpen(web.tasks) => OneOpen(web'.tasks)
        /\ NoOpen(web.tasks) => NoOpen(web'.tasks)
    BY <1>0, <2>1, <2>2, AppendOther
  <2>4. Later(web')
    BY <2>2, <2>3 DEF Later, OpensOnce, HasOpened
  <2> QED BY <1>0, <1>3, <2>4, BrowserKeepsInv DEF PeerCloses
<1>4. ASSUME NEW state \in {"connected", "disconnected", "failed"}, ConnectionChanges(state)
      PROVE  Inv' /\ [Relay!Next]_Relay!vars
  <2>1. web' = [web EXCEPT !.state = state, !.notify = TRUE, !.changes = @ + 1]
    BY <1>4 DEF ConnectionChanges
  <2>2. /\ web' \in Web /\ web'.pc = web.pc /\ web'.channel = web.channel
        /\ web'.tasks = web.tasks
    BY <1>0, <2>1 DEF Web
  <2>3. Later(web')
    BY <2>2, SameQueueIsLater
  <2> QED BY <1>0, <1>4, <2>3, BrowserKeepsInv DEF ConnectionChanges
<1>5. CASE OfferDone
  <2>1. /\ web' \in Web /\ web'.pc = web.pc /\ web'.channel = web.channel
        /\ web'.tasks = web.tasks
    BY <1>0, <1>5 DEF OfferDone, Web
  <2>2. Later(web')
    BY <2>1, SameQueueIsLater
  <2> QED BY <1>0, <1>5, <2>2, BrowserKeepsInv DEF OfferDone
<1>6. CASE TimerFires
  <2>1. Later(web)
    BY <1>0, SameQueueIsLater
  <2> QED BY <1>6, <2>1, FailKeepsInv DEF TimerFires
<1>7. CASE onopen
  <2>1. Later(Rest) /\ web' = Rest
    BY <1>0, <1>7, RestIsLater DEF onopen, Taken
  <2>2. CASE c.closed
    BY <1>0, <1>7, <2>1, <2>2, BrowserKeepsInv DEF onopen
  <2>3. CASE ~c.closed
    <3>1. /\ c' \in Closure /\ ~c'.closed /\ c'.settled /\ c'.opened
          /\ c'.timer = "cleared"
      BY <1>0, <1>7, <2>3 DEF onopen, Closure
    <3>2. ~c.opened /\ web.channel # "connecting"
      <4>1. ~NoOpen(web.tasks)
        BY <1>0, <1>7 DEF onopen, Taken, NoOpen
      <4> QED BY <4>1 DEF Inv, OpensOnce, HasOpened
    <3>3. HasOpened(web')
      BY <1>0, <1>7, <2>1, <3>2, RestIsLater DEF onopen, Taken, Inv
    <3>4. promise = "pending" /\ promise' = "resolved" /\ onOpens' = 1 /\ onCloses' = 0
      BY <1>7, <2>3, <3>2 DEF onopen, Settle, Inv, Typed, Remembered, Told
    <3>5. Typed' /\ Remembered' /\ Told' /\ [Relay!Next]_Relay!vars
      BY <1>7, <2>1, <3>1, <3>4 DEF onopen, Inv, Typed, Remembered, Told, Later,
                                    Relay!Next, Relay!Open, Relay!vars
    <3>6. Released'
      BY <1>7, <2>1, <3>1 DEF onopen, Inv, Released
    <3>7. (OpensOnce(web) /\ (c.opened => HasOpened(web)))'
      <4>1. OpensOnce(web') /\ HasOpened(web')
        BY <2>1, <3>3 DEF Inv, Later
      <4> QED BY <4>1 DEF OpensOnce, HasOpened, OneOpen, NoOpen
    <3> QED BY <3>5, <3>6, <3>7 DEF Inv
  <2> QED BY <2>2, <2>3
<1>8. CASE onmessage
  <2>1. Later(web')
    BY <1>0, <1>8, RestIsLater DEF onmessage, Taken
  <2>2. packets' \in Nat
    BY <1>0, <1>8 DEF onmessage
  <2>3. late' = late
    BY <1>8 DEF onmessage, Ended, Inv, Told, Typed
  <2> QED BY <1>8, <2>1, <2>2, <2>3, BrowserKeepsInv DEF onmessage
<1>9. CASE onclose
  BY <1>0, <1>9, RestIsLater, FailKeepsInv DEF onclose, Taken
<1>10. CASE onconnectionstatechange
  <2> DEFINE seen == [web EXCEPT !.notify = FALSE]
  <2>1. seen \in Web /\ seen.pc = web.pc /\ seen.channel = web.channel /\ seen.tasks = web.tasks
    BY <1>0 DEF Web
  <2>2. Later(seen)
    BY <2>1, SameQueueIsLater
  <2>3. CASE fail(seen)
    BY <1>10, <2>2, <2>3, FailKeepsInv DEF onconnectionstatechange
  <2>4. CASE web' = seen /\ UNCHANGED <<c, promise, onCloses>>
    BY <1>0, <1>10, <2>2, <2>4, BrowserKeepsInv DEF onconnectionstatechange
  <2> QED BY <1>10, <2>3, <2>4 DEF onconnectionstatechange
<1>11. CASE OfferFails
  <2> DEFINE w == [web EXCEPT !.offer = "failed"]
  <2>1. w \in Web /\ w.pc = web.pc /\ w.channel = web.channel /\ w.tasks = web.tasks
    BY <1>0 DEF Web
  <2>2. Later(w)
    BY <2>1, SameQueueIsLater
  <2> QED BY <1>11, <2>2, FailKeepsInv DEF OfferFails
<1>12. CASE HandleSend
  <2>1. /\ web' \in Web /\ web'.pc = web.pc /\ web'.channel = web.channel
        /\ web'.tasks = web.tasks
    BY <1>0, <1>12 DEF HandleSend, Web
  <2>2. Later(web')
    BY <2>1, SameQueueIsLater
  <2> QED BY <1>0, <1>12, <2>2, BrowserKeepsInv DEF HandleSend
<1>13. CASE HandleClose
  <2>1. Later(web)
    BY <1>0, SameQueueIsLater
  <2>2. CASE c.closed
    BY <1>0, <1>13, <2>1, <2>2, BrowserKeepsInv DEF HandleClose
  <2>3. CASE ~c.closed
    <3>1. /\ c' \in Closure /\ c'.closed /\ c'.settled = c.settled
          /\ c'.opened = c.opened /\ c'.timer = "cleared"
      BY <1>0, <1>13, <2>3 DEF HandleClose, Closure
    <3>2. Later(web') /\ web'.pc = "closed" /\ web'.channel = "closed"
      BY <1>13, <2>1, <2>3, ShutIsLater DEF HandleClose
    <3>3. promise = "resolved" /\ onCloses = 0 /\ onCloses' = 1
      BY <1>13, <2>3 DEF HandleClose, Inv, Told
    <3>4. Typed' /\ Remembered' /\ Told' /\ [Relay!Next]_Relay!vars
      BY <1>13, <3>1, <3>2, <3>3 DEF HandleClose, Inv, Typed, Remembered, Told, Later,
                                     Relay!Next, Relay!End, Relay!vars
    <3>5. Released'
      BY <1>13, <3>1, <3>2 DEF HandleClose, Inv, Released
    <3>6. (OpensOnce(web) /\ (c.opened => HasOpened(web)))'
      <4>1. OpensOnce(web') /\ (c'.opened => HasOpened(web'))
        BY <3>1, <3>2 DEF Inv, Later
      <4> QED BY <4>1 DEF OpensOnce, HasOpened, OneOpen, NoOpen
    <3> QED BY <3>4, <3>5, <3>6 DEF Inv
  <2> QED BY <2>2, <2>3
<1>14. CASE UNCHANGED vars
  <2>1. Later(web')
    BY <1>0, <1>14, SameQueueIsLater DEF vars
  <2> QED BY <1>0, <1>14, <2>1, BrowserKeepsInv DEF vars
<1> QED BY <1>1, <1>2, <1>3, <1>4, <1>5, <1>6, <1>7, <1>8, <1>9, <1>10, <1>11,
           <1>12, <1>13, <1>14 DEF Next

-----------------------------------------------------------------------------
(* The theorems.                                                           *)

\* Once the caller of openBrowserConnection was told of the end, by the
\* rejected promise or by onClose, the timer is off, channel and connection
\* are closed and no packet follows, in whatever order timeout, channel
\* events, state changes, a failing offer and close() came.
THEOREM EndingIsFinal == FairSpec => []EndIsFinal
<1>1. Inv => EndIsFinal
  BY DEF Inv, Typed, Closure, Remembered, Told, Released, EndIsFinal, Ended
<1> QED BY <1>1, InitInv, StepInv, PTL DEF FairSpec

\* openBrowserConnection implements the contract of the provider interface:
\* the promise settles once, onOpen is called with its resolution and onClose
\* once after it.
THEOREM BrowserImplementsContract == FairSpec => KeepsContract
BY InitInv, StepInv, PTL DEF FairSpec, KeepsContract, Relay!Spec
=============================================================================
