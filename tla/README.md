# Verification of rtc-tunnel

rtc-tunnel carries one pre-negotiated WebRTC data channel to a relay. A sans-I/O
core in Rust speaks ICE, DTLS and SCTP; it is compiled to WebAssembly behind a C
ABI, and a TypeScript driver connects it to a UDP socket, a timer and the caller.

This directory holds TLA+ modules translated from that code, TLC configurations
that check them on small instances, and TLAPS proofs about every component that
is modelled, for every value of its parameters. `PROJECT.json` lists the components, runs, mutants,
findings, hazards and theorems, and maps each definition to its source lines.

## The system

| component | state | operations | interacts through |
|---|---|---|---|
| direct backend (`rtc-tunnel-core/src/direct/mod.rs`) | phase flags, association, event queue, trace, clock, send cap | `receive`, `receive_deferred`, `finish_input_batch`, `tick`, `send`, `close`, `poll_event`, setters | method calls in, `Event`s out; drives rtc-ice, rtc-dtls, rtc-sctp |
| rtc backend (`tunnel.rs`) | opened, finished, clock, cap, event queue and trace over one peer connection | the same, and three constructors | the vendored `rtc` crate, whose handlers queue what a datagram causes until they are polled |
| handshake trace (`trace.rs`) | four first-observation times | `observe_*` | written by a backend |
| wasm boundary (`rtc-tunnel-wasm/src/lib.rs`) | handle, current event, drained batch | C ABI | raw memory |
| wasm engine (`engine/wasm.ts`) | handle, shared scratch buffer, disposed flag | `TunnelEngine` | the C ABI |
| relay driver (`driver.ts`) | open/closed, timer, queue, inbound batch, scheduled flags | socket message and error, timer, flushes, handle `send`/`close`/`stats` | engine calls, callbacks to the host, the event loop |
| browser provider (`browser.ts`) | settled, opened, closed, timer | channel and connection callbacks, handle | RTCPeerConnection |
| node runtime (`runtime/node.ts`) | socket, handlers, closed | bind, send, close | dgram |
| validation (`validate.ts`), reference peer, benchmarks, re-exports | none | | |

The hard parts are these. In the core: one pump advances four machines and is left early by
the first error; input may be batched, so events of several datagrams are
drained together; the deadline races the last flight; every call may come after
the end. In the driver: JavaScript runs each task to its end, but pump calls the
host in the middle of its loop and the host may call back; deferred flushes are
represented by flags; a timer is kept when it seems early enough; the engine is
freed by hand. At the boundary: tunnels of one module share an allocator and a
scratch buffer, two ways of taking events keep payloads alive for different
times, and JavaScript numbers wrap. In the browser: tasks of four sources end
one connection, and tasks queued before the end run after it. Nothing is
persisted, so there is no crash recovery.

What makes each component correct:

- core: phases in order; nothing left for a call that may not come; one Opened,
  one Closed; an honest timeout; messages in order; the buffer within its cap;
  silence after the end; every handshake ends;
- driver: the relay contract; everything released once; events, datagrams and
  queued messages never stranded; the timer covers the engine's deadline; order;
- rtc backend: what event.rs promises of a tunnel, whatever waits in the peer
  connection when a call returns; the same timeout, order, cap and liveness;
- wasm boundary and engine: every event reaches the host once, every access to
  linear memory is inside a live allocation, and numbers cross unchanged;
- browser provider: the same relay contract as the driver.

## Modules

- `DirectTunnel` is the direct backend. The record `t` holds the fields of the
  Rust struct under their names and, below them, what the tunnel observes of the
  three library machines: a nominated pair, pending ICE event, ICE and DTLS
  output, the association's state, its polled events `pend`, its reassembly
  queue `rq`, the `stream`, the send buffer. Each method is an operator from the
  tunnel before to the tunnel after (`Pump`, `Ingest`, `DrainSctp`, ...), each
  public method an action. `Err` is the field `err`: `?` stops the drain that
  follows, and the callers clear it. A datagram is what it makes the machines
  do; library calls may fail by `Outcomes`.
- `DirectTunnelProofs`, `DirectTunnelEventProofs` and `DirectTunnelDataProofs`
  hold the theorems about it: its phases and trace, what it tells its host, and
  the two buffers.
- `RelayContract` is the abstract specification of a relay connection: promise,
  onOpen, onClose.
- `RelayDriver` is `openConnection`. The record `s` holds the closure's
  variables, the stack of running pumps (`frames`, each with the rest of its
  batch and what its caller does next), the queued flushes, the engine by its
  interface, and what the host has seen. A task starts only on an empty stack;
  `ApplyEvent`, `DrainEvents` and `PumpReturns` run the loop of the pump on top.
  The engine answers an input or a tick with any of `Reactions`.
- `RelayDriverProofs` proves what concerns its types and its send queue,
  `RelayDriverHostProofs` what concerns the host, the engine and the timer.
- `TunnelContract` is the abstract specification of a tunnel's events (event.rs):
  one Opened, messages while open, one Closed with its reason, and a Timeout
  only for a handshake that did not finish.
- `RtcTunnel` is the rtc backend. The record `t` holds the fields of the Rust
  struct and `pc`, the peer connection as far as the tunnel observes it. Its
  rules are read from the vendored handlers: `handle_read` and `handle_timeout`
  only queue, one `Pass` of `poll_event` starts the next transport, opens or
  removes the channel and accounts for released bytes. `drain` asks for output,
  events, output and messages in that order. SCTP keeps whole messages in
  `unread` and what it has to say in `assocEv`. `HandleChunks` is the
  association's work on a datagram, `PollAssociation` the handler's loop over
  what it says, within the read budget that undelivered messages leave
  (`BacklogLimit`); a message above `BufferLength` ends the loop with an error, and
  what the round had read goes with it (`Refuse`). A stream the budget left
  unread is `pending` and `ResumePendingReads` reads it on, in the next
  datagram of any kind. `HandleNotices` is the data channel's loop over what SCTP
  said. `Write` is the way of a sent message, which SCTP may refuse after it was
  charged for; `empties` counts the empty ones and is read by properties only.
  Constructors may refuse. `RtcTunnelProofs` holds its theorems.
- `WasmBoundary` is the C ABI together with its host side. `heap` is the
  allocator as live blocks and their lengths, `scratch` the shared buffer,
  `handles` the `TunnelHandle`s with their queue, current event, drained batch
  and descriptors, `host` what the host has read and has still to read. The
  tunnel behind a handle produces any events. `altered` remembers whether a
  parameter that passed `validateRelayParams` was refused for its number or
  reached `TunnelConfig` as another one. `Borrow` and `GiveBack` are the two ends
  of a call that lends strings to the module. Read-only getters are not actions.
  `WasmBoundaryProofs` holds its theorems.
- `BrowserRelay` is `openBrowserConnection`: the closure `c`, the browser `web`
  with its queued tasks, and the caller's view, on which it implements
  `RelayContract` as the driver does. `BrowserRelayProofs` proves it.
- `MC_DirectTunnel`, `MC_RelayDriver`, `MC_RtcTunnel` and `MC_WasmBoundary` give
  the constants their values; `BrowserRelay` needs none.

Definitions introduced as "Variant" are deliberate mistakes used only to show
that a property notices them; no specification uses them.

External machines. The three protocol crates are not in the repository, and
neither is the browser. The crates' behaviour is taken from the calls the code makes and from the vendored `rtc`
crate's use of the same API: Readable is raised on arrival, not while data is
left; DATA may come with the end of the association handshake; a lost
association may keep its streams or not.

## Runs

Passing:

| run | shows |
|---|---|
| `handshake` | An offerer under good, malformed, early, unauthenticated and deferred datagrams, failing connects and writes, loss, ticks and close: types, phase order, nothing waiting before the opening, a monotone trace, an honest timeout, one Opened and one Closed, silence after the end. |
| `data` | An answerer, whose association begins with the peer's INIT, comes up and carries messages below, at and above the size limit, empty messages, deferred batches, acknowledgements, caps and loss: message order, no stranded message except behind a refused one, the send buffer. |
| `liveness` | The handshake ends. |
| `driver_default` | The default options with a host that sends from onPacket: the driver implements `RelayContract`, strands nothing, keeps its timer early enough, delivers in order and nothing after onClose. |
| `driver_queue` | The queue policy with single-event polling: types, accounting, no message left waiting with room for it, order. Order is shown for messages of one size only. |
| `driver_reentrant` | Unbatched sends, and a host that sends and closes from onPacket: nested pumps still release once, keep the contract and never touch a disposed engine; the caller's await ends, and an engine's end closes the connection. |
| `rtc` | All three constructors and their refusals, handshake datagrams in every order and bundled with data or loss, messages SCTP refuses, foreign bytes, timeouts, a full pipeline, deferred batches, sends from empty to too large and close: the host's view implements `TunnelContract`; a Timeout hides no completed association; the trace is complete and ordered; messages in order; a message left in SCTP is not forgotten; the cap; every handshake ends, also of an offer that is never answered. |
| `wasm` | Two tunnels of one module, mixed polls and drains read one descriptor at a time with other calls in between, parameters at every edge: each event once, a safe heap with nothing but the scratch buffer left, numbers intact. |
| `browser` | Every order of timeout, channel and connection events, failing offer and close: `RelayContract`, a final end, a settled promise. |

Violations, each a disagreement of the code with its own documentation:

| run | what happens |
|---|---|
| `closed_last` | Events follow `Closed` although event.rs says none do: the loss flag is applied before the data of the same drain. The driver stops at Closed, so those messages are lost. |
| `fingerprint` | An applied answer fingerprint never reaches the verifier. |
| `driver_stats` | `stats()` after the close uses the disposed engine. |

Some properties hold only within limits, which the runs respect and a reader can
try by changing one constant:

- `SendWithinCap` of `DirectTunnel` allows one byte over the cap: an empty message
  is charged nothing and buffered as one byte. In `RtcTunnel` the counter itself
  loses that byte when the message is acknowledged, so the property allows one
  byte for every empty message sent so far. Within one association a host that
  sends many empty messages can so exceed the cap by as many bytes.
- `NothingStranded` says that a message left in SCTP's reassembly queue is parked
  or still to be announced, not when it is read. A deferred batch can fill the
  pipeline, and `finish_input_batch` then empties it and leaves the stream parked:
  the comment in sctp.rs says that a parked stream is read on when somebody
  asks for data, but `RTCPeerConnection::poll_read`, which the tunnel calls, does not
  reach that code, and `tick` does not either. Only another datagram does.
- `send` of the rtc backend accepts up to 262144 bytes while SCTP is left at its
  default of 65536. A message in between is accepted and charged, refused below
  with an error that is only logged, and its bytes stay in `buffered_bytes`, which
  is documented to return to zero. `SendWithinCap` holds with such messages; no
  property says that what is charged is released.
- `SentInOrder` is checked with messages of one size. Under the queue policy
  `send` tries the engine first, so with two sizes a small message overtakes a
  larger one that waits, on an ordered channel too.
- `TimerCovers` is checked for the drop policy. Under the queue policy pump arms
  the timer before it flushes the queue, whose sends may start an earlier
  engine timer; it is noticed at the next pump.
- `DriverRespectsDispose` is checked for the batched drain. With
  `eventBatchSize: 0` a close from onPacket makes the outer pump poll the
  disposed engine.
- `TunnelContract` is implemented by the rtc backend only. The direct backend
  reports data after `Closed` (`closed_last`), and a message read in the drain
  that opens the channel precedes `Opened`.
- `DeliveredInOrder` of `RtcTunnel` counts messages that SCTP hands on to the open
  channel, and says that those do not wait once a batch is finished. Messages
  parked in SCTP are not handed on yet. A message above the negotiated size is
  refused, and the messages the same round read in front of it are lost with
  it, so the host sees the others in order and without those. Data
  that comes with the end of the SCTP handshake reaches the data channel before
  it is dialed and is lost; data of a deferred batch that also ends the tunnel
  is dropped, because drain asks for events first. `SendDatagram` may follow
  `Closed` in this backend too, and is left out of the contract.
- The vendored `handle_read` logs its handlers' errors and always succeeds, so
  `dropped_datagrams` of the rtc backend, documented as a count of rejected
  datagrams, stays zero.
- `NumbersCrossIntact` speaks of calls that `validateRelayParams` passed. A caller
  of `createTunnel` itself gets the wrap-around. A negative `max_retransmits`,
  documented in the C ABI as unlimited, becomes `None` there and 0 in the direct
  backend; the provider refuses it.
- An association that drains inside a timeout is removed before it was asked
  what it had to say (sctp.rs, `handle_timeout`), so a tunnel of the rtc backend
  does not learn of it; the properties hold with that step, and none says
  otherwise.
- In `DirectTunnel` a new association is begun only where there is none; `feed_sctp`
  replaces the one there is. Only a peer that starts a second association, with
  a new verification tag, inside one DTLS connection meets the difference: a
  repeated INIT belongs to the association that exists.
- In `DirectTunnel`, DATA that comes with the end of the SCTP handshake may
  create the stream before `open_stream`, which then fails after it has marked
  the channel dialed; the channel opens without the configured reliability.
  Whether it happens depends on rtc-sctp, so no run states it.

Smaller things the models leave out: a host of `RelayDriver` makes at most one
call, send or close, from one onPacket; its engine has a deadline as long as it
lives, so `nextDeadline() === null` is met only at the end; the heap of
`WasmBoundary` holds the blocks of `rtc_tunnel_alloc`, so `HeapSafe` is about what
the host lends to the module and not about drained payloads or the handle itself; in
`BrowserRelay` a `channel.send` that throws is the caller's own exception and
changes nothing.

A host that calls close() from onPacket also gets the rest of the batch after
onClose. No document excludes it, so it is no finding; `NoPacketAfterClose` and
`PacketsInOrder` are checked for hosts that do not.

### Bounds

The way to an open tunnel takes three datagrams in both roles (an answerer's INIT
shares the record that completes DTLS), so `MaxInputs` leaves one more in
`handshake` and three in `data`.
One message is at most 2 long and the cap 2 or 3, so that a buffer can be
exactly full, overshot by one and refused. The clock passes the handshake
deadline by one. `MaxEvents` only delays calls until the host polls; a call may
exceed it. For the driver an engine answer has up to three events and a batch
holds two, so a drain can be short, exact and continued; up to four sends cover
accept, fill, queue and refuse. In `rtc` three datagrams open the channel and
two more carry data, acknowledgement and loss; the clock reaches the handshake
deadline. A datagram has up to three messages against a `BacklogLimit` of 2, so one
can fill the pipeline and a second find it full. Sizes 0, 2, 3 and 4 against a
`BufferLength` of 2, a limit of 3 and caps 2 and 5 reach an empty message and a
next one that takes SCTP over the cap, a message SCTP just takes, one it refuses,
an exactly full buffer, and a refusal by size and by room. In `wasm` the widths are scaled to 16 and 64 with the edges of both among the
parameters; lengths 0, 1, 3 and 9 against a smallest scratch of 2 leave it,
fill it, and grow it by doubling and by need; three events and drains of two
make a drain short, exact and empty; the two tunnels are symmetric. In `browser` three
messages and three changes of state exceed what any handler looks at.
`MaxCreates` and `MaxChanges` also exist for TLC only. `MaxTime`, `MaxInputs`, `MaxEvents` and
`MaxSends` exist for TLC only and the proofs hold for any value of them. A
message with an unknown PPID, which is read and dropped, is not represented.

### Fairness

`DirectTunnel!FairSpec` assumes that the clock advances, that the host polls
(pump drains to the end) and that it ticks when `next_deadline` has passed
(schedule arms that timer); nothing is assumed of the network or the libraries.
`RelayDriver!FairSpec` assumes that a task runs to its end, that the event loop
runs queued flushes and expired timers, that the clock advances and that the two
awaits of the set-up return. The relay's answers and the host's calls are not fair. The
engine's part, that a tick at the handshake deadline ends it, is what
`HandshakeEnds` shows of the core.

`RtcTunnel!FairSpec` assumes the clock and a tick once `next_deadline` is due
while the peer connection has no timer of its own; the network, the answer to
the offer and the host's other calls are not fair. `BrowserRelay!FairSpec` assumes
only that an armed `setTimeout` fires.

The driver runs and `rtc`, `wasm` and `browser` set `CHECK_DEADLOCK FALSE`: a
connection that was refused or closed, and a module whose tunnels are gone,
really have nothing left to do once the clock or the bound on calls stops.

## Proofs

Each theorem holds for every value of the constants that satisfies the one
named assumption of its module (types of the constants; TLC evaluates it on
every run): every set of datagrams, outcomes, reactions, sizes and caps, and
every bound. A theorem that needs more states it as a hypothesis.

| component | theorem | what it proves | beyond the types |
|---|---|---|---|
| direct backend | `TypeCorrect`, `PhasesInOrder`, `HandshakeIsDriven`, `TraceIsMonotone` | `TypeOK`, `PhaseOrder`, `NothingWaitsBeforeOpen`, `TraceMonotone` | |
| | `LifecycleToldOnce`, `TimeoutReportedHonestly`, `FinishedSaysNothing` | `LifecycleOnce`, `TimeoutIsHonest`, `FinishedIsSilent` | |
| | `StrandedByOversizeOnly`, `MessagesInOrder`, `SendKeepsCap` | `StrandedOnlyBehindOversize`, `DeliveredInOrder`, `SendWithinCap` | |
| relay driver | `TypeCorrect`, `QueueIsAccountedFor`, `QueueIsFlushed` | `TypeOK`, `QueueAccounting`, `QueueWaitsForRoom` | |
| | `SentInCallOrder` | `SentInOrder` | one message size |
| | `DriverImplementsContract`, `EverythingIsReleased`, `EventsAreDrained`, `InboundReachesEngine` | `KeepsContract`, `NothingLeaks`, `EventsDrained`, `InboundIsFlushed` | |
| | `TimerIsInTime` | `TimerCovers` | the drop policy |
| | `DisposedIsNotPolled` | `DriverRespectsDispose` | `EventBatchSize > 0` |
| | `SilentOnceClosed`, `PacketsKeepOrder` | `NoPacketAfterClose`, `PacketsInOrder` | batched sends, no close from onPacket |
| rtc backend | `TypeCorrect`, `TraceIsComplete`, `TimeoutReportedHonestly`, `TunnelImplementsContract` | `TypeOK`, `TraceComplete`, `TimeoutIsHonest`, `KeepsContract` | |
| | `MessagesInOrder`, `SendKeepsCap` | `DeliveredInOrder`, `SendWithinCap` | |
| wasm boundary | `ValidatedNumbersCross`, `HeapStaysSafe`, `EventsAreReadOnce` | `NumbersCrossIntact`, `HeapSafe`, `EachEventOnce` | |
| browser provider | `EndingIsFinal`, `BrowserImplementsContract` | `EndIsFinal`, `KeepsContract` | |

The hypotheses are the limits listed under Runs: each is a documented option of
the driver (`policy`, `eventBatchSize`, `sendBatch`) or a restriction of the
host, the default configuration satisfies those that concern options, and
without it the property is false of the code. Packets may arrive out
of order without batched sends because a send from onPacket then pumps in the
middle of the batch of the pump that called it.

### The arguments

Direct backend. None of the first four is inductive alone: the order of the
phases depends on how far the trace got, the trace on the clock of the last
call, and both on no Err being left over. The inductive invariant is TypeOK with
`Ready`: the phases and the trace in order (`Sound`), no Err, nothing pending
before the opening (`Settled`), and the tunnel's clock not ahead of the host's.
Inside a call it does not hold, so there is a weaker notion for the middle of a
pump, and one lemma per method says what that method needs and restores; the
step of each action cites the lemma of its method. The event proofs follow the
log of what was queued, polled or not, through the same methods. The data proofs
need that what is queued is the end of what arrived, and that without a pending
read something before it was refused. For the order of the messages `Matched` keeps two
lists side by side, the positions of the Message events in the log and those of
the acceptable messages read so far, with equal payloads: `read_stream` lengthens
both, and nothing else touches either. `poll_event` takes a datagram out of the middle of
the log, which moves positions but not their order; a list of increasing
positions gives each its rank, which is how the property is stated. `Matched`
holds while the stream exists and, to be inductive, while it may still come up
(`Live`): a purge ends both, since a closed association opens no stream.

Driver. A property of the rest state says nothing while pumps run, so the
invariant `Good` speaks of every state. `Told` ties what the host was told and
what is held for it to `opened`, `closed` and the phase of the set-up, `Flagged`
the two flags to the queued flushes. `Spoken` says that what the engine has
said is taken by some pump of the stack or by a scheduled flush, `Armed` that the
timer covers the deadline. `Stack` says how deep pumps nest: with batched sends
and no close from onPacket there is one, and none once closed. On it rests
`InSequence`, that what the host has not got yet is the rest of the batch
followed by the engine's queue. The send queue has `Sound` (accounted for, and its first
message does not fit), and `Ordered`: what the engine accepted followed by what waits is in
the order of the calls.

Rtc backend. Every call ends in `drain` or leaves the tunnel as it was. The proof
has three notions: `Ready` when drain is called, `Settled` when it returns, and
`Linked` for a peer connection at any moment (its transports come up on top of
each other, an association that is lost has told the channel, is about to or
has nothing left to say, and SCTP keeps nothing back before the channel opens). The decisive fact is that what opens the channel never shares a pass with
what ends the tunnel: before the opening every datagram is drained at once, so a
pass that completes the association has no ICE or DTLS event with it. Without
it Opened could follow Closed. `Lawful` describes the queue of events behind
what the host has polled, and gives the contract. `Flow` numbers the messages: what is
queued goes on from what was polled (`Counts`), and what waits in the peer
connection from what is queued (`Follows`), until the tunnel is finished. The cap
cannot be shown from the counter of the channel alone, because releases that SCTP has
made wait as notices for the next pass: `Ledger` is the counter's value after
each of them, and says that what is charged covers what is unacknowledged plus
all of them. The notices still inside the association (`Notices`) count too, and so
does a byte for each empty message, which the channel is never charged: this is
the slack the property allows. A refused message leaves the counter above what
SCTP holds, which the ledger permits. Loops over chunks and notices
are recursive functions; `LoopExists` and `RoundByRound` prove that such a
function exists and keeps what each round keeps, by the least index that fails.

Boundary. Numbers: the ranges that `validateRelayParams` accepts lie inside both
widths. Heap: between calls it holds the scratch buffer and nothing else (`Tidy`),
so every call starts from a heap it can account for. Events: of the events a
tunnel made each is in one place, its queue, the polled event, the descriptors
left to read or the host (`Once`); the descriptors are those of the events kept
alive, and a handle that is gone holds nothing (`Fine`).

Browser provider. `settled` and `opened` are the promise as the closure remembers
it, a closed connection has released everything, and the data channel has one
open event, which is handled at most once.

### Only model-checked

- The liveness properties `HandshakeEnds`, `PromiseSettles` and
  `EngineEndIsReported`: reasoning under fairness is beyond the prover.
- `NothingStranded`: to be inductive it has to count messages left in SCTP
  against announcements left in the association, one for each.
- The three violations, which are counterexamples.

## Not modelled

- The node runtime: a thin layer over `dgram` whose closed-socket guards are in
  `RelayDriver`. Its connect callback ignores the error it is given.
- `set_remote` and `set_remote_ice_credentials`: they change addresses and
  credentials, and a datagram of the models has neither.
- SDP and address parsing, the fingerprint's format, packet formats,
  cryptography: a text or packet is what it leads to.
- Callbacks that throw, and the text of the close reason: nothing documents
  what the driver promises a host whose callbacks throw. A host that sends a
  message that is too large from onPacket is taken to catch the error.
- The handshake timeout as a floating-point number (a fraction below one
  millisecond becomes zero) and an allocator that runs out of memory, which
  `Scratch.write` does not look for.
- Loading the wasm module, the entropy import, the read-only getters and the
  null-handle guards of the C ABI, which the engine never meets.
- The reference peer (a socket loop over the core), benchmarks, scripts and
  re-exports, which have no logic of their own.

## Plan

Done: `DirectTunnel`, `RelayContract`, `RelayDriver`, `TunnelContract`,
`RtcTunnel`, `WasmBoundary`, `BrowserRelay`, and proofs about each.

Every safety property of the passing runs but `NothingStranded` is proved.

Next: a proof of `NothingStranded`; `TwoTunnels`, an offerer and an answerer over a network that loses,
duplicates and reorders; the node runtime; callbacks that throw.
