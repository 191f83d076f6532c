---------------------------- MODULE WasmBoundary ----------------------------
(***************************************************************************)
(* The C ABI of crates/rtc-tunnel-wasm/src/lib.rs with its host side,      *)
(* packages/rtc-tunnel/src/engine/wasm.ts and validate.ts: how parameters, *)
(* buffers and events cross between JavaScript and linear memory.          *)
(*                                                                         *)
(* Several tunnels live in one module instance and share its allocator,    *)
(* its scratch buffer and LAST_ERROR.  What a tunnel does is any number of *)
(* new events (DirectTunnel and RtcTunnel say which); an event is its      *)
(* number.  The host obeys the documented lifetimes and nothing more: it   *)
(* reads a polled payload before the next poll and the descriptors of a    *)
(* drain one by one before the next drain of that tunnel, with any other   *)
(* call in between.  Integer widths are the constants U16 and U32.         *)
(***************************************************************************)
EXTENDS Integers, FiniteSetsExt, SequencesExt

CONSTANTS
    Tunnels,      \* tunnels of one module instance
    U16, U32,     \* 2^16 and 2^32
    Params,       \* parameters the caller may pass
    Lengths,      \* lengths of strings, datagrams and messages
    MinScratch,   \* smallest scratch buffer, 2048 in the code
    DrainMax,     \* eventBatchSize
    MaxEvents,    \* bound on the events of one tunnel, for TLC
    MaxCreates    \* bound on createTunnel calls, for TLC

\* What rtc_tunnel_create looks at, in its order; "core" is Tunnel::new.
Checks == <<"remote", "local", "ufrag", "pwd", "fingerprint", "algorithm",
            "sctp_port", "stream_id", "core">>
\* The strings of a call, in the order createTunnel copies them in.
Strings == <<"remote", "ufrag", "pwd", "fingerprint", "algorithm", "local">>

ASSUME WasmAssumption ==
    /\ {U16, U32, MinScratch, DrainMax, MaxEvents, MaxCreates} \subseteq Nat \ {0}
    /\ 2 * U16 <= U32
    /\ Lengths \subseteq Nat
    /\ \A p \in Params :
            /\ {p.sctpPort, p.streamId, p.maxRetransmits} \subseteq Int
            /\ p.malformed \subseteq Range(Checks)
            /\ p.lens \in [Range(Strings) -> Nat]

Null == 0
None == -1    \* Option::None

VARIABLES
    heap,       \* live allocations (address to length) and what was misused
    scratch,    \* the module's Scratch: ptr and cap
    handles,    \* the TunnelHandle of each tunnel
    host,       \* per tunnel, what the host has read and has still to read
    last_error, \* LAST_ERROR
    creates,    \* calls of createTunnel
    altered     \* a validated number was refused or changed on its way
vars == <<heap, scratch, handles, host, last_error, creates, altered>>

-----------------------------------------------------------------------------
(* rtc_tunnel_alloc, rtc_tunnel_free, slice_from and the host's buffers.   *)

\* The allocator reuses addresses; an empty allocation is null.
FreeAddress(h) == Min((1..Cardinality(DOMAIN h.blocks) + 1) \ DOMAIN h.blocks)
Address(h, len) == IF len = 0 THEN Null ELSE FreeAddress(h)
alloc(h, len) ==
    LET ptr == FreeAddress(h)
    IN  IF len = 0 THEN h
        ELSE [h EXCEPT !.blocks = [a \in DOMAIN @ \cup {ptr} |-> IF a = ptr THEN len ELSE @[a]]]

\* Layout::from_size_align_unchecked trusts the caller's length.
free(h, ptr, len) ==
    IF ptr = Null \/ len = 0 THEN h
    ELSE IF ptr \in DOMAIN h.blocks /\ h.blocks[ptr] = len
         THEN [h EXCEPT !.blocks = [a \in DOMAIN @ \ {ptr} |-> @[a]]]
         ELSE [h EXCEPT !.misused = TRUE]

\* Either side reads or writes len bytes at ptr.
access(h, ptr, len) ==
    IF len = 0 \/ (ptr \in DOMAIN h.blocks /\ len <= h.blocks[ptr]) THEN h
    ELSE [h EXCEPT !.misused = TRUE]

\* A buffer taken from h, and the same given back when the heap is g.
Borrow(h, len) == access(alloc(h, len), Address(h, len), len)
GiveBack(g, h, len) == free(g, Address(h, len), len)

\* withBuffer: a buffer for the length of one call.
WithBuffer(h, len) == GiveBack(Borrow(h, len), h, len)

\* Six nested withCString: the strings are copied in and, whether the call
\* succeeds or not, freed again from the innermost outwards.
WithCStrings(h, lens) ==
    LET len(i) == lens[Strings[i]]
        h1 == Borrow(h, len(1))
        h2 == Borrow(h1, len(2))
        h3 == Borrow(h2, len(3))
        h4 == Borrow(h3, len(4))
        h5 == Borrow(h4, len(5))
        g5 == WithBuffer(h5, len(6))
        g4 == GiveBack(g5, h4, len(5))
        g3 == GiveBack(g4, h3, len(4))
        g2 == GiveBack(g3, h2, len(3))
        g1 == GiveBack(g2, h1, len(2))
    IN  GiveBack(g1, h, len(1))

\* Variant: the capacity noted is the length just written.
ScratchWriteTight(sc, h, len) ==
    IF len <= sc.cap THEN [sc |-> sc, heap |-> access(h, sc.ptr, len)]
    ELSE LET freed == IF sc.ptr = Null THEN h ELSE free(h, sc.ptr, sc.cap)
             cap == Max({len, sc.cap * 2, MinScratch})
         IN  [sc |-> [ptr |-> FreeAddress(freed), cap |-> len],
              heap |-> access(alloc(freed, cap), FreeAddress(freed), len)]

\* Scratch.write: grown on demand, never freed per call.
ScratchWrite(sc, h, len) ==
    IF len <= sc.cap THEN [sc |-> sc, heap |-> access(h, sc.ptr, len)]
    ELSE LET freed == IF sc.ptr = Null THEN h ELSE free(h, sc.ptr, sc.cap)
             cap == Max({len, sc.cap * 2, MinScratch})
         IN  [sc |-> [ptr |-> FreeAddress(freed), cap |-> cap],
              heap |-> access(alloc(freed, cap), FreeAddress(freed), len)]

-----------------------------------------------------------------------------
(* validateRelayParams, createTunnel and rtc_tunnel_create.                *)

\* Variant: any retransmission count passes.
validateRelayParamsLoosely(p) ==
    /\ \A name \in Range(Strings) \ {"local"} : p.lens[name] > 0
    /\ p.sctpPort \in 1..(U16 - 1) /\ p.streamId \in 0..(U16 - 2)

\* The local address is the driver's; no address is parsed here.
validateRelayParams(p) ==
    /\ \A name \in Range(Strings) \ {"local"} : p.lens[name] > 0
    /\ p.sctpPort \in 1..(U16 - 1) /\ p.streamId \in 0..(U16 - 2)
    /\ p.maxRetransmits \in 0..(U16 - 1)

\* A JavaScript number crosses as u32 or i32 and wraps.
AsU32(n) == n % U32
AsI32(n) == IF n % U32 >= U32 \div 2 THEN (n % U32) - U32 ELSE n % U32

\* str_arg refuses a null pointer, which is what an empty string becomes.
Refusals(p) ==
    p.malformed \cup {name \in Range(Strings) : p.lens[name] = 0}
    \cup {name \in {"sctp_port"} : AsU32(p.sctpPort) > U16 - 1}
    \cup {name \in {"stream_id"} : AsU32(p.streamId) > U16 - 2}

FirstRefusal(p) == Checks[Min({i \in DOMAIN Checks : Checks[i] \in Refusals(p)})]

\* The numbers Tunnel::new gets; it consumes them, the handle keeps none.
TunnelConfig(p) ==
    [sctp_port |-> AsU32(p.sctpPort), stream_id |-> AsU32(p.streamId),
     max_retransmits |-> IF AsI32(p.maxRetransmits) >= 0 THEN AsI32(p.maxRetransmits) % U16 ELSE None]

\* The call is refused only for its text, and its numbers are the caller's.
Intact(p) ==
    /\ Refusals(p) \subseteq p.malformed \cup {"local"}
    /\ TunnelConfig(p) = [sctp_port |-> p.sctpPort, stream_id |-> p.streamId,
                          max_retransmits |-> p.maxRetransmits]

NoHandle == [status |-> "none", queue |-> <<>>, produced |-> 0, event_payload |-> 0,
             drained |-> <<>>, descriptors |-> <<>>, cipher |-> FALSE]
NothingRead == [got |-> {}, polled |-> FALSE, left |-> {}]

\* Through the provider, which validates first, or by createTunnel itself.
CreateTunnel(tn, p, validated) ==
    /\ handles[tn].status # "live" /\ creates < MaxCreates
    /\ creates' = creates + 1
    /\ host' = [host EXCEPT ![tn] = NothingRead]
    /\ altered' = (altered \/ (validated /\ validateRelayParams(p) /\ ~Intact(p)))
    /\ UNCHANGED scratch
    /\ IF validated /\ ~validateRelayParams(p)
       THEN UNCHANGED <<heap, handles, last_error>>
       ELSE IF Refusals(p) # {}
       THEN /\ last_error' = FirstRefusal(p)
            /\ heap' = WithBuffer(WithCStrings(heap, p.lens), 1)
            /\ UNCHANGED handles
       ELSE /\ last_error' = "none"
            /\ heap' = WithCStrings(heap, p.lens)
            /\ handles' = [handles EXCEPT ![tn] = [NoHandle EXCEPT !.status = "live"]]

-----------------------------------------------------------------------------
(* Calls on a tunnel.                                                      *)

\* The tunnel queues k more events.
Produce(h, k) ==
    [h EXCEPT !.queue = @ \o [i \in 1..k |-> h.produced + i], !.produced = @ + k]

Live(tn) == handles[tn].status = "live"
Update(tn, h) == handles' = [handles EXCEPT ![tn] = h]
Room(tn) == 0..(MaxEvents - handles[tn].produced)

\* The bytes of a call go through the scratch buffer and are read from there
\* before the call returns; the tunnel queues what they cause.
CopyIn(tn) ==
    /\ Live(tn)
    /\ \E len \in Lengths, k \in Room(tn) :
        LET w == ScratchWrite(scratch, heap, len)
        IN  /\ scratch' = w.sc
            /\ heap' = access(w.heap, w.sc.ptr, len)
            /\ Update(tn, Produce(handles[tn], k))
    /\ UNCHANGED <<host, last_error, creates, altered>>

\* input and inputDeferred.
Input(tn) == CopyIn(tn)

\* What send answers does not change the boundary's state.
Send(tn) == CopyIn(tn)

\* finishInputBatch and tick carry no bytes.
Advance(tn) ==
    /\ Live(tn)
    /\ \E k \in Room(tn) : Update(tn, Produce(handles[tn], k))
    /\ UNCHANGED <<heap, scratch, host, last_error, creates, altered>>

\* close ends the tunnel with at most one event; the handle stays.
Close(tn) ==
    /\ Live(tn)
    /\ \E k \in {0, 1} \cap Room(tn) : Update(tn, Produce(handles[tn], k))
    /\ UNCHANGED <<heap, scratch, host, last_error, creates, altered>>

\* The current event replaces the one before.
rtc_tunnel_poll_event(h) ==
    IF h.queue = <<>> THEN [h EXCEPT !.event_payload = 0]
    ELSE [h EXCEPT !.event_payload = Head(h.queue), !.queue = Tail(@)]

PollEvent(tn) ==
    /\ Live(tn) /\ ~host[tn].polled
    /\ Update(tn, rtc_tunnel_poll_event(handles[tn]))
    /\ host' = [host EXCEPT ![tn].polled = handles[tn].queue # <<>>]
    /\ UNCHANGED <<heap, scratch, last_error, creates, altered>>

\* The host copies what rtc_tunnel_event_ptr points at.
ReadPolled(tn) ==
    /\ Live(tn) /\ host[tn].polled
    /\ host' = [host EXCEPT ![tn].polled = FALSE, ![tn].got = @ \cup {handles[tn].event_payload}]
    /\ UNCHANGED <<heap, scratch, handles, last_error, creates, altered>>

\* Variant: the descriptors of the last drain are kept.
DrainAppending(h, max) ==
    LET taken == SubSeq(h.queue, 1, Min({max, Len(h.queue)}))
    IN  [h EXCEPT !.drained = taken, !.queue = SubSeq(@, Len(taken) + 1, Len(@)),
                  !.descriptors = @ \o taken]

\* Up to max events, kept alive until the next drain; a descriptor points at
\* the payload of its event.
rtc_tunnel_drain_events(h, max) ==
    LET taken == SubSeq(h.queue, 1, Min({max, Len(h.queue)}))
    IN  [h EXCEPT !.drained = taken, !.queue = SubSeq(@, Len(taken) + 1, Len(@)),
                  !.descriptors = taken]

DrainEvents(tn) ==
    /\ Live(tn) /\ host[tn].left = {}
    /\ LET h == rtc_tunnel_drain_events(handles[tn], DrainMax)
       IN  /\ Update(tn, h)
           /\ host' = [host EXCEPT ![tn].left = DOMAIN h.drained]
    /\ UNCHANGED <<heap, scratch, last_error, creates, altered>>

\* The host copies what one descriptor points at, first to last.
ReadDescriptor(tn) ==
    /\ Live(tn) /\ host[tn].left # {}
    /\ LET i == Min(host[tn].left)
       IN  host' = [host EXCEPT ![tn].left = @ \ {i},
                                ![tn].got = @ \cup {handles[tn].descriptors[i]}]
    /\ UNCHANGED <<heap, scratch, handles, last_error, creates, altered>>

\* offerSdp: a length, then a copy into a buffer of that length.
OfferSdp(tn) ==
    /\ Live(tn)
    /\ heap' = WithBuffer(heap, 1)
    /\ UNCHANGED <<scratch, handles, host, last_error, creates, altered>>

\* negotiatedCipherSuite, the same; cipher_name keeps the first name that the
\* tunnel knows, and without one there is nothing to copy.
NegotiatedCipherSuite(tn) ==
    /\ Live(tn)
    /\ \E known \in {handles[tn].cipher, TRUE} :
            /\ Update(tn, [handles[tn] EXCEPT !.cipher = known])
            /\ heap' = IF known THEN WithBuffer(heap, 1) ELSE heap
    /\ UNCHANGED <<scratch, host, last_error, creates, altered>>

\* dispose and rtc_tunnel_destroy: the events not yet taken go with the handle.
Dispose(tn) ==
    /\ Live(tn)
    /\ Update(tn, [NoHandle EXCEPT !.status = "destroyed"])
    /\ host' = [host EXCEPT ![tn] = NothingRead]
    /\ UNCHANGED <<heap, scratch, last_error, creates, altered>>

Init ==
    /\ heap = [blocks |-> <<>>, misused |-> FALSE]
    /\ scratch = [ptr |-> Null, cap |-> 0]
    /\ handles = [tn \in Tunnels |-> NoHandle]
    /\ host = [tn \in Tunnels |-> NothingRead]
    /\ last_error = "none" /\ creates = 0 /\ altered = FALSE

Next ==
    \E tn \in Tunnels :
        \/ \E p \in Params, validated \in BOOLEAN : CreateTunnel(tn, p, validated)
        \/ Input(tn) \/ Send(tn) \/ Advance(tn) \/ Close(tn)
        \/ PollEvent(tn) \/ ReadPolled(tn)
        \/ DrainEvents(tn) \/ ReadDescriptor(tn)
        \/ OfferSdp(tn) \/ NegotiatedCipherSuite(tn) \/ Dispose(tn)

Spec == Init /\ [][Next]_vars

-----------------------------------------------------------------------------
(* Properties.                                                             *)

\* Where the events of a tunnel are: in its queue, polled, drained, read.
Places(tn) ==
    LET h == handles[tn]
    IN  << Range(h.queue), IF host[tn].polled THEN {h.event_payload} ELSE {},
           {h.descriptors[i] : i \in host[tn].left}, host[tn].got >>

\* However polls and drains are mixed, every event a tunnel produced is in
\* exactly one place until the host has read it, and what the host has still
\* to read is there to be read: rtc_tunnel_poll_event and
\* rtc_tunnel_drain_events share the queue and nothing else.
EachEventOnce ==
    \A tn \in Tunnels :
        LET where == Places(tn)
        IN  /\ UNION Range(where) = 1..handles[tn].produced
            /\ \A i, j \in 1..4 : i # j => where[i] \cap where[j] = {}
            /\ where[3] \subseteq Range(handles[tn].drained)

\* Whatever the tunnels of a module do with the buffer they share, no call
\* reads or writes outside a live allocation, every free names the length that
\* was allocated, and between calls nothing but the scratch buffer is left.
HeapSafe ==
    /\ ~heap.misused
    /\ heap.blocks = [a \in {scratch.ptr} \ {Null} |-> scratch.cap]

\* Numbers wrap at the boundary and are cut to 16 bits behind it: whatever
\* validateRelayParams lets through, rtc_tunnel_create refuses only for its
\* text, and it reaches the tunnel as the caller wrote it, at every edge.
NumbersCrossIntact == ~altered
=============================================================================
