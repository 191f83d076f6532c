------------------------ MODULE WasmBoundaryProofs ------------------------
(***************************************************************************)
(* Proofs about WasmBoundary: validated numbers cross the boundary intact, *)
(* the heap is used as its allocator demands, and every event of a tunnel  *)
(* is read exactly once.                                                   *)
(***************************************************************************)
EXTENDS WasmBoundary, FiniteSetTheorems, WellFoundedInduction, TLAPS

-----------------------------------------------------------------------------
(* Numbers.                                                                *)

LEMMA SmallModulo ==
    ASSUME NEW n \in Nat, NEW m \in Nat, n < m
    PROVE  n % m = n
OBVIOUS

LEMMA BelowHalf ==
    ASSUME NEW n \in Nat, NEW k \in Nat, NEW m \in Nat, n < k, 2 * k <= m
    PROVE  ~(n >= m \div 2) /\ n < m
OBVIOUS

\* What fits 16 bits survives its way through 32.
LEMMA SixteenBits ==
    ASSUME NEW n \in 0..(U16 - 1)
    PROVE  AsU32(n) = n /\ AsI32(n) = n /\ n % U16 = n
<1>1. n \in Nat /\ U16 \in Nat /\ U32 \in Nat /\ n < U16 /\ 2 * U16 <= U32
  BY WasmAssumption
<1>2. ~(n >= U32 \div 2) /\ n < U32
  BY <1>1, BelowHalf
<1>3. n % U32 = n /\ n % U16 = n
  BY <1>1, <1>2, SmallModulo
<1> QED BY <1>2, <1>3 DEF AsU32, AsI32

LEMMA StringNames ==
    /\ Range(Strings) = {"remote", "ufrag", "pwd", "fingerprint", "algorithm", "local"}
    /\ \A i \in 1..6 : Strings[i] \in Range(Strings)
BY DEF Range, Strings

\* Whatever validateRelayParams accepts is refused for its text only.
LEMMA ValidatedIsIntact ==
    ASSUME NEW p \in Params, validateRelayParams(p)
    PROVE  Intact(p)
<1>1. /\ p.lens \in [Range(Strings) -> Nat]
      /\ \A name \in Range(Strings) \ {"local"} : p.lens[name] > 0
      /\ p.sctpPort \in 0..(U16 - 1) /\ p.streamId \in 0..(U16 - 1) /\ p.streamId <= U16 - 2
      /\ p.maxRetransmits \in 0..(U16 - 1)
  BY WasmAssumption DEF validateRelayParams
<1>2. /\ AsU32(p.sctpPort) = p.sctpPort /\ AsU32(p.streamId) = p.streamId
      /\ AsI32(p.maxRetransmits) = p.maxRetransmits /\ p.maxRetransmits % U16 = p.maxRetransmits
  BY <1>1, SixteenBits
<1>3. ~(AsU32(p.sctpPort) > U16 - 1) /\ ~(AsU32(p.streamId) > U16 - 2) /\ p.maxRetransmits >= 0
  BY <1>1, <1>2, WasmAssumption
<1>4. \A name \in Range(Strings) : p.lens[name] = 0 => name = "local"
  BY <1>1
<1>5. Refusals(p) \subseteq p.malformed \cup {"local"}
  BY <1>3, <1>4 DEF Refusals
<1>6. TunnelConfig(p) = [sctp_port |-> p.sctpPort, stream_id |-> p.streamId,
                         max_retransmits |-> p.maxRetransmits]
  BY <1>2, <1>3 DEF TunnelConfig
<1> QED BY <1>5, <1>6 DEF Intact

\* Numbers that pass validateRelayParams reach the tunnel as the caller wrote
\* them, for every width of the integers with room for twice sixteen bits.
THEOREM ValidatedNumbersCross == Spec => []NumbersCrossIntact
<1>1. Init => NumbersCrossIntact
  BY DEF Init, NumbersCrossIntact
<1>2. NumbersCrossIntact /\ [Next]_vars => NumbersCrossIntact'
  <2>1. ASSUME NumbersCrossIntact, NEW tn \in Tunnels, NEW p \in Params, NEW validated \in BOOLEAN,
               CreateTunnel(tn, p, validated)
        PROVE  ~altered'
    BY <2>1, ValidatedIsIntact DEF CreateTunnel, NumbersCrossIntact
  <2>2. ASSUME NumbersCrossIntact, UNCHANGED altered PROVE ~altered'
    BY <2>2 DEF NumbersCrossIntact
  <2>3. ASSUME NEW tn \in Tunnels, \/ Input(tn) \/ Send(tn) \/ Advance(tn) \/ Close(tn)
                                   \/ PollEvent(tn) \/ ReadPolled(tn) \/ DrainEvents(tn)
                                   \/ ReadDescriptor(tn) \/ OfferSdp(tn)
                                   \/ NegotiatedCipherSuite(tn) \/ Dispose(tn)
        PROVE  UNCHANGED altered
    BY <2>3 DEF Input, Send, CopyIn, Advance, Close, PollEvent, ReadPolled, DrainEvents,
                ReadDescriptor, OfferSdp, NegotiatedCipherSuite, Dispose
  <2>4. UNCHANGED vars => UNCHANGED altered
    BY DEF vars
  <2> QED BY <2>1, <2>2, <2>3, <2>4 DEF Next, NumbersCrossIntact
<1> QED BY <1>1, <1>2, PTL DEF Spec

-----------------------------------------------------------------------------
(* The heap.                                                               *)

LEMMA LeastOf ==
    ASSUME NEW S, S \subseteq Nat, S # {}
    PROVE  Min(S) \in S
<1>1. \E m \in S : \A k \in S : <<k, m>> \notin OpToRel(<, Nat)
  BY NatLessThanWellFounded, WFMin
<1>2. PICK m \in S : \A k \in S : <<k, m>> \notin OpToRel(<, Nat)
  BY <1>1
<1>3. ASSUME NEW k \in S PROVE m <= k
  <2>1. k \in Nat /\ m \in Nat
    OBVIOUS
  <2>2. ~(k < m)
    BY <1>2, <2>1, Zenon DEF OpToRel
  <2> QED BY <2>1, <2>2
<1>4. \E x \in S : \A y \in S : x <= y
  BY <1>3
<1> QED BY <1>4 DEF Min

\* A heap that nobody has misused.
Sane(h) ==
    /\ h = [blocks |-> h.blocks, misused |-> FALSE]
    /\ h.blocks = [a \in DOMAIN h.blocks |-> h.blocks[a]]
    /\ IsFiniteSet(DOMAIN h.blocks) /\ DOMAIN h.blocks \subseteq Nat \ {Null}

\* The allocator always finds an address that is not in use.
LEMMA FreshAddress ==
    ASSUME NEW h, Sane(h)
    PROVE  FreeAddress(h) \in Nat \ {Null} /\ FreeAddress(h) \notin DOMAIN h.blocks
<1> DEFINE D == DOMAIN h.blocks
           n == Cardinality(D)
           S == (1..(n + 1)) \ D
<1>1. IsFiniteSet(D) /\ n \in Nat
  BY FS_CardinalityType DEF Sane
<1>2. FreeAddress(h) = Min(S)
  BY DEF FreeAddress
<1> HIDE DEF D
<1>3. S # {}
  <2> SUFFICES ASSUME 1..(n + 1) \subseteq D PROVE FALSE
    OBVIOUS
  <2> DEFINE k == n + 1
             I == 1..k
  <2>1. k \in Nat /\ 1 \in Int /\ k \in Int /\ ~(1 > k)
    BY <1>1
  <2>2. Cardinality(I) = k - 1 + 1
    <3> HIDE DEF k
    <3> QED BY <2>1, FS_Interval
  <2>3. I \in SUBSET D
    OBVIOUS
  <2> HIDE DEF I
  <2>4. Cardinality(I) <= Cardinality(D)
    BY <1>1, <2>3, FS_Subset
  <2> HIDE DEF k
  <2>5. k <= n
    BY <2>1, <2>2, <2>4
  <2> QED BY <1>1, <2>5 DEF k
<1>4. S \subseteq Nat \ {Null} /\ S \subseteq Nat
  BY DEF Null
<1>5. Min(S) \in S
  <2> HIDE DEF S
  <2> QED BY <1>3, <1>4, LeastOf
<1>6. Min(S) \notin D
  BY <1>5
<1> HIDE DEF S
<1> QED BY <1>2, <1>4, <1>5, <1>6 DEF D

\* What is borrowed can be written, and giving it back leaves no trace.
LEMMA Borrowed ==
    ASSUME NEW h, Sane(h), NEW len \in Nat
    PROVE  Sane(Borrow(h, len)) /\ GiveBack(Borrow(h, len), h, len) = h
<1>1. CASE len = 0
  <2>1. alloc(h, len) = h /\ Address(h, len) = Null
    BY <1>1 DEF alloc, Address
  <2>2. \A g : access(g, Null, len) = g /\ free(g, Null, len) = g
    BY <1>1 DEF access, free
  <2> QED BY <2>1, <2>2 DEF Borrow, GiveBack
<1>2. CASE len # 0
  <2> DEFINE ptr == FreeAddress(h)
             b == h.blocks
             D == DOMAIN b
             c == [a \in D \cup {ptr} |-> IF a = ptr THEN len ELSE b[a]]
             g == [blocks |-> c, misused |-> FALSE]
  <2>1. ptr \in Nat \ {Null} /\ ptr \notin D
    BY FreshAddress
  <2>2. alloc(h, len) = g
    <3>1. alloc(h, len) = [h EXCEPT !.blocks = c]
      BY <1>2 DEF alloc
    <3> HIDE DEF c, b
    <3>2. h = [blocks |-> b, misused |-> FALSE]
      BY DEF Sane, b
    <3> QED BY <3>1, <3>2
  <2>3. Address(h, len) = ptr
    BY <1>2 DEF Address
  <2> HIDE DEF ptr
  <2>4. DOMAIN c = D \cup {ptr} /\ c[ptr] = len /\ c = [a \in DOMAIN c |-> c[a]]
    OBVIOUS
  <2>5. IsFiniteSet(D \cup {ptr})
    <3>1. IsFiniteSet(D)
      BY DEF Sane
    <3> HIDE DEF D
    <3> QED BY <3>1, FS_AddElement
  <2>6. g.blocks = c /\ g.misused = FALSE
    OBVIOUS
  <2>7. Sane(g)
    <3>1. DOMAIN c \subseteq Nat \ {Null}
      BY <2>1, <2>4 DEF Sane
    <3> HIDE DEF c
    <3> QED BY <2>4, <2>5, <2>6, <3>1 DEF Sane
  <2>8. Borrow(h, len) = g
    <3>1. ptr \in DOMAIN c /\ len <= c[ptr]
      BY <2>4
    <3> HIDE DEF c, g
    <3> QED BY <2>2, <2>3, <2>6, <3>1 DEF Borrow, access
  <2>9. free(g, ptr, len) = h
    <3> DEFINE e == [a \in DOMAIN c \ {ptr} |-> c[a]]
    <3>1. e = b
      <4>1. DOMAIN c \ {ptr} = D
        BY <2>1, <2>4
      <4>2. \A a \in D : c[a] = b[a]
        BY <2>1
      <4>3. b = [a \in D |-> b[a]]
        BY DEF Sane
      <4> HIDE DEF c
      <4> QED BY <4>1, <4>2, <4>3
    <3>2. free(g, ptr, len) = [g EXCEPT !.blocks = e]
      <4>1. ptr \in DOMAIN c /\ c[ptr] = len /\ ptr # Null
        BY <2>1, <2>4
      <4> HIDE DEF c
      <4> QED BY <1>2, <2>6, <4>1 DEF free
    <3>3. [g EXCEPT !.blocks = e] = [blocks |-> e, misused |-> FALSE]
      <4> HIDE DEF c, e
      <4>1. g = [blocks |-> c, misused |-> FALSE]
        OBVIOUS
      <4> HIDE DEF g
      <4> DEFINE m == FALSE
      <4> HIDE DEF m
      <4>2. g = [blocks |-> c, misused |-> m]
        BY <4>1 DEF m
      <4>3. [g EXCEPT !.blocks = e] = [blocks |-> e, misused |-> m]
        BY <4>2
      <4> QED BY <4>3 DEF m
    <3>4. h = [blocks |-> b, misused |-> FALSE]
      BY DEF Sane
    <3> HIDE DEF g, e, b, c
    <3> QED BY <3>1, <3>2, <3>3, <3>4
  <2> HIDE DEF g
  <2> QED BY <2>3, <2>7, <2>8, <2>9 DEF GiveBack
<1> QED BY <1>1, <1>2

LEMMA CallsLeaveNoTrace ==
    ASSUME NEW h, Sane(h)
    PROVE  /\ WithBuffer(h, 1) = h
           /\ \A p \in Params : WithCStrings(h, p.lens) = h
<1>1. WithBuffer(h, 1) = h
  BY Borrowed DEF WithBuffer
<1>2. ASSUME NEW p \in Params PROVE WithCStrings(h, p.lens) = h
  <2> DEFINE len(i) == p.lens[Strings[i]]
             h1 == Borrow(h, len(1))
             h2 == Borrow(h1, len(2))
             h3 == Borrow(h2, len(3))
             h4 == Borrow(h3, len(4))
             h5 == Borrow(h4, len(5))
  <2>1. \A i \in 1..6 : len(i) \in Nat
    BY StringNames, WasmAssumption
  <2>2. len(1) \in Nat /\ len(2) \in Nat /\ len(3) \in Nat /\ len(4) \in Nat /\ len(5) \in Nat
        /\ len(6) \in Nat
    BY <2>1
  <2>3. WithCStrings(h, p.lens) =
          GiveBack(GiveBack(GiveBack(GiveBack(GiveBack(WithBuffer(h5, len(6)), h4, len(5)),
                                              h3, len(4)), h2, len(3)), h1, len(2)), h, len(1))
    BY DEF WithCStrings
  <2> HIDE DEF len
  <2>4. Sane(h1) /\ GiveBack(h1, h, len(1)) = h
    BY <2>2, Borrowed
  <2> HIDE DEF h1
  <2>5. Sane(h2) /\ GiveBack(h2, h1, len(2)) = h1
    BY <2>2, <2>4, Borrowed
  <2> HIDE DEF h2
  <2>6. Sane(h3) /\ GiveBack(h3, h2, len(3)) = h2
    BY <2>2, <2>5, Borrowed
  <2> HIDE DEF h3
  <2>7. Sane(h4) /\ GiveBack(h4, h3, len(4)) = h3
    BY <2>2, <2>6, Borrowed
  <2> HIDE DEF h4
  <2>8. Sane(h5) /\ GiveBack(h5, h4, len(5)) = h4
    BY <2>2, <2>7, Borrowed
  <2> HIDE DEF h5
  <2>9. WithBuffer(h5, len(6)) = h5
    BY <2>2, <2>8, Borrowed DEF WithBuffer
  <2> QED BY <2>3, <2>4, <2>5, <2>6, <2>7, <2>8, <2>9
<1> QED BY <1>1, <1>2

\* Between calls the heap holds the scratch buffer and nothing else.
Scratch == [ptr : Nat, cap : Nat]
Tidy(h, sc) ==
    /\ sc \in Scratch /\ (sc.ptr = Null <=> sc.cap = 0)
    /\ h = [blocks |-> [a \in {sc.ptr} \ {Null} |-> sc.cap], misused |-> FALSE]

LEMMA TidyIsSane ==
    ASSUME NEW h, NEW sc, Tidy(h, sc)
    PROVE  Sane(h)
<1> DEFINE b == [a \in {sc.ptr} \ {Null} |-> sc.cap]
           D == {sc.ptr} \ {Null}
<1>1. h = [blocks |-> b, misused |-> FALSE]
  BY DEF Tidy
<1>2. DOMAIN b = D /\ D \subseteq Nat \ {Null} /\ b = [a \in DOMAIN b |-> b[a]]
  BY DEF Tidy, Scratch
<1>3. IsFiniteSet(D)
  <2>1. IsFiniteSet({sc.ptr}) /\ D \in SUBSET {sc.ptr}
    BY FS_Singleton
  <2> HIDE DEF D
  <2> QED BY <2>1, FS_Subset
<1> HIDE DEF b, D
<1>4. h.blocks = b
  BY <1>1
<1> QED BY <1>1, <1>2, <1>3, <1>4 DEF Sane

\* Scratch.write: what it writes and what the call reads is inside the buffer,
\* and a buffer that is replaced is freed with the length it was taken with.
LEMMA ScratchWriteTidy ==
    ASSUME NEW h, NEW sc, Tidy(h, sc), NEW len \in Nat
    PROVE  LET w == ScratchWrite(sc, h, len) IN
           Tidy(w.heap, w.sc) /\ access(w.heap, w.sc.ptr, len) = w.heap
<1>0. /\ sc \in Scratch /\ sc.ptr \in Nat /\ sc.cap \in Nat /\ (sc.ptr = Null <=> sc.cap = 0)
      /\ MinScratch \in Nat \ {0}
  BY WasmAssumption DEF Tidy, Scratch
<1>1. ASSUME NEW g, NEW d, Tidy(g, d), len <= d.cap
      PROVE  access(g, d.ptr, len) = g
  <2>1. CASE len = 0
    BY <2>1 DEF access
  <2>2. CASE len # 0
    <3>1. d.ptr \in Nat /\ d.cap \in Nat /\ d.ptr # Null
      BY <1>1, <2>2 DEF Tidy, Scratch
    <3>2. g.blocks = [a \in {d.ptr} \ {Null} |-> d.cap]
      BY <1>1 DEF Tidy
    <3>3. d.ptr \in DOMAIN g.blocks /\ len <= g.blocks[d.ptr]
      BY <1>1, <3>1, <3>2
    <3> QED BY <3>3 DEF access
  <2> QED BY <2>1, <2>2
<1>2. CASE len <= sc.cap
  <2>1. ScratchWrite(sc, h, len) = [sc |-> sc, heap |-> access(h, sc.ptr, len)]
    BY <1>2 DEF ScratchWrite
  <2>2. access(h, sc.ptr, len) = h
    BY <1>1, <1>2
  <2> QED BY <2>1, <2>2
<1>3. CASE ~(len <= sc.cap)
  <2> DEFINE freed == IF sc.ptr = Null THEN h ELSE free(h, sc.ptr, sc.cap)
             cap == Max({len, sc.cap * 2, MinScratch})
             ptr == FreeAddress(freed)
             d == [ptr |-> ptr, cap |-> cap]
             g == alloc(freed, cap)
             w == ScratchWrite(sc, h, len)
  <2>1. w = [sc |-> d, heap |-> access(g, ptr, len)]
    BY <1>3 DEF ScratchWrite
  <2>2. freed = [blocks |-> [a \in {} |-> 0], misused |-> FALSE]
    <3>1. h = [blocks |-> [a \in {sc.ptr} \ {Null} |-> sc.cap], misused |-> FALSE]
      BY DEF Tidy
    <3>2. CASE sc.ptr = Null
      <4>1. [a \in {sc.ptr} \ {Null} |-> sc.cap] = [a \in {} |-> 0]
        BY <3>2
      <4> QED BY <3>1, <3>2, <4>1
    <3>3. CASE sc.ptr # Null
      <4> DEFINE b == [a \in {sc.ptr} \ {Null} |-> sc.cap]
                 e == [a \in DOMAIN b \ {sc.ptr} |-> b[a]]
      <4>1. sc.ptr \in DOMAIN b /\ b[sc.ptr] = sc.cap /\ sc.cap # 0 /\ e = [a \in {} |-> 0]
        BY <1>0, <3>3
      <4>2. h.blocks = b /\ h = [blocks |-> b, misused |-> FALSE]
        BY <3>1
      <4> HIDE DEF b
      <4>3. free(h, sc.ptr, sc.cap) = [h EXCEPT !.blocks = e]
        BY <3>3, <4>1, <4>2 DEF free
      <4> HIDE DEF e
      <4>4. [h EXCEPT !.blocks = e] = [blocks |-> e, misused |-> FALSE]
        <5>1. h = [blocks |-> b, misused |-> FALSE]
          BY <4>2
        <5> DEFINE m == FALSE
        <5> HIDE DEF m, d, g, w, cap, ptr
        <5>2. h = [blocks |-> b, misused |-> m]
          BY <5>1 DEF m
        <5>3. [h EXCEPT !.blocks = e] = [blocks |-> e, misused |-> m]
          BY <5>2
        <5> QED BY <5>3 DEF m
      <4> QED BY <3>3, <4>1, <4>3, <4>4
    <3> QED BY <3>2, <3>3
  <2>3. cap \in Nat \ {0} /\ len <= cap
    <3> DEFINE n == sc.cap * 2
               S == {len, n, MinScratch}
    <3>1. len \in Nat /\ n \in Nat /\ MinScratch \in Nat \ {0}
      BY <1>0
    <3> HIDE DEF n
    <3>2. \E x \in S : \A y \in S : x >= y
      BY <3>1
    <3>3. Max(S) \in S /\ \A y \in S : Max(S) >= y
      <4> HIDE DEF S
      <4> QED BY <3>2 DEF Max
    <3>4. cap = Max(S)
      BY DEF n
    <3> HIDE DEF cap
    <3> QED BY <3>1, <3>3, <3>4
  <2> HIDE DEF cap
  <2>4. Sane(freed)
    <3> DEFINE z == [a \in {} |-> 0]
    <3>1. DOMAIN z = {} /\ z = [a \in DOMAIN z |-> z[a]] /\ IsFiniteSet({})
      BY FS_EmptySet
    <3> HIDE DEF z
    <3>2. freed = [blocks |-> z, misused |-> FALSE] /\ freed.blocks = z
      BY <2>2 DEF z
    <3> QED BY <3>1, <3>2 DEF Sane
  <2> HIDE DEF freed
  <2>5. ptr \in Nat \ {Null}
    BY <2>4, FreshAddress
  <2>6. g = [blocks |-> [a \in {ptr} \ {Null} |-> cap], misused |-> FALSE]
    <3> DEFINE c == [a \in DOMAIN freed.blocks \cup {ptr} |-> IF a = ptr THEN cap ELSE freed.blocks[a]]
    <3>1. g = [freed EXCEPT !.blocks = c]
      BY <2>3 DEF alloc
    <3>2. DOMAIN freed.blocks = {}
      BY <2>2
    <3> HIDE DEF ptr
    <3>3. c = [a \in {ptr} \ {Null} |-> cap]
      BY <2>5, <3>2
    <3> HIDE DEF c, g
    <3>4. g = [blocks |-> c, misused |-> FALSE]
      BY <2>2, <3>1
    <3> QED BY <3>3, <3>4
  <2> HIDE DEF ptr, g
  <2>7. Tidy(g, d)
    BY <2>3, <2>5, <2>6 DEF Tidy, Scratch, Null
  <2>8. access(g, d.ptr, len) = g
    BY <1>1, <2>3, <2>7
  <2>9. w.sc = d /\ w.heap = g
    BY <2>1, <2>8
  <2> HIDE DEF w, d
  <2> QED BY <2>7, <2>8, <2>9 DEF w
<1> QED BY <1>2, <1>3

\* Whatever the tunnels do with the scratch buffer they share, no call reads
\* or writes outside a live allocation and nothing is freed with a length
\* that is not its own.
THEOREM HeapStaysSafe == Spec => []HeapSafe
<1> DEFINE J == Tidy(heap, scratch)
<1>1. Init => J
  <2> SUFFICES ASSUME Init PROVE J
    OBVIOUS
  <2>1. heap = [blocks |-> <<>>, misused |-> FALSE] /\ scratch = [ptr |-> 0, cap |-> 0]
    BY DEF Init, Null
  <2>2. <<>> = [a \in {} |-> 0]
    OBVIOUS
  <2>3. [a \in {0} \ {0} |-> 0] = [a \in {} |-> 0]
    OBVIOUS
  <2> QED BY <2>1, <2>2, <2>3 DEF Tidy, Scratch, Null
<1>2. J /\ [Next]_vars => J'
  <2> SUFFICES ASSUME J, [Next]_vars PROVE J'
    OBVIOUS
  <2>0. Sane(heap)
    BY TidyIsSane
  <2>1. WithBuffer(heap, 1) = heap /\ \A p \in Params : WithCStrings(heap, p.lens) = heap
    BY <2>0, CallsLeaveNoTrace
  <2>2. ASSUME NEW tn \in Tunnels, Input(tn) \/ Send(tn)
        PROVE  J'
    <3>1. PICK len \in Lengths : LET w == ScratchWrite(scratch, heap, len)
                                 IN scratch' = w.sc /\ heap' = access(w.heap, w.sc.ptr, len)
      BY <2>2 DEF Input, Send, CopyIn
    <3>2. len \in Nat
      BY WasmAssumption
    <3> QED BY <3>1, <3>2, ScratchWriteTidy
  <2>3. ASSUME NEW tn \in Tunnels, NEW p \in Params, NEW v \in BOOLEAN, CreateTunnel(tn, p, v)
        PROVE  UNCHANGED <<heap, scratch>>
    <3>1. UNCHANGED scratch
      BY <2>3 DEF CreateTunnel
    <3>2. \/ heap' = heap \/ heap' = WithBuffer(WithCStrings(heap, p.lens), 1)
          \/ heap' = WithCStrings(heap, p.lens)
      BY <2>3 DEF CreateTunnel
    <3> QED BY <2>1, <3>1, <3>2
  <2>4. ASSUME NEW tn \in Tunnels, \/ Advance(tn) \/ Close(tn) \/ PollEvent(tn) \/ ReadPolled(tn)
                                   \/ DrainEvents(tn) \/ ReadDescriptor(tn) \/ Dispose(tn)
        PROVE  UNCHANGED <<heap, scratch>>
    BY <2>4 DEF Advance, Close, PollEvent, ReadPolled, DrainEvents, ReadDescriptor, Dispose
  <2>5. ASSUME NEW tn \in Tunnels, OfferSdp(tn) \/ NegotiatedCipherSuite(tn)
        PROVE  UNCHANGED <<heap, scratch>>
    <3>1. UNCHANGED scratch /\ (heap' = heap \/ heap' = WithBuffer(heap, 1))
      BY <2>5 DEF OfferSdp, NegotiatedCipherSuite
    <3> QED BY <2>1, <3>1
  <2>6. UNCHANGED vars => UNCHANGED <<heap, scratch>>
    BY DEF vars
  <2>7. UNCHANGED <<heap, scratch>> => J'
    OBVIOUS
  <2> QED BY <2>2, <2>3, <2>4, <2>5, <2>6, <2>7 DEF Next
<1>3. J => HeapSafe
  BY DEF Tidy, HeapSafe
<1> HIDE DEF J
<1> QED BY <1>1, <1>2, <1>3, PTL DEF Spec

-----------------------------------------------------------------------------
(* Events.                                                                 *)

Distinct(q) == \A i, j \in DOMAIN q : i # j => q[i] # q[j]

\* Of the events 1..n each is in one place: the queue q, the polled ones P,
\* the descriptors d that are left to read, or what the host has read.
Once(q, P, d, left, got, n) ==
    /\ q \in Seq(Nat) /\ d \in Seq(Nat) /\ n \in Nat
    /\ P \subseteq Nat /\ got \subseteq Nat /\ left \subseteq DOMAIN d
    /\ Distinct(q) /\ Distinct(d)
    /\ \A e \in Nat : e \in 1..n <=> \/ \E i \in DOMAIN q : q[i] = e
                                     \/ e \in P
                                     \/ \E i \in left : d[i] = e
                                     \/ e \in got
    /\ \A i \in DOMAIN q : q[i] \notin P /\ q[i] \notin got
    /\ \A i \in DOMAIN q : \A j \in left : d[j] # q[i]
    /\ \A e \in P : e \notin got
    /\ \A e \in P : \A j \in left : d[j] # e
    /\ \A j \in left : d[j] \notin got

LEMMA OnceProduce ==
    ASSUME NEW q, NEW P, NEW d, NEW left, NEW got, NEW n, Once(q, P, d, left, got, n),
           NEW k \in Nat
    PROVE  Once(q \o [i \in 1..k |-> n + i], P, d, left, got, n + k)
<1> DEFINE f == [i \in 1..k |-> n + i]
           r == q \o f
<1>1. n \in Nat /\ q \in Seq(Nat)
  BY DEF Once
<1>2. f \in Seq(Nat) /\ Len(f) = k /\ \A i \in 1..k : f[i] = n + i
  BY <1>1
<1> HIDE DEF f
<1> DEFINE m == Len(q)
<1>3. m \in Nat /\ DOMAIN q = 1..m /\ r \in Seq(Nat) /\ DOMAIN r = 1..(m + k)
  <2>0. r \in Seq(Nat)
    BY <1>1, <1>2
  <2>1. Len(r) = m + k
    <3>1. f \in Seq(Nat) /\ q \in Seq(Nat) /\ Len(f) = k
      BY <1>1, <1>2
    <3>2. Len(q \o f) = Len(q) + Len(f)
      BY <3>1
    <3> QED BY <3>1, <3>2
  <2> HIDE DEF r
  <2> QED BY <1>1, <2>0, <2>1
<1>4. /\ \A i \in 1..m : r[i] = q[i]
      /\ \A i \in 1..k : r[m + i] = n + i
  <2>1. \A i \in 1..(m + k) : r[i] = IF i <= m THEN q[i] ELSE f[i - m]
    BY <1>1, <1>2
  <2> HIDE DEF r
  <2>2. ASSUME NEW i \in 1..k PROVE r[m + i] = n + i
    <3> HIDE DEF m
    <3>1. m + i \in 1..(m + k) /\ ~(m + i <= m) /\ (m + i) - m = i
      BY <1>3
    <3>2. r[m + i] = f[(m + i) - m]
      BY <2>1, <3>1
    <3> QED BY <1>2, <3>1, <3>2
  <2>3. ASSUME NEW i \in 1..m PROVE r[i] = q[i]
    <3> HIDE DEF m
    <3>1. i \in 1..(m + k) /\ i <= m
      BY <1>3
    <3> QED BY <2>1, <3>1
  <2> QED BY <2>2, <2>3
<1> HIDE DEF r, m
<1>5. \A i \in DOMAIN r : i \in 1..m \/ \E j \in 1..k : i = m + j
  <2> TAKE i \in DOMAIN r
  <2>1. CASE i <= m
    BY <1>3, <2>1
  <2>2. CASE ~(i <= m)
    <3>1. i - m \in 1..k /\ i = m + (i - m)
      BY <1>3, <2>2
    <3> QED BY <3>1
  <2> QED BY <2>1, <2>2
<1>6. /\ \A i \in 1..m : q[i] \in 1..n
      /\ \A e \in P \cup got : e \in 1..n
      /\ \A j \in left : d[j] \in 1..n
  <2>1. \A i \in 1..m : q[i] \in Nat
    BY <1>1, <1>3
  <2>2. \A j \in left : d[j] \in Nat
    BY DEF Once
  <2> QED BY <1>3, <2>1, <2>2 DEF Once
\* What is new is larger than all there was.
<1>7. \A j \in 1..k : n + j \notin 1..n /\ \A i \in 1..k : i # j => n + i # n + j
  BY <1>1
<1>8. Distinct(r)
  <2> SUFFICES ASSUME NEW i \in DOMAIN r, NEW j \in DOMAIN r, i # j PROVE r[i] # r[j]
    BY DEF Distinct
  <2>1. CASE i \in 1..m /\ j \in 1..m
    BY <1>3, <1>4, <2>1 DEF Once, Distinct
  <2>2. CASE i \in 1..m /\ \E b \in 1..k : j = m + b
    BY <1>4, <1>6, <1>7, <2>2
  <2>3. CASE j \in 1..m /\ \E a \in 1..k : i = m + a
    BY <1>4, <1>6, <1>7, <2>3
  <2>4. CASE (\E a \in 1..k : i = m + a) /\ \E b \in 1..k : j = m + b
    <3> PICK a \in 1..k : i = m + a
      BY <2>4
    <3> PICK b \in 1..k : j = m + b
      BY <2>4
    <3>1. a # b
      OBVIOUS
    <3>2. r[i] = n + a /\ r[j] = n + b
      BY <1>4
    <3> QED BY <1>7, <3>1, <3>2
  <2> QED BY <1>5, <2>1, <2>2, <2>3, <2>4
<1>9. \A e \in Nat : e \in 1..(n + k) <=> \/ \E i \in DOMAIN r : r[i] = e
                                          \/ e \in P
                                          \/ \E i \in left : d[i] = e
                                          \/ e \in got
  <2> SUFFICES ASSUME NEW e \in Nat
               PROVE  e \in 1..(n + k) <=> \/ \E i \in DOMAIN r : r[i] = e
                                           \/ e \in P
                                           \/ \E i \in left : d[i] = e
                                           \/ e \in got
    OBVIOUS
  <2>1. e \in 1..n <=> \/ \E i \in 1..m : q[i] = e
                       \/ e \in P
                       \/ \E i \in left : d[i] = e
                       \/ e \in got
    BY <1>3 DEF Once
  <2>2. (\E i \in DOMAIN r : r[i] = e) <=> \/ \E i \in 1..m : q[i] = e
                                           \/ \E j \in 1..k : n + j = e
    <3>1. /\ \A i \in 1..m : i \in DOMAIN r
          /\ \A j \in 1..k : m + j \in DOMAIN r
      BY <1>3
    <3> QED BY <1>4, <1>5, <3>1
  <2>3. e \in 1..(n + k) <=> e \in 1..n \/ \E j \in 1..k : n + j = e
    <3>1. ASSUME e \in 1..(n + k), e \notin 1..n PROVE e - n \in 1..k /\ n + (e - n) = e
      BY <1>1, <3>1
    <3>2. \A j \in 1..k : n + j \in 1..(n + k)
      BY <1>1
    <3>3. 1..n \subseteq 1..(n + k)
      BY <1>1
    <3> QED BY <3>1, <3>2, <3>3
  <2> QED BY <2>1, <2>2, <2>3
<1>10. \A i \in DOMAIN r : r[i] \notin P /\ r[i] \notin got
  <2> TAKE i \in DOMAIN r
  <2>1. CASE i \in 1..m
    BY <1>3, <1>4, <2>1 DEF Once
  <2>2. CASE \E j \in 1..k : i = m + j
    BY <1>4, <1>6, <1>7, <2>2
  <2> QED BY <1>5, <2>1, <2>2
<1>11. \A i \in DOMAIN r : \A j \in left : d[j] # r[i]
  <2> TAKE i \in DOMAIN r
  <2>1. CASE i \in 1..m
    BY <1>3, <1>4, <2>1 DEF Once
  <2>2. CASE \E j \in 1..k : i = m + j
    BY <1>4, <1>6, <1>7, <2>2
  <2> QED BY <1>5, <2>1, <2>2
<1>12. n + k \in Nat
  BY <1>1
<1> QED BY <1>3, <1>8, <1>9, <1>10, <1>11, <1>12 DEF Once, r, f

LEMMA OncePoll ==
    ASSUME NEW q, NEW d, NEW left, NEW got, NEW n, Once(q, {}, d, left, got, n), q # <<>>
    PROVE  Head(q) \in Nat /\ Tail(q) \in Seq(Nat) /\ Once(Tail(q), {Head(q)}, d, left, got, n)
<1> DEFINE t == Tail(q)
           a == Head(q)
<1>1. q \in Seq(Nat) /\ Len(q) \in Nat \ {0} /\ DOMAIN q = 1..Len(q)
  BY DEF Once
<1>2. /\ t \in Seq(Nat) /\ DOMAIN t = 1..(Len(q) - 1) /\ a = q[1] /\ a \in Nat
      /\ \A i \in 1..(Len(q) - 1) : t[i] = q[i + 1]
  BY <1>1
<1> HIDE DEF t, a
<1>3. 1 \in DOMAIN q /\ \A i \in DOMAIN t : i + 1 \in DOMAIN q /\ t[i] = q[i + 1] /\ i + 1 # 1
  BY <1>1, <1>2
<1>4. \A i \in DOMAIN q : i = 1 \/ (i - 1 \in DOMAIN t /\ q[i] = t[i - 1])
  BY <1>1, <1>2, SMTT(30)
<1>5. Distinct(t)
  BY <1>1, <1>2, <1>3 DEF Distinct, Once
<1>6. \A i \in DOMAIN t : t[i] # a
  BY <1>2, <1>3 DEF Distinct, Once
<1>7. \A e \in Nat : (\E i \in DOMAIN q : q[i] = e) <=> (\E i \in DOMAIN t : t[i] = e) \/ e = a
  BY <1>2, <1>3, <1>4
<1>8. /\ a \notin got
      /\ \A j \in left : d[j] # a
  BY <1>2, <1>3 DEF Once
<1>9. /\ \A i \in DOMAIN t : t[i] \notin got
      /\ \A i \in DOMAIN t : \A j \in left : d[j] # t[i]
  BY <1>3 DEF Once
<1>10. \A e \in Nat : e \in 1..n <=> \/ \E i \in DOMAIN t : t[i] = e
                                     \/ e \in {a}
                                     \/ \E i \in left : d[i] = e
                                     \/ e \in got
  BY <1>7 DEF Once
<1> QED BY <1>2, <1>5, <1>6, <1>8, <1>9, <1>10 DEF Once, t, a

LEMMA OnceReadPolled ==
    ASSUME NEW q, NEW P, NEW d, NEW left, NEW got, NEW n, Once(q, P, d, left, got, n)
    PROVE  Once(q, {}, d, left, got \cup P, n)
BY DEF Once

LEMMA OnceReadDescriptor ==
    ASSUME NEW q, NEW P, NEW d, NEW left, NEW got, NEW n, Once(q, P, d, left, got, n),
           NEW i \in left
    PROVE  d[i] \in Nat /\ Once(q, P, d, left \ {i}, got \cup {d[i]}, n)
<1>1. d[i] \in Nat /\ \A j \in left \ {i} : d[j] # d[i]
  BY DEF Once, Distinct
<1>2. \A e \in Nat : (\E j \in left : d[j] = e) <=> (\E j \in left \ {i} : d[j] = e) \/ e = d[i]
  OBVIOUS
<1> DEFINE a == d[i]
           L == left \ {i}
<1>3. /\ a \in Nat /\ \A j \in L : d[j] # a
      /\ \A e \in Nat : (\E j \in left : d[j] = e) <=> (\E j \in L : d[j] = e) \/ e = a
      /\ L \subseteq left /\ i \in left /\ d[i] = a
  BY <1>1, <1>2
<1> HIDE DEF a, L
<1>4. Once(q, P, d, L, got \cup {a}, n)
  BY <1>3 DEF Once
<1> QED BY <1>1, <1>4 DEF a, L

LEMMA OnceDrain ==
    ASSUME NEW q, NEW P, NEW d, NEW got, NEW n, Once(q, P, d, {}, got, n), NEW m \in 0..Len(q)
    PROVE  /\ Once(SubSeq(q, m + 1, Len(q)), P, SubSeq(q, 1, m), 1..m, got, n)
           /\ SubSeq(q, 1, m) \in Seq(Nat) /\ SubSeq(q, m + 1, Len(q)) \in Seq(Nat)
           /\ DOMAIN SubSeq(q, 1, m) = 1..m /\ Len(SubSeq(q, 1, m)) = m
<1> DEFINE s == SubSeq(q, 1, m)
           t == SubSeq(q, m + 1, Len(q))
           z == Len(q)
<1>1. q \in Seq(Nat) /\ z \in Nat /\ DOMAIN q = 1..z /\ m \in 0..z
  BY DEF Once
<1>2. /\ s \in Seq(Nat) /\ Len(s) = m /\ DOMAIN s = 1..m /\ \A i \in 1..m : s[i] = q[i]
  BY <1>1
<1>3. /\ t \in Seq(Nat) /\ DOMAIN t = 1..(z - m) /\ \A i \in 1..(z - m) : t[i] = q[m + i]
  BY <1>1
<1> HIDE DEF s, t, z
<1>4. Distinct(q)
  BY DEF Once
<1>5. /\ \A i \in 1..m : i \in DOMAIN q
      /\ \A i \in 1..(z - m) : m + i \in DOMAIN q
      /\ \A i \in 1..(z - m) : \A j \in 1..m : j # m + i
      /\ \A i, j \in 1..(z - m) : i # j => m + i # m + j
  BY <1>1
<1>6. Distinct(s) /\ Distinct(t)
  BY <1>2, <1>3, <1>4, <1>5 DEF Distinct
<1>7. \A i \in DOMAIN t : \A j \in 1..m : s[j] # t[i]
  BY <1>2, <1>3, <1>4, <1>5 DEF Distinct
<1>8. /\ \A i \in DOMAIN t : t[i] \notin P /\ t[i] \notin got
      /\ \A j \in 1..m : s[j] \notin P /\ s[j] \notin got
  BY <1>2, <1>3, <1>5 DEF Once
<1>9. \A e \in Nat : (\E i \in DOMAIN q : q[i] = e)
                     <=> (\E i \in DOMAIN t : t[i] = e) \/ (\E i \in 1..m : s[i] = e)
  <2>1. \A i \in DOMAIN q : i \in 1..m \/ \E j \in 1..(z - m) : i = m + j
    <3> TAKE i \in DOMAIN q
    <3>1. CASE i <= m
      BY <1>1, <3>1
    <3>2. CASE ~(i <= m)
      <4>1. i - m \in 1..(z - m) /\ i = m + (i - m)
        BY <1>1, <3>2
      <4> QED BY <4>1
    <3> QED BY <3>1, <3>2
  <2>2. \A i \in DOMAIN t : m + i \in DOMAIN q /\ t[i] = q[m + i]
    BY <1>3, <1>5
  <2>3. \A i \in 1..m : i \in DOMAIN q /\ s[i] = q[i]
    BY <1>2, <1>5
  <2>4. ASSUME NEW i \in DOMAIN q
        PROVE  (\E j \in DOMAIN t : t[j] = q[i]) \/ (\E j \in 1..m : s[j] = q[i])
    <3>1. CASE i \in 1..m
      BY <2>3, <3>1
    <3>2. CASE \E j \in 1..(z - m) : i = m + j
      BY <1>3, <3>2
    <3> QED BY <2>1, <3>1, <3>2
  <2> QED BY <2>2, <2>3, <2>4
<1>10. Once(t, P, s, 1..m, got, n)
  <2>1. \A e \in Nat : e \in 1..n <=> \/ \E i \in DOMAIN t : t[i] = e
                                      \/ e \in P
                                      \/ \E i \in 1..m : s[i] = e
                                      \/ e \in got
    BY <1>9 DEF Once
  <2> QED BY <1>2, <1>3, <1>6, <1>7, <1>8, <2>1 DEF Once
<1> QED BY <1>2, <1>3, <1>10 DEF s, t, z

Status == {"none", "live", "destroyed"}
Handle == [status : Status, queue : Seq(Nat), produced : Nat, event_payload : Nat,
           drained : Seq(Nat), descriptors : Seq(Nat), cipher : BOOLEAN]
Reader == [got : SUBSET Nat, polled : BOOLEAN, left : SUBSET Nat]

\* A handle h and what the host has read of it, x, account for every event.
\* The descriptors are those of the events kept alive, which makes a read of
\* a descriptor a read of its event; a handle that is not live holds nothing,
\* so that the next tunnel in its place starts from nothing too.
Pending(h, x) == IF x.polled THEN {h.event_payload} ELSE {}
Fine(h, x) ==
    /\ h \in Handle /\ x \in Reader
    /\ h.descriptors = h.drained
    /\ Once(h.queue, Pending(h, x), h.drained, x.left, x.got, h.produced)
    /\ h.status # "live" => h.queue = <<>> /\ h.drained = <<>> /\ h.produced = 0

LEMMA StartsFine ==
    ASSUME NEW h \in Handle, h.descriptors = h.drained, h.queue = <<>>, h.drained = <<>>,
           h.produced = 0
    PROVE  Fine(h, NothingRead)
<1>1. /\ NothingRead \in Reader /\ NothingRead.left = {} /\ NothingRead.got = {}
      /\ Pending(h, NothingRead) = {}
  BY DEF NothingRead, Reader, Pending
<1>2. Once(<<>>, {}, <<>>, {}, {}, 0)
  BY DEF Once, Distinct
<1> QED BY <1>1, <1>2 DEF Fine

LEMMA ProduceFine ==
    ASSUME NEW h, NEW x, Fine(h, x), h.status = "live", NEW k \in Nat
    PROVE  Fine(Produce(h, k), x)
<1> DEFINE q == h.queue \o [i \in 1..k |-> h.produced + i]
           n == h.produced + k
           g == Produce(h, k)
<1>1. h \in Handle /\ x \in Reader /\ h.descriptors = h.drained
  BY DEF Fine
<1>2. Once(q, Pending(h, x), h.drained, x.left, x.got, n)
  BY OnceProduce DEF Fine
<1>3. q \in Seq(Nat) /\ n \in Nat
  BY <1>2 DEF Once
<1>4. g = [h EXCEPT !.queue = q, !.produced = n]
  BY DEF Produce
<1> HIDE DEF q, n, g
<1>5. g \in Handle
  BY <1>1, <1>3, <1>4, Zenon DEF Handle
<1>6. /\ g.queue = q /\ g.produced = n /\ g.drained = h.drained /\ g.status = h.status
      /\ g.descriptors = h.descriptors /\ g.event_payload = h.event_payload
  BY <1>1, <1>4 DEF Handle
<1>7. Pending(g, x) = Pending(h, x)
  BY <1>6 DEF Pending
<1> QED BY <1>1, <1>2, <1>5, <1>6, <1>7 DEF Fine, g

LEMMA PollFine ==
    ASSUME NEW h, NEW x, Fine(h, x), h.status = "live", ~x.polled
    PROVE  Fine(rtc_tunnel_poll_event(h), [x EXCEPT !.polled = h.queue # <<>>])
<1> DEFINE b == h.queue # <<>>
           a == IF b THEN Head(h.queue) ELSE 0
           q == IF b THEN Tail(h.queue) ELSE <<>>
           g == rtc_tunnel_poll_event(h)
           y == [x EXCEPT !.polled = b]
<1>1. h \in Handle /\ x \in Reader /\ h.descriptors = h.drained
  BY DEF Fine
<1>2. Once(h.queue, {}, h.drained, x.left, x.got, h.produced)
  BY DEF Fine, Pending
<1>3. a \in Nat /\ q \in Seq(Nat) /\ Once(q, IF b THEN {a} ELSE {}, h.drained, x.left, x.got, h.produced)
  <2>1. CASE b
    BY <1>2, <2>1, OncePoll
  <2>2. CASE ~b
    BY <1>2, <2>2 DEF Once
  <2> QED BY <2>1, <2>2
<1>4. g = [h EXCEPT !.event_payload = a, !.queue = q]
  <2>1. CASE b
    BY <2>1 DEF rtc_tunnel_poll_event
  <2>2. CASE ~b
    <3>1. g = [h EXCEPT !.event_payload = 0] /\ h.queue = <<>> /\ a = 0 /\ q = <<>>
      BY <2>2 DEF rtc_tunnel_poll_event
    <3> HIDE DEF g, a, q
    <3> QED BY <1>1, <3>1 DEF Handle
  <2> QED BY <2>1, <2>2
<1>5. b \in BOOLEAN
  OBVIOUS
<1> HIDE DEF a, b, q, g
<1>6. g \in Handle
  BY <1>1, <1>3, <1>4, Zenon DEF Handle
<1>7. /\ g.queue = q /\ g.produced = h.produced /\ g.drained = h.drained /\ g.status = h.status
      /\ g.descriptors = h.descriptors /\ g.event_payload = a
  BY <1>1, <1>4 DEF Handle
<1>8. y \in Reader
  BY <1>1, <1>5, Zenon DEF Reader
<1>9. y.left = x.left /\ y.got = x.got /\ (y.polled <=> b)
  BY <1>1, <1>5 DEF Reader
<1> HIDE DEF y
<1>10. Pending(g, y) = IF b THEN {a} ELSE {}
  BY <1>7, <1>9 DEF Pending
<1>11. Fine(g, y)
  BY <1>1, <1>3, <1>6, <1>7, <1>8, <1>9, <1>10 DEF Fine
<1> QED BY <1>11 DEF g, y, b

LEMMA ReadPolledFine ==
    ASSUME NEW h, NEW x, Fine(h, x), x.polled
    PROVE  Fine(h, [x EXCEPT !.polled = FALSE, !.got = @ \cup {h.event_payload}])
<1> DEFINE G == x.got \cup {h.event_payload}
           y == [x EXCEPT !.polled = FALSE, !.got = x.got \cup {h.event_payload}]
<1>1. h \in Handle /\ x \in Reader
  BY DEF Fine
<1>2. Once(h.queue, {}, h.drained, x.left, G, h.produced)
  <2>1. Once(h.queue, {h.event_payload}, h.drained, x.left, x.got, h.produced)
    BY DEF Fine, Pending
  <2> QED BY <2>1, OnceReadPolled
<1>3. G \in SUBSET Nat
  BY <1>2 DEF Once
<1>4. y = [x EXCEPT !.polled = FALSE, !.got = G]
  OBVIOUS
<1> HIDE DEF G, y
<1>5. y \in Reader
  BY <1>1, <1>3, <1>4, Zenon DEF Reader
<1>6. y.left = x.left /\ y.got = G /\ ~y.polled
  BY <1>1, <1>4 DEF Reader
<1>7. Fine(h, y)
  BY <1>1, <1>2, <1>5, <1>6 DEF Fine, Pending
<1> QED BY <1>7 DEF y

LEMMA DrainFine ==
    ASSUME NEW h, NEW x, Fine(h, x), h.status = "live", x.left = {}
    PROVE  LET g == rtc_tunnel_drain_events(h, DrainMax)
           IN  Fine(g, [x EXCEPT !.left = DOMAIN g.drained])
<1> DEFINE m == Min({DrainMax, Len(h.queue)})
           s == SubSeq(h.queue, 1, m)
           t == SubSeq(h.queue, m + 1, Len(h.queue))
           g == rtc_tunnel_drain_events(h, DrainMax)
           y == [x EXCEPT !.left = DOMAIN g.drained]
<1>1. h \in Handle /\ x \in Reader /\ h.queue \in Seq(Nat) /\ Len(h.queue) \in Nat
  BY DEF Fine, Handle
<1>2. m \in 0..Len(h.queue)
  <2> DEFINE z == Len(h.queue)
             S == {DrainMax, z}
  <2>1. DrainMax \in Nat /\ z \in Nat
    BY <1>1, WasmAssumption
  <2> HIDE DEF z
  <2>2. \E a \in S : \A b \in S : a <= b
    BY <2>1
  <2>3. Min(S) \in S /\ \A b \in S : Min(S) <= b
    <3> HIDE DEF S
    <3> QED BY <2>2 DEF Min
  <2>4. m = Min(S)
    BY DEF z
  <2>5. Min(S) \in 0..z
    BY <2>1, <2>3
  <2> QED BY <2>4, <2>5 DEF z
<1>3. Once(h.queue, Pending(h, x), h.drained, {}, x.got, h.produced)
  BY DEF Fine
<1> HIDE DEF m
<1>4. /\ Once(t, Pending(h, x), s, 1..m, x.got, h.produced)
      /\ s \in Seq(Nat) /\ t \in Seq(Nat) /\ DOMAIN s = 1..m /\ Len(s) = m
  BY <1>2, <1>3, OnceDrain
<1>5. g = [h EXCEPT !.drained = s, !.queue = t, !.descriptors = s]
  BY <1>4 DEF rtc_tunnel_drain_events, m
<1> HIDE DEF s, t, g
<1>6. g \in Handle
  BY <1>1, <1>4, <1>5, Zenon DEF Handle
<1>7. /\ g.queue = t /\ g.produced = h.produced /\ g.drained = s /\ g.status = h.status
      /\ g.descriptors = s /\ g.event_payload = h.event_payload
  BY <1>1, <1>5 DEF Handle
<1> DEFINE L == DOMAIN g.drained
<1>8. L = 1..m /\ L \in SUBSET Nat
  BY <1>2, <1>4, <1>7
<1>9. y = [x EXCEPT !.left = L]
  OBVIOUS
<1> HIDE DEF L, y
<1>10. y \in Reader
  BY <1>1, <1>8, <1>9, Zenon DEF Reader
<1>11. y.left = L /\ y.got = x.got /\ (y.polled <=> x.polled)
  BY <1>1, <1>9 DEF Reader
<1>12. Pending(g, y) = Pending(h, x)
  BY <1>7, <1>11 DEF Pending
<1>13. Fine(g, y)
  BY <1>4, <1>6, <1>7, <1>8, <1>10, <1>11, <1>12 DEF Fine
<1> QED BY <1>13 DEF g, y

LEMMA ReadDescriptorFine ==
    ASSUME NEW h, NEW x, Fine(h, x), x.left # {}
    PROVE  LET i == Min(x.left)
           IN  Fine(h, [x EXCEPT !.left = @ \ {i}, !.got = @ \cup {h.descriptors[i]}])
<1> DEFINE i == Min(x.left)
           L == x.left \ {i}
           G == x.got \cup {h.drained[i]}
           y == [x EXCEPT !.left = x.left \ {i}, !.got = x.got \cup {h.descriptors[i]}]
<1>1. h \in Handle /\ x \in Reader /\ x.left \subseteq Nat /\ h.descriptors = h.drained
  BY DEF Fine, Reader
<1>2. i \in x.left
  BY <1>1, LeastOf
<1> HIDE DEF i
<1>3. Once(h.queue, Pending(h, x), h.drained, L, G, h.produced)
  BY <1>2, OnceReadDescriptor DEF Fine
<1>4. L \in SUBSET Nat /\ G \in SUBSET Nat
  BY <1>1, <1>3 DEF Once
<1>5. y = [x EXCEPT !.left = L, !.got = G]
  BY <1>1
<1> HIDE DEF L, G, y
<1>6. y \in Reader
  BY <1>1, <1>4, <1>5, Zenon DEF Reader
<1>7. y.left = L /\ y.got = G /\ (y.polled <=> x.polled)
  BY <1>1, <1>5 DEF Reader
<1>8. Pending(h, y) = Pending(h, x)
  BY <1>7 DEF Pending
<1>9. Fine(h, y)
  BY <1>1, <1>3, <1>6, <1>7, <1>8 DEF Fine
<1> QED BY <1>9 DEF y, i

\* Every tunnel accounts for its events.
AllFine ==
    /\ handles = [tn \in Tunnels |-> handles[tn]] /\ host = [tn \in Tunnels |-> host[tn]]
    /\ \A tn \in Tunnels : Fine(handles[tn], host[tn])

\* A step that changes one tunnel and leaves it fine leaves all of them fine.
LEMMA OneTunnel ==
    ASSUME AllFine, NEW tn \in Tunnels, NEW h, NEW x, Fine(h, x),
           handles' = [handles EXCEPT ![tn] = h], host' = [host EXCEPT ![tn] = x]
    PROVE  AllFine'
<1>1. handles' = [u \in Tunnels |-> IF u = tn THEN h ELSE handles[u]]
  BY DEF AllFine
<1>2. host' = [u \in Tunnels |-> IF u = tn THEN x ELSE host[u]]
  BY DEF AllFine
<1>3. \A u \in Tunnels : Fine(handles'[u], host'[u])
  BY <1>1, <1>2 DEF AllFine
<1> QED BY <1>1, <1>2, <1>3 DEF AllFine

Blank(st) == [NoHandle EXCEPT !.status = st]

LEMMA NewHandleFine ==
    /\ Fine(NoHandle, NothingRead)
    /\ \A st \in Status : Fine(Blank(st), NothingRead)
<1>1. NoHandle \in Handle
  <2>1. <<>> \in Seq(Nat) /\ 0 \in Nat /\ "none" \in Status
    BY DEF Status
  <2> QED BY <2>1, Zenon DEF NoHandle, Handle
<1>2. /\ NoHandle.queue = <<>> /\ NoHandle.drained = <<>> /\ NoHandle.produced = 0
      /\ NoHandle.descriptors = NoHandle.drained
  BY DEF NoHandle
<1>3. Fine(NoHandle, NothingRead)
  BY <1>1, <1>2, StartsFine
<1>4. ASSUME NEW st \in Status PROVE Fine(Blank(st), NothingRead)
  <2> DEFINE h == Blank(st)
  <2>1. h \in Handle
    BY <1>1, Zenon DEF Handle, Blank
  <2>2. /\ h.queue = <<>> /\ h.drained = <<>> /\ h.produced = 0 /\ h.descriptors = h.drained
    BY <1>1, <1>2 DEF Handle, Blank
  <2> HIDE DEF h
  <2>3. Fine(h, NothingRead)
    BY <2>1, <2>2, StartsFine
  <2> QED BY <2>3 DEF h
<1> QED BY <1>3, <1>4

LEMMA FineMeansOnce ==
    ASSUME AllFine
    PROVE  EachEventOnce
<1> SUFFICES ASSUME NEW tn \in Tunnels
             PROVE  LET where == Places(tn)
                    IN  /\ UNION Range(where) = 1..handles[tn].produced
                        /\ \A i, j \in 1..4 : i # j => where[i] \cap where[j] = {}
                        /\ where[3] \subseteq Range(handles[tn].drained)
  BY DEF EachEventOnce
<1> DEFINE q == handles[tn].queue
           d == handles[tn].drained
           n == handles[tn].produced
           left == host[tn].left
           A == Range(q)
           B == Pending(handles[tn], host[tn])
           C == {handles[tn].descriptors[i] : i \in left}
           D == host[tn].got
<1>1. Fine(handles[tn], host[tn])
  BY DEF AllFine
<1>2. Once(q, B, d, left, D, n) /\ handles[tn].descriptors = d
  BY <1>1 DEF Fine
<1>3. Places(tn) = <<A, B, C, D>>
  BY DEF Places, Pending
<1>4. A = {q[i] : i \in DOMAIN q} /\ C = {d[i] : i \in left}
  BY <1>2 DEF Range
<1>5. A \subseteq Nat /\ B \subseteq Nat /\ C \subseteq Nat /\ D \subseteq Nat /\ n \in Nat
      /\ left \subseteq DOMAIN d
  BY <1>2, <1>4 DEF Once
<1> HIDE DEF q, d, n, left, A, B, C, D
<1>6. \A e \in Nat : e \in 1..n <=> e \in A \/ e \in B \/ e \in C \/ e \in D
  BY <1>2, <1>4 DEF Once
<1>7. A \cup B \cup C \cup D = 1..n
  <2> DEFINE N == 1..n
  <2>1. N \subseteq Nat
    BY <1>5
  <2>2. \A e \in Nat : e \in N <=> e \in A \/ e \in B \/ e \in C \/ e \in D
    BY <1>6
  <2> HIDE DEF N
  <2>3. A \cup B \cup C \cup D = N
    BY <1>5, <2>1, <2>2
  <2> QED BY <2>3 DEF N
<1>8. A \cap B = {} /\ A \cap C = {} /\ A \cap D = {} /\ B \cap C = {} /\ B \cap D = {} /\ C \cap D = {}
  BY <1>2, <1>4 DEF Once
<1>9. C \subseteq Range(d)
  BY <1>4, <1>5 DEF Range
<1> DEFINE W == <<A, B, C, D>>
<1>10. UNION Range(W) = A \cup B \cup C \cup D
  BY DEF Range
<1>11. \A i, j \in 1..4 : i # j => W[i] \cap W[j] = {}
  BY <1>8
<1>12. W[3] = C
  OBVIOUS
<1> HIDE DEF W
<1>13. Places(tn) = W
  BY <1>3 DEF W
<1> QED BY <1>7, <1>9, <1>10, <1>11, <1>12, <1>13 DEF n, d

\* However polls and drains are mixed, and whatever becomes of the tunnels of a
\* module, every event a tunnel produced is in exactly one place until the
\* host has read it, for every number of tunnels and events and every size of
\* a drain.
THEOREM EventsAreReadOnce == Spec => []EachEventOnce
<1>1. Init => AllFine
  BY NewHandleFine DEF Init, AllFine
<1>2. AllFine /\ [Next]_vars => AllFine'
  <2> SUFFICES ASSUME AllFine, [Next]_vars PROVE AllFine'
    OBVIOUS
  <2>1. ASSUME NEW tn \in Tunnels
        PROVE  /\ Fine(handles[tn], host[tn])
               /\ handles = [handles EXCEPT ![tn] = handles[tn]]
               /\ host = [host EXCEPT ![tn] = host[tn]]
               /\ host[tn] \in Reader
    BY DEF AllFine, Fine
  <2>2. ASSUME NEW tn \in Tunnels, NEW k \in Room(tn), Live(tn), UNCHANGED host,
               Update(tn, Produce(handles[tn], k))
        PROVE  AllFine'
    <3>1. k \in Nat
      BY <2>2 DEF Room
    <3>2. Fine(Produce(handles[tn], k), host[tn])
      BY <2>1, <2>2, <3>1, ProduceFine DEF Live
    <3>3. host' = [host EXCEPT ![tn] = host[tn]]
      BY <2>1, <2>2
    <3> QED BY <2>2, <3>2, <3>3, OneTunnel DEF Update
  <2>3. ASSUME NEW tn \in Tunnels, Input(tn) \/ Send(tn) \/ Advance(tn) \/ Close(tn)
        PROVE  AllFine'
    <3>1. Live(tn) /\ UNCHANGED host /\ \E k \in Room(tn) : Update(tn, Produce(handles[tn], k))
      BY <2>3 DEF Input, Send, CopyIn, Advance, Close
    <3> QED BY <2>2, <3>1
  <2>4. ASSUME NEW tn \in Tunnels, PollEvent(tn) PROVE AllFine'
    <3>1. Live(tn) /\ ~host[tn].polled /\ handles' = [handles EXCEPT ![tn] = rtc_tunnel_poll_event(handles[tn])]
      BY <2>4 DEF PollEvent, Update
    <3> DEFINE y == [host[tn] EXCEPT !.polled = handles[tn].queue # <<>>]
    <3>2. host' = [host EXCEPT ![tn] = y]
      BY <2>4 DEF PollEvent
    <3>3. Fine(rtc_tunnel_poll_event(handles[tn]), y)
      BY <2>1, <3>1, PollFine DEF Live
    <3> HIDE DEF y
    <3> QED BY <3>1, <3>2, <3>3, OneTunnel
  <2>5. ASSUME NEW tn \in Tunnels, ReadPolled(tn) PROVE AllFine'
    <3> DEFINE y == [host[tn] EXCEPT !.polled = FALSE, !.got = @ \cup {handles[tn].event_payload}]
    <3>1. host[tn].polled /\ handles' = [handles EXCEPT ![tn] = handles[tn]]
      BY <2>1, <2>5 DEF ReadPolled
    <3>2. host' = [host EXCEPT ![tn] = y]
      BY <2>1, <2>5 DEF ReadPolled, Reader, AllFine
    <3>3. Fine(handles[tn], y)
      BY <2>1, <3>1, ReadPolledFine
    <3> HIDE DEF y
    <3> QED BY <3>1, <3>2, <3>3, OneTunnel
  <2>6. ASSUME NEW tn \in Tunnels, DrainEvents(tn) PROVE AllFine'
    <3> DEFINE g == rtc_tunnel_drain_events(handles[tn], DrainMax)
               y == [host[tn] EXCEPT !.left = DOMAIN g.drained]
    <3>1. Live(tn) /\ host[tn].left = {} /\ handles' = [handles EXCEPT ![tn] = g]
      BY <2>6 DEF DrainEvents, Update
    <3>2. host' = [host EXCEPT ![tn] = y]
      BY <2>6 DEF DrainEvents
    <3>3. Fine(g, y)
      BY <2>1, <3>1, DrainFine DEF Live
    <3> HIDE DEF g, y
    <3> QED BY <3>1, <3>2, <3>3, OneTunnel
  <2>7. ASSUME NEW tn \in Tunnels, ReadDescriptor(tn) PROVE AllFine'
    <3> DEFINE i == Min(host[tn].left)
               y == [host[tn] EXCEPT !.left = @ \ {i}, !.got = @ \cup {handles[tn].descriptors[i]}]
    <3>1. host[tn].left # {} /\ handles' = [handles EXCEPT ![tn] = handles[tn]]
      BY <2>1, <2>7 DEF ReadDescriptor
    <3>2. host' = [host EXCEPT ![tn] = y]
      BY <2>1, <2>7 DEF ReadDescriptor, Reader, AllFine
    <3>3. Fine(handles[tn], y)
      BY <2>1, <3>1, ReadDescriptorFine
    <3> HIDE DEF y
    <3> QED BY <3>1, <3>2, <3>3, OneTunnel
  <2>8. ASSUME NEW tn \in Tunnels, NEW p \in Params, NEW v \in BOOLEAN, CreateTunnel(tn, p, v)
        PROVE  AllFine'
    <3>1. handles[tn].status # "live" /\ host' = [host EXCEPT ![tn] = NothingRead]
      BY <2>8 DEF CreateTunnel
    <3>2. \/ handles' = handles
          \/ handles' = [handles EXCEPT ![tn] = [NoHandle EXCEPT !.status = "live"]]
      BY <2>8 DEF CreateTunnel
    <3>3. CASE handles' = handles
      <4>1. Fine(handles[tn], NothingRead)
        BY <2>1, <3>1, StartsFine DEF Fine
      <4>2. handles' = [handles EXCEPT ![tn] = handles[tn]]
        BY <2>1, <3>3
      <4> QED BY <3>1, <4>1, <4>2, OneTunnel
    <3>4. CASE handles' = [handles EXCEPT ![tn] = [NoHandle EXCEPT !.status = "live"]]
      <4>1. Fine(Blank("live"), NothingRead)
        BY NewHandleFine DEF Status
      <4>2. handles' = [handles EXCEPT ![tn] = Blank("live")]
        BY <3>4 DEF Blank
      <4> QED BY <3>1, <4>1, <4>2, OneTunnel
    <3> QED BY <3>2, <3>3, <3>4
  <2>9. ASSUME NEW tn \in Tunnels, Dispose(tn) PROVE AllFine'
    <3>1. /\ handles' = [handles EXCEPT ![tn] = Blank("destroyed")]
          /\ host' = [host EXCEPT ![tn] = NothingRead]
      BY <2>9 DEF Dispose, Update, Blank
    <3>2. Fine(Blank("destroyed"), NothingRead)
      BY NewHandleFine DEF Status
    <3> QED BY <3>1, <3>2, OneTunnel
  <2>10. ASSUME NEW tn \in Tunnels, NegotiatedCipherSuite(tn) PROVE AllFine'
    <3>1. PICK known \in {handles[tn].cipher, TRUE} :
                handles' = [handles EXCEPT ![tn] = [handles[tn] EXCEPT !.cipher = known]]
      BY <2>10 DEF NegotiatedCipherSuite, Update
    <3>2. UNCHANGED host
      BY <2>10 DEF NegotiatedCipherSuite
    <3> DEFINE h == handles[tn]
               g == [h EXCEPT !.cipher = known]
    <3>3. h \in Handle
      BY <2>1 DEF Fine
    <3> HIDE DEF h
    <3>4. known \in BOOLEAN
      BY <3>3, Zenon DEF Handle, h
    <3>5. g \in Handle
      BY <3>3, <3>4, Zenon DEF Handle
    <3>6. /\ g.queue = h.queue /\ g.produced = h.produced /\ g.drained = h.drained
          /\ g.descriptors = h.descriptors /\ g.event_payload = h.event_payload
          /\ g.status = h.status
      BY <3>3 DEF Handle
    <3> HIDE DEF g
    <3>7. Fine(h, host[tn])
      BY <2>1 DEF h
    <3>8. Pending(g, host[tn]) = Pending(h, host[tn])
      BY <3>6 DEF Pending
    <3>9. Fine(g, host[tn])
      BY <3>5, <3>6, <3>7, <3>8 DEF Fine
    <3>10. handles' = [handles EXCEPT ![tn] = g] /\ host' = [host EXCEPT ![tn] = host[tn]]
      BY <2>1, <3>1, <3>2 DEF g, h
    <3> QED BY <3>9, <3>10, OneTunnel
  <2>11. ASSUME UNCHANGED <<handles, host>> PROVE AllFine'
    BY <2>11 DEF AllFine
  <2>12. ASSUME NEW tn \in Tunnels, OfferSdp(tn) PROVE AllFine'
    BY <2>11, <2>12 DEF OfferSdp
  <2>13. CASE UNCHANGED vars
    BY <2>11, <2>13 DEF vars
  <2> QED BY <2>3, <2>4, <2>5, <2>6, <2>7, <2>8, <2>9, <2>10, <2>12, <2>13 DEF Next
<1>3. AllFine => EachEventOnce
  BY FineMeansOnce
<1> QED BY <1>1, <1>2, <1>3, PTL DEF Spec
=============================================================================
