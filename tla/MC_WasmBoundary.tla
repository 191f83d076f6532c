-------------------------- MODULE MC_WasmBoundary --------------------------
(***************************************************************************)
(* A small instance of WasmBoundary: what callers may pass.                *)
(***************************************************************************)
EXTENDS WasmBoundary, TLC

Plain == [sctpPort |-> 5, streamId |-> 0, maxRetransmits |-> 0, malformed |-> {},
          lens |-> [name \in Range(Strings) |-> 2]]

\* The edges of every number, each on its own.
Edges == {-1, 0, 1, U16 - 2, U16 - 1, U16, U32 - 1, U32, U32 + 1}

CallerParams ==
    {[Plain EXCEPT !.sctpPort = n] : n \in Edges}
    \cup {[Plain EXCEPT !.streamId = n] : n \in Edges}
    \cup {[Plain EXCEPT !.maxRetransmits = n] : n \in Edges}
    \cup {[Plain EXCEPT !.malformed = {"core"}], [Plain EXCEPT !.malformed = {"local", "remote"}],
          [Plain EXCEPT !.lens["pwd"] = 0]}

\* The tunnels of a module are alike, and the run checks invariants only.
Alike == Permutations(Tunnels)
=============================================================================
