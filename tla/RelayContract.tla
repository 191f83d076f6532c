--------------------------- MODULE RelayContract ---------------------------
(***************************************************************************)
(* What createRelayConnection promises its caller (provider.ts and the     *)
(* package README): the promise resolves only once the channel is open and *)
(* rejects if the tunnel ends first; onOpen and onClose are each called at *)
(* most once, and onClose only for a channel that was opened.              *)
(***************************************************************************)
EXTENDS Naturals

VARIABLES promise,   \* "pending", "resolved" or "rejected"
          onOpens,   \* calls of onOpen
          onCloses   \* calls of onClose

vars == <<promise, onOpens, onCloses>>

Init == promise = "pending" /\ onOpens = 0 /\ onCloses = 0

\* The channel opens: the caller hears of it and gets its handle.
Open ==
    /\ promise = "pending"
    /\ promise' = "resolved" /\ onOpens' = 1
    /\ UNCHANGED onCloses

\* The tunnel ends, or cannot be built, before it opened.
Refuse ==
    /\ promise = "pending"
    /\ promise' = "rejected"
    /\ UNCHANGED <<onOpens, onCloses>>

\* An open tunnel ends.
End ==
    /\ promise = "resolved" /\ onCloses = 0
    /\ onCloses' = 1
    /\ UNCHANGED <<promise, onOpens>>

Next == Open \/ Refuse \/ End

Spec == Init /\ [][Next]_vars
=============================================================================
