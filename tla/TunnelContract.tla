--------------------------- MODULE TunnelContract ---------------------------
(***************************************************************************)
(* What a tunnel of either backend tells its host (event.rs), datagrams to *)
(* send left aside: Opened at most once, messages only while it is open,   *)
(* Closed once and last, and a Timeout only for a handshake that did not   *)
(* finish.                                                                 *)
(***************************************************************************)
EXTENDS Naturals

CONSTANT CloseReasons

VARIABLES opens,     \* Opened events the host has polled
          messages,  \* Message events the host has polled
          closes,    \* Closed events the host has polled
          reason     \* why the tunnel stopped, "none" while it has not

vars == <<opens, messages, closes, reason>>

Init == opens = 0 /\ messages = 0 /\ closes = 0 /\ reason = "none"

Opened ==
    /\ opens = 0 /\ closes = 0
    /\ opens' = 1
    /\ UNCHANGED <<messages, closes, reason>>

Message ==
    /\ opens = 1 /\ closes = 0
    /\ messages' = messages + 1
    /\ UNCHANGED <<opens, closes, reason>>

Closed(why) ==
    /\ closes = 0
    /\ why = "Timeout" => opens = 0
    /\ closes' = 1 /\ reason' = why
    /\ UNCHANGED <<opens, messages>>

Next == Opened \/ Message \/ \E why \in CloseReasons : Closed(why)

Spec == Init /\ [][Next]_vars
=============================================================================
