-------------------------- MODULE MC_DirectTunnel --------------------------
(***************************************************************************)
(* Small instances of DirectTunnel.                                        *)
(***************************************************************************)
EXTENDS DirectTunnel

Bytes(n) == [empty |-> FALSE, len |-> n]
EmptyMessage == [empty |-> TRUE, len |-> 1]

Quiet == [init |-> FALSE, connected |-> FALSE, data |-> <<>>, ack |-> FALSE, lost |-> "no"]
InitChunk == [Quiet EXCEPT !.init = TRUE]
Connected == [Quiet EXCEPT !.connected = TRUE]
Data(s) == [Quiet EXCEPT !.data = s]
Ack == [Quiet EXCEPT !.ack = TRUE]
Lost(how) == [Quiet EXCEPT !.lost = how]

None == [type |-> "none"]
Flight == [type |-> "flight"]
Complete(f) == [type |-> "complete", cert |-> f]
App(p) == [type |-> "app", packet |-> p]

Stun(nominates) == [kind |-> "stun", ok |-> TRUE, nominates |-> nominates]
BadStun == [kind |-> "stun", ok |-> FALSE, nominates |-> FALSE]
BadDtls == [kind |-> "dtls", ok |-> FALSE, first |-> None, second |-> None]
Dtls(first, second) == [kind |-> "dtls", ok |-> TRUE, first |-> first, second |-> second]
Junk == [kind |-> "other"]
Carry(p) == Dtls(App(p), None)

\* Enough to bring a tunnel up, and the ways each phase can go wrong.
HandshakeDatagrams ==
    {Stun(TRUE), BadStun, Junk, BadDtls, Dtls(Flight, None), Dtls(Complete("fp1"), None),
     Dtls(Complete("fp2"), None), Carry(Connected), Carry(Lost("purged")),
     Dtls(Complete("fp1"), App(Connected)),
     Carry([Connected EXCEPT !.data = <<Bytes(1)>>])}

\* The shortest way up for an answerer, whose association begins with the
\* peer's INIT, then data of every kind and loss.
DataDatagrams ==
    {Stun(TRUE), Dtls(Complete("fp1"), App(InitChunk)), Carry(InitChunk), Carry(Connected),
     Carry(Data(<<Bytes(1)>>)), Carry(Data(<<Bytes(2), EmptyMessage>>)),
     Carry(Data(<<Bytes(3)>>)), Carry(Ack),
     Carry(Lost("kept")), Carry([Lost("kept") EXCEPT !.data = <<Bytes(1)>>]),
     Carry(Lost("purged"))}

\* The shortest way up, a refused certificate and loss.
LivenessDatagrams ==
    {Stun(TRUE), Dtls(Complete("fp1"), None), Dtls(Complete("fp2"), None),
     Carry(Connected), Carry(Lost("kept"))}

WellOnly == {AllWell}
ConnectFault == {AllWell, [AllWell EXCEPT !.connect = FALSE]}
BringUpFaults == {AllWell, [AllWell EXCEPT !.connect = FALSE],
                  [AllWell EXCEPT !.write = FALSE], [AllWell EXCEPT !.lost = "purged"]}
OpenFaults == {AllWell, [AllWell EXCEPT !.iceFails = TRUE], [AllWell EXCEPT !.lost = "kept"]}
=============================================================================
