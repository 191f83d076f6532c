---------------------------- MODULE MC_RtcTunnel ----------------------------
(***************************************************************************)
(* A small instance of RtcTunnel: what the peer may send.                  *)
(***************************************************************************)
EXTENDS RtcTunnel

Sctp(chunks) == [kind |-> "sctp", chunks |-> chunks]
Other(kind) == [kind |-> kind, chunks |-> <<>>]

\* Every stage of the handshake, data bundled with its completion, with an
\* acknowledgement, with a message that is too long and with the end, an
\* association that ends as it starts, and bytes that are no datagram of this
\* connection.
PeerDatagrams ==
    {Other("stun"), Other("dtls"), Other("noise"),
     Sctp(<<"complete">>), Sctp(<<"complete", "data">>), Sctp(<<"complete", "lost">>),
     Sctp(<<"data">>), Sctp(<<"ack", "data">>), Sctp(<<"data", "data", "lost">>),
     Sctp(<<"data", "data", "data">>), Sctp(<<"data", "long", "ack", "data">>)}
=============================================================================
