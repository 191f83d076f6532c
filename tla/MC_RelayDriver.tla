--------------------------- MODULE MC_RelayDriver ---------------------------
(***************************************************************************)
(* Small instances of RelayDriver: what the engine may answer.             *)
(***************************************************************************)
EXTENDS RelayDriver

Answer(events) == [events |-> events, ack |-> FALSE, delay |-> 1]

\* Opening, traffic and the ends a tunnel may come to; batches longer than
\* one drain, a message before Opened, a message after Closed.
EngineAnswers ==
    {Answer(<<>>), Answer(<<"Opened">>), Answer(<<"Message", "Opened">>),
     Answer(<<"Message">>), Answer(<<"Message", "Message", "Message">>),
     Answer(<<"Closed", "Message">>), [Answer(<<>>) EXCEPT !.delay = 2]}

\* Traffic one way and acknowledgements the other.
AckAnswers ==
    {Answer(<<"Opened">>), Answer(<<"Message">>), [Answer(<<>>) EXCEPT !.ack = TRUE],
     [Answer(<<"Message">>) EXCEPT !.ack = TRUE, !.delay = 2], Answer(<<"Closed">>)}
=============================================================================
