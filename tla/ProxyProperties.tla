-------------------------- MODULE ProxyProperties --------------------------
(***************************************************************************)
(* What the reverse proxy promises to its two ends.                         *)
(***************************************************************************)
EXTENDS ReverseProxy

\* Every variable has its type.
ProxyTypeOK ==
    /\ input \in [End -> Seq(Message)]
    /\ read \in [End -> Nat]
    /\ output \in [End -> Seq(Message)]
    /\ peer \in [End -> {"open", "closed", "broken"}]
    /\ shut \in [End -> BOOLEAN]
    /\ pump \in [End -> {"none", "receive", "send", "close", "done", "failed"}]
    /\ service \in {"connect", "join", "returned", "failed"}

\* Messages come out as they went in: in order, none twice, none left out.
InOrder ==
    \A e \in End :
        /\ Len(output[Other(e)]) <= read[e]
        /\ read[e] <= Len(input[e])
        /\ \A i \in 1 .. Len(output[Other(e)]) : output[Other(e)][i] = input[e][i]

\* When a pump gives up its direction in order, the sink has everything, unless the
\* sink has left itself.  (Both pumps see their sockets closed by each other; the
\* close of one direction never cuts off the messages of the other one while its
\* sink is there.)
Finished(e) == pump[e] \in {"close", "done"}
NothingLost ==
    \A e \in End : Finished(e) /\ peer[Other(e)] = "open" => output[Other(e)] = input[e]

\* What the two rest on: what a pump that is still at work owes to its sink, and
\* why a pump that has finished was allowed to: its peer has closed, or the other
\* pump has finished before.
InFlight ==
    \A e \in End :
        /\ pump[e] = "send" => read[e] > 0
        /\ peer[Other(e)] = "open" /\ pump[e] # "failed" =>
              Len(output[Other(e)]) = IF pump[e] = "send" THEN read[e] - 1 ELSE read[e]
Excused ==
    /\ \A e \in End : shut[Other(e)] <=> pump[e] = "done"
    /\ \A e \in End : Finished(e) => peer[e] = "closed" \/ shut[e]
    /\ \A e \in End : Finished(e) => \E p \in End : peer[p] = "closed"
Unstarted == service = "connect" => \A e \in End : pump[e] = "none"

\* The inductive invariant.
ProxyInv ==
    /\ ProxyTypeOK
    /\ InOrder
    /\ NothingLost
    /\ InFlight
    /\ Excused
    /\ Unstarted

-----------------------------------------------------------------------------
\* Each direction seen as a channel: its sink is told of the end when its socket is
\* closed.
Up == INSTANCE Channel WITH
    input <- input["client"], output <- output["server"],
    gone <- peer["server"] # "open", ended <- shut["server"]
Down == INSTANCE Channel WITH
    input <- input["server"], output <- output["client"],
    gone <- peer["client"] # "open", ended <- shut["client"]

\* The proxy implements a pair of channels, whatever the interleaving of its two
\* threads, which close each other's sockets.
ProxyIsChannels == Up!Spec /\ Down!Spec

-----------------------------------------------------------------------------
(* Under FairSpec.                                                          *)

\* An end that closes in order is not forgotten: the other end sees its socket
\* closed, if it is still there.
CloseIsForwarded ==
    \A e \in End : service = "join" /\ peer[e] = "closed"
                     ~> shut[Other(e)] \/ peer[Other(e)] # "open"

\* Execute returns, so that the thread of this connection ends, when one end has
\* closed in order or both links are gone.  (If one link breaks and the other
\* peer stays, nothing tells that peer: a pump that throws closes nothing.)
Over == (\E e \in End : peer[e] = "closed") \/ (\A e \in End : peer[e] = "broken")
ExecuteReturns == service = "join" /\ Over ~> service = "returned"
=============================================================================
