---------------------------- MODULE ReverseProxy ----------------------------
(***************************************************************************)
(* ReverseProxyService::Execute (src/src/reverse_proxy_service.cpp): one    *)
(* connection of a client, forwarded to the server by two threads ("pumps") *)
(* that each receive from one socket and send to the other.  The pump of an *)
(* end is the one that receives from it.                                    *)
(*                                                                         *)
(* Sockets belong to network-framework and are modelled from their use:     *)
(* Receive returns messages in order, then nullopt once the peer has closed *)
(* in order; on a broken link it throws.  On a socket that the other pump   *)
(* has closed it returns nullopt or throws.  Send to a peer that is not     *)
(* there any more is lost or throws.                                        *)
(***************************************************************************)
EXTENDS Naturals, Sequences

CONSTANTS
    Message,
    MaxMessages,    \* bound: how many messages one end sends
    MayBreak        \* ends whose link may break

End == {"client", "server"}
Other(e) == IF e = "client" THEN "server" ELSE "client"

ASSUME ProxyConstants == MaxMessages \in Nat /\ MayBreak \subseteq End

VARIABLES
    input,      \* input[e]: what the peer at e has sent
    read,       \* read[e]: how many of these its pump has received
    output,     \* output[e]: what the peer at e has been given
    peer,       \* peer[e]: "open", "closed" by the peer, or "broken"
    shut,       \* shut[e]: Close was called on the socket to e
    pump,       \* pump[e]: where the thread that receives from e is
    service     \* where Execute is

vars == <<input, read, output, peer, shut, pump, service>>

Init ==
    /\ input = [e \in End |-> <<>>]
    /\ read = [e \in End |-> 0]
    /\ output = [e \in End |-> <<>>]
    /\ peer = [e \in End |-> "open"]
    /\ shut = [e \in End |-> FALSE]
    /\ pump = [e \in End |-> "none"]
    /\ service = "connect"

-----------------------------------------------------------------------------
(* The two peers.                                                           *)

PeerSends(e) ==
    /\ peer[e] = "open"
    /\ Len(input[e]) < MaxMessages
    /\ \E m \in Message : input' = [input EXCEPT ![e] = Append(@, m)]
    /\ UNCHANGED <<read, output, peer, shut, pump, service>>

PeerLeaves(e) ==
    /\ peer[e] = "open"
    /\ \/ peer' = [peer EXCEPT ![e] = "closed"]
       \/ e \in MayBreak /\ peer' = [peer EXCEPT ![e] = "broken"]
    /\ UNCHANGED <<input, read, output, shut, pump, service>>

-----------------------------------------------------------------------------
(* The pumps.                                                               *)

Goto(e, l) == pump' = [pump EXCEPT ![e] = l]

\* Receive returns nullopt.
Eof_AnyTime(e) == peer[e] = "closed" \/ shut[e]
Eof(e) == (peer[e] = "closed" /\ read[e] = Len(input[e])) \/ shut[e]
Fails(e) == peer[e] = "broken" \/ shut[e]

Receive(e) ==
    /\ pump[e] = "receive"
    /\ \/ /\ read[e] < Len(input[e])
          /\ read' = [read EXCEPT ![e] = @ + 1]
          /\ Goto(e, "send")
       \/ Eof(e) /\ Goto(e, "close") /\ UNCHANGED read
       \/ Fails(e) /\ Goto(e, "failed") /\ UNCHANGED read
    /\ UNCHANGED <<input, output, peer, shut, service>>

\* The message that the pump of e holds.
Held_Newest(e) == input[e][Len(input[e])]
Held(e) == input[e][read[e]]

Send(e) ==
    LET to == Other(e) IN
    /\ pump[e] = "send"
    /\ \/ /\ peer[to] = "open"
          /\ output' = [output EXCEPT ![to] = Append(@, Held(e))]
          /\ Goto(e, "receive")
       \/ peer[to] # "open" /\ Goto(e, "receive") /\ UNCHANGED output
       \/ peer[to] # "open" /\ Goto(e, "failed") /\ UNCHANGED output
    /\ UNCHANGED <<input, read, peer, shut, service>>

\* After nullopt the other socket is closed; after an exception it is not.
ShutBy_Nobody(e) == shut
ShutBy_Own(e) == [shut EXCEPT ![e] = TRUE]
ShutBy(e) == [shut EXCEPT ![Other(e)] = TRUE]
Close(e) ==
    /\ pump[e] = "close"
    /\ shut' = ShutBy(e)
    /\ Goto(e, "done")
    /\ UNCHANGED <<input, read, output, peer, service>>

Pump(e) == Receive(e) \/ Send(e) \/ Close(e)

-----------------------------------------------------------------------------
(* Execute.                                                                 *)

\* ConnectToServer, which may throw, then both threads are started.
Connect ==
    /\ service = "connect"
    /\ \/ service' = "join" /\ pump' = [e \in End |-> "receive"]
       \/ service' = "failed" /\ UNCHANGED pump
    /\ UNCHANGED <<input, read, output, peer, shut>>

Ended(e) == pump[e] \in {"done", "failed"}
Join ==
    /\ service = "join"
    /\ \A e \in End : Ended(e)
    /\ service' = "returned"
    /\ UNCHANGED <<input, read, output, peer, shut, pump>>

Next ==
    \/ \E e \in End : PeerSends(e) \/ PeerLeaves(e) \/ Pump(e)
    \/ Connect \/ Join

Spec == Init /\ [][Next]_vars

\* The threads run; the peers need not send, nor leave.
Fairness == (\A e \in End : WF_vars(Pump(e))) /\ WF_vars(Connect \/ Join)
FairSpec == Spec /\ Fairness
=============================================================================
