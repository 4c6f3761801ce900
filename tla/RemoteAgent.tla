----------------------------- MODULE RemoteAgent -----------------------------
(***************************************************************************)
(* The client side of a game: the program play() (private-include/play.h)   *)
(* with its local daemon, and the agent that stands for the opponent on the *)
(* local board (surakarta_agent_remote.cpp): it sends the moves made here   *)
(* to the server and takes the opponent's moves from it.                    *)
(*                                                                          *)
(* Each program is one thread.  Nobody catches what the agent throws, so an *)
(* exception ends the program, which closes its connection.                 *)
(***************************************************************************)
EXTENDS Protocol, Integers, Sequences

CONSTANT
    Client      \* the connections, one program each

VARIABLES
    agent,      \* the program of each client
    posted,     \* how many messages it has sent: READY, then its moves
    out,        \* everything the server has sent to the client
    open,       \* FALSE once the program has closed its connection
    closed,     \* the clients whose connection the server has closed
    length      \* the number of legal moves that end a game

\* pc: where the program is, and how it ended; color: assigned_color_; taken: how
\* many messages it has received; moves: on the local board; own: whether the last
\* of them is its own and not yet sent (a trace that UpdateAndGetTrace would
\* return); remote_game_ended: the agent's flag; reports: how often
\* OnRemoteGameEnded was invoked.
NewProgram == [pc |-> "connect", color |-> "NONE", taken |-> 0, moves |-> 0,
               own |-> FALSE, remote_game_ended |-> FALSE, reports |-> 0]
Failed == {"rejected", "unexpected", "eof"}
Over == {"played"} \cup Failed
Ended == Over \cup {"crashed"}

Become(c, p) == agent' = [agent EXCEPT ![c] = p]

-----------------------------------------------------------------------------
(* The socket.                                                              *)

\* Send.  To a server that has closed a message is lost; that Send may throw then
\* is left out, for a server closes the connection of a program that waits for an
\* answer only, and the EOF that it gets ends it in the same way.
Post(c) == posted' = [posted EXCEPT ![c] = @ + 1]

\* Receive: the next message, or nullopt when the server has closed.
Receive(c, m) ==
    \/ agent[c].taken < Len(out[c]) /\ m = out[c][agent[c].taken + 1]
    \/ agent[c].taken = Len(out[c]) /\ c \in closed /\ m = EOF
Taken(c) == [agent[c] EXCEPT !.taken = @ + 1]

\* The program ends with the exception for a message that is not in Expected.
Throws(c, m, Expected) ==
    \/ m = EOF /\ Become(c, [agent[c] EXCEPT !.pc = "eof"])
    \/ m.op \notin Expected \cup {"EOF"} /\ Become(c, [Taken(c) EXCEPT !.pc = "unexpected"])

-----------------------------------------------------------------------------
(* SurakartaAgentRemoteFactory: connect, ask for a seat, wait for a colour.  *)

Connect(c) ==
    /\ agent[c].pc = "connect"
    /\ Become(c, [agent[c] EXCEPT !.pc = "handshake"])
    /\ Post(c)
    /\ UNCHANGED <<out, open>>

\* CreateAgent: the local daemon asks the program's own agent for the moves of
\* its colour and the remote agent for the others.  BLACK moves first.
Seated(p, k) == [p EXCEPT !.color = k, !.pc = IF k = "BLACK" THEN "think" ELSE "receive"]
Handshake(c) ==
    /\ agent[c].pc = "handshake"
    /\ \E m \in Answer \cup {EOF} :
         /\ Receive(c, m)
         /\ \/ m.op = "READY" /\ Become(c, Seated(Taken(c), m.color))
            \/ m.op = "REJECT" /\ Become(c, [Taken(c) EXCEPT !.pc = "rejected"])
            \/ Throws(c, m, {"READY", "REJECT"})
    /\ UNCHANGED <<posted, out, open>>

-----------------------------------------------------------------------------
(* The local daemon.                                                        *)

\* A legal move on the local board: it ends the game, or next is to move.
AfterMove(p, next) ==
    [p EXCEPT !.moves = @ + 1, !.pc = IF p.moves + 1 = length THEN "ended" ELSE next]

\* The program's own agent moves.
Think(c) ==
    /\ agent[c].pc = "think"
    /\ Become(c, [AfterMove(agent[c], "receive") EXCEPT !.own = TRUE])
    /\ UNCHANGED <<posted, out, open>>

\* CalculateMove, and the OnGameEnded listener if the server has not ended the game,
\* first send the move that was made here, if there is one.
Sends(p) == p.pc = "receive" \/ (p.pc = "ended" /\ ~p.remote_game_ended)
SendOwnMove_NotUpdated(c) ==     \* UpdateAndGetTrace would find the same move again
    /\ Sends(agent[c])
    /\ agent[c].own
    /\ Post(c)
    /\ UNCHANGED <<agent, out, open>>
SendOwnMove(c) ==
    /\ Sends(agent[c])
    /\ agent[c].own
    /\ Become(c, [agent[c] EXCEPT !.own = FALSE])
    /\ Post(c)
    /\ UNCHANGED <<out, open>>

\* CalculateMove, the label "receive".  After END the agent returns an illegal move,
\* at which the local daemon calls the listeners and asks nobody any more: the test
\* at the head of CalculateMove finds remote_game_ended_ FALSE.
Reported_NotSet(p) == [p EXCEPT !.reports = @ + 1, !.pc = "ended"]   \* without remote_game_ended_
Reported(p) == [p EXCEPT !.reports = @ + 1, !.remote_game_ended = TRUE, !.pc = "ended"]
CalculateMove(c) ==
    /\ agent[c].pc = "receive"
    /\ ~agent[c].own
    /\ \E m \in Answer \cup {EOF} :
         /\ Receive(c, m)
         /\ \/ m.op = "MOVE" /\ Become(c, AfterMove(Taken(c), "think"))
            \/ m.op = "END" /\ Become(c, Reported(Taken(c)))
            \/ m.op = "CHAT" /\ Become(c, Taken(c))
            \/ Throws(c, m, {"MOVE", "END", "CHAT"})
    /\ UNCHANGED <<posted, out, open>>

\* The OnGameEnded listener: if the agent has not had the END, the very next message
\* has to be it.
GameEnded(c) ==
    /\ agent[c].pc = "ended"
    /\ \/ /\ agent[c].remote_game_ended
          /\ Become(c, [agent[c] EXCEPT !.pc = "played"])
       \/ /\ ~agent[c].remote_game_ended
          /\ ~agent[c].own
          /\ \E m \in Answer \cup {EOF} :
               /\ Receive(c, m)
               /\ \/ m.op = "END" /\ Become(c, [Taken(c) EXCEPT !.reports = @ + 1, !.pc = "played"])
                  \/ Throws(c, m, {"END"})
    /\ UNCHANGED <<posted, out, open>>

-----------------------------------------------------------------------------
\* play() has returned or thrown: agent and factory are destroyed, and with them
\* the last references to the socket.
Close(c) ==
    /\ agent[c].pc \in Over
    /\ open[c]
    /\ open' = [open EXCEPT ![c] = FALSE]
    /\ UNCHANGED <<agent, posted, out>>

\* The program is killed.
Crash(c) ==
    /\ agent[c].pc \notin Ended
    /\ open[c]
    /\ Become(c, [agent[c] EXCEPT !.pc = "crashed"])
    /\ open' = [open EXCEPT ![c] = FALSE]
    /\ UNCHANGED <<posted, out>>

Play(c) ==
    \/ Connect(c) \/ Handshake(c) \/ Think(c) \/ SendOwnMove(c)
    \/ CalculateMove(c) \/ GameEnded(c) \/ Close(c)
=============================================================================
