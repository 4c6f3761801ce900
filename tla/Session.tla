------------------------------- MODULE Session -------------------------------
(***************************************************************************)
(* RoomService together with the programs of its clients: what test.cpp     *)
(* calls a normal game, and a game of a program against a client that sends *)
(* what it likes.  RoomService says what the server does with any traffic,  *)
(* RemoteAgent where the traffic of a program comes from; here the two      *)
(* share the connections, and the server's board has the rules of the game. *)
(***************************************************************************)
EXTENDS RoomProperties

CONSTANT
    Cast        \* what a session can be: which clients are programs, which clients
                \* may go away before the end, how many legal moves end the game

ASSUME SessionConstants ==
    /\ Cast \subseteq [program : SUBSET Client, mortal : SUBSET Client, length : Nat \ {0}]
    /\ Quitters = Client

VARIABLES
    agent,      \* the programs (RemoteAgent)
    posted,     \* how many messages they have sent
    cast        \* the session, an element of Cast

agentVars == <<agent, posted>>
sessionVars == <<vars, agentVars, cast>>

\* The server closes a connection when Execute returns.
A == INSTANCE RemoteAgent WITH
    closed <- {c \in Client : pc[c] = "exit"},
    length <- cast.length

SessionInit ==
    /\ Init
    /\ cast \in Cast
    /\ agent = [c \in Client |-> A!NewProgram]
    /\ posted = [c \in Client |-> 0]

-----------------------------------------------------------------------------
(* The server's steps.                                                      *)

\* What a handler receives from a program is the next message it has posted: its
\* READY, then its moves, which are legal.
LastMessage(c) == IF frame'[c].msg = EOF THEN remained'[c] ELSE frame'[c].msg
Honest(c) ==
    sent'[c] # sent[c] =>
        /\ sent'[c] <= posted[c]
        /\ pc'[c] = "spin" \/ LastMessage(c).op \in {"READY", "MOVE"}

\* A move that a program sends before the daemon asks for it (BLACK's first, while
\* WHITE's handler is not yet unblocked) is kept until the daemon does.
Pending == {"setup", "BLACK", "WHITE", "BLACK moved", "WHITE moved"}
Patient(c) ==
    pc[c] = "move" /\ pc'[c] # "move" =>
        game[At(c)].daemon = frame[c].color \/ game[At(c)].daemon \notin Pending

\* The rules, on the server's board as on the local ones: the length-th legal move
\* ends the game and no other one does; only a free client makes illegal moves.
Made(r) == Count(room[r].first, MoveMsg) + Count(room[r].second, MoveMsg)
Movers(r, k) == {l.sock : l \in {x \in game[r].heard : x.color = k}}
Rules ==
    \A r \in Room : \A k \in Color :
        game[r].attached /\ game[r].daemon = Moved(k) /\ game'[r].daemon # Moved(k) =>
            \/ out' # out /\ (game'[r].daemon = "over" <=> Made(r) + 1 = cast.length)
            \/ out' = out /\ game'[r].daemon = "done"
            \/ out' = out /\ Movers(r, k) \cap cast.program = {}

\* A program closes its connection only when it ends, a free client if it is mortal.
Serve(a) ==
    /\ a
    /\ \A c \in cast.program : Honest(c) /\ Patient(c)
    /\ \A c \in Client : open'[c] # open[c] => c \in cast.mortal \ cast.program
    /\ Rules
    /\ UNCHANGED <<agentVars, cast>>

-----------------------------------------------------------------------------
(* The programs' steps.                                                     *)

Run(a) == a /\ UNCHANGED <<rooms, room, game, pc, frame, remained, sent, cast>>
Play(c) == c \in cast.program /\ Run(A!Play(c))
Crash(c) == c \in cast.program \cap cast.mortal /\ Run(A!Crash(c))

SessionNext ==
    \/ Serve(Next)
    \/ ~Terminated /\ \E c \in Client : Play(c) \/ Crash(c)

SessionSpec == SessionInit /\ [][SessionNext]_sessionVars

\* The server's threads are as fair as in RoomService, and a message that has been
\* posted is received; a program goes on whenever it can.
SessionFairness ==
    /\ \A c \in Client :
         /\ WF_sessionVars(Serve(Running(Handler(c))) /\ (c \in cast.program \/ UNCHANGED sent))
         /\ WF_sessionVars(Running(Play(c)))
    /\ \A t \in Thread : WF_sessionVars(Serve(Running(CleanUp(t))))
    /\ \A r \in Room : WF_sessionVars(Serve(Running(Daemon(r))))
FairSession == SessionSpec /\ SessionFairness
=============================================================================
