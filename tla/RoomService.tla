----------------------------- MODULE RoomService -----------------------------
(***************************************************************************)
(* SurakartaNetworkServiceImpl (src/src/surakarta_network_service.cpp): the *)
(* registry of rooms, the rooms with their mutex and condition variable,    *)
(* one handler thread per connection (Execute), one daemon thread per game, *)
(* and the threads that call ShutdownService.                               *)
(*                                                                          *)
(* A step of a thread is what it does between two points where another      *)
(* thread can interfere: a critical section of Room::mutex or of the        *)
(* service mutex that cannot block is one step, an unlocked access of a     *)
(* Room is a step of its own.  The one critical section that does block     *)
(* (ShutdownAndRemoveRoom called under Room::mutex) keeps room[r].lock over *)
(* several steps.                                                           *)
(***************************************************************************)
EXTENDS Protocol, Integers, Sequences

CONSTANTS
    Client,     \* connections; each has one handler thread, named like it
    Admin,      \* threads that call ShutdownService
    Room,       \* the room objects that can exist at one time
    RoomId,     \* room numbers
    None,       \* the null pointer
    Traffic,    \* Traffic[c][i]: what client c may send as its i-th message
    Quitters,   \* clients that may close their connection
    SendFails   \* whether Send may throw once the peer has closed

Thread == Client \cup Admin

ASSUME ConstantsOK ==
    /\ Client \cap Admin = {}
    /\ None \notin Client \cup Admin \cup Room
    /\ Traffic \in [Client -> Seq(SUBSET (ReadyOp(RoomId) \cup GameOp))]
    /\ Quitters \subseteq Client
    /\ SendFails \in BOOLEAN

VARIABLES
    rooms,      \* the registered rooms (the vector)
    room,       \* struct Room: id, status, lock (the holder of mutex), sockets and colours
    game,       \* the daemon of a room, its thread and the listeners on it
    pc,         \* program counter of each thread
    frame,      \* the locals of an iteration of Execute's loop
    remained,   \* message_remained_in_last_loop, which outlives the iteration
    open,       \* FALSE once the client has closed its connection
    sent,       \* how many messages have been received from the client
    out         \* everything that was sent to the client

connVars == <<open, sent, out>>
vars == <<rooms, room, game, pc, frame, remained, connVars>>

\* first and asked: first_player_socket and the colour its READY asks for;
\* color: first_player_color (the second player has the other one).
NewRoom(i, c, k) == [id |-> i, status |-> "EMPTY", lock |-> None,
                     first |-> c, asked |-> k, second |-> None, color |-> "NONE"]

\* unblocked: colours whose handler may create its agent; heard: the listeners
\* that handler threads have added; attached: the agents pass the daemon's
\* events on to them; pending: OnGameEnded listeners still to be called; killers:
\* threads whose local daemon in ShutdownAndRemoveRoom is this one.
NewGame_NotBlocked(d) ==     \* without BlockAgentCreation
    [daemon |-> d, unblocked |-> Color, heard |-> {}, attached |-> FALSE, pending |-> {},
     killers |-> {}]
NewGame(d) ==
    [daemon |-> d, unblocked |-> {}, heard |-> {}, attached |-> FALSE, pending |-> {},
     killers |-> {}]

\* at: the room; msg: the last message; color and peer: my_color, peer_socket;
\* trap: where an exception out of ShutdownAndRemoveRoom leads.
NoFrame == [at |-> None, msg |-> EOF, color |-> "NONE", peer |-> None, trap |-> "exit"]

Init ==
    /\ rooms = {}
    /\ room = [r \in Room |-> NewRoom(None, None, "NONE")]
    /\ game = [r \in Room |-> NewGame("none")]
    /\ pc = [t \in Thread |-> "idle"]
    /\ frame = [t \in Thread |-> NoFrame]
    /\ remained = [t \in Thread |-> EOF]
    /\ open = [c \in Client |-> TRUE]
    /\ sent = [c \in Client |-> 0]
    /\ out = [c \in Client |-> <<>>]

At(t) == frame[t].at
Goto(t, l) == pc' = [pc EXCEPT ![t] = l]
DropLocals(t) == frame' = [frame EXCEPT ![t] = NoFrame]
NextIteration(t) == Goto(t, "idle") /\ DropLocals(t)
Exit(t) == Goto(t, "exit") /\ DropLocals(t)

\* Room::mutex of the room that t is in can be taken.
Free_NoMutex(t) == TRUE
Free(t) == room[At(t)].lock = None
Status(t) == room[At(t)].status
SetStatus(t, s) == room' = [room EXCEPT ![At(t)].status = s]

-----------------------------------------------------------------------------
(* Sockets.                                                                 *)

\* The client closes its end.
Disconnect(c) ==
    /\ c \in Quitters
    /\ open[c]
    /\ open' = [open EXCEPT ![c] = FALSE]
    /\ UNCHANGED <<rooms, room, game, pc, frame, remained, sent, out>>

\* Receive through SurakartaExceptionAsEofWrapper: the next message, or
\* nullopt when the peer has closed or reading throws.
Receive(c, m) ==
    \/ /\ sent[c] < Len(Traffic[c])
       /\ m \in Traffic[c][sent[c] + 1]
       /\ sent' = [sent EXCEPT ![c] = @ + 1]
    \/ /\ m = EOF
       /\ ~open[c]
       /\ UNCHANGED sent

\* Send to a client that has closed is lost, or throws.
Send(to, m) == out' = [c \in Client |-> IF c \in to THEN Append(out[c], m) ELSE out[c]]
Throws(c) == SendFails /\ ~open[c]
NotSent(c) == Throws(c) /\ UNCHANGED out

-----------------------------------------------------------------------------
(* Joining a room.                                                          *)

Registered_NotClosed(i) == {r \in rooms : room[r].id = i /\ room[r].status # "CLOSED"}
Registered(i) == {r \in rooms : room[r].id = i}

\* A Room object that no shared_ptr refers to.
Unreferenced(r) == r \notin rooms /\ \A t \in Thread : At(t) # r

\* GetOrCreateRoom, under the service mutex: r is the room that READY names.
GetOrCreateRoom(c, m, r) ==
    \/ r \in Registered(m.id) /\ UNCHANGED <<rooms, room, game>>
    \/ /\ Registered(m.id) = {}
       /\ Unreferenced(r)
       /\ rooms' = rooms \cup {r}
       /\ room' = [room EXCEPT ![r] = NewRoom(m.id, c, m.color)]
       /\ game' = [game EXCEPT ![r] = NewGame("none")]

\* WaitReadyMessage, then GetOrCreateRoom.  A message left over from an earlier
\* iteration is used before anything is received.
WaitReady(c) ==
    /\ pc[c] = "idle"
    /\ \E m \in Input(RoomId) :
         /\ IF remained[c] = EOF THEN Receive(c, m) ELSE m = remained[c] /\ UNCHANGED sent
         /\ \/ m.op \in {"EOF", "BADREADY"} /\ Exit(c) /\ UNCHANGED <<rooms, room, game>>
            \/ /\ m.op = "READY"
               /\ \E r \in Room :
                    /\ GetOrCreateRoom(c, m, r)
                    /\ frame' = [frame EXCEPT ![c].at = r, ![c].msg = m]
               /\ Goto(c, "joined")
            \/ /\ m.op \notin {"EOF", "READY", "BADREADY"}   \* tested for ever
               /\ Goto(c, "spin")
               /\ UNCHANGED <<rooms, room, game, frame>>
    /\ UNCHANGED <<remained, open, out>>

\* Room::WaitingIfIsFirst up to the wait.
WaitingIfIsFirst(c) ==
    /\ pc[c] = "joined"
    /\ Free(c)
    /\ \/ Status(c) = "WAITING" /\ Goto(c, "second") /\ UNCHANGED room
       \/ Status(c) # "WAITING" /\ Goto(c, "wait") /\ SetStatus(c, "WAITING")
    /\ UNCHANGED <<rooms, game, frame, remained, connVars>>

\* A condition variable may wake without a notification.
SpuriousWake(c) ==
    /\ pc[c] = "wait"
    /\ Goto(c, "woken")
    /\ UNCHANGED <<rooms, room, game, frame, remained, connVars>>

\* The predicate of the wait, and what WaitingIfIsFirst returns.
Recheck(c) ==
    /\ pc[c] = "woken"
    /\ Free(c)
    /\ Goto(c, CASE Status(c) = "WAITING" -> "wait"
                 [] Status(c) = "PLAYING" -> "seat1"
                 [] OTHER -> "clean")
    /\ UNCHANGED <<rooms, room, game, frame, remained, connVars>>

\* notify_all on the room's condition variable by t, which goes on at l.
NotifyAll_Forgotten(t, l) == Goto(t, l)
NotifyAll(t, l) ==
    pc' = [u \in Thread |-> IF u = t THEN l
                            ELSE IF pc[u] = "wait" /\ At(u) = At(t) THEN "woken" ELSE pc[u]]

\* The second player tests Status(); the alternative is the reject branch.
SecondPlayer(c) ==
    /\ pc[c] = "second"
    /\ Free(c)
    /\ \/ Status(c) = "WAITING" /\ Goto(c, "pair") /\ UNCHANGED <<frame, out>>
       \/ Status(c) # "WAITING" /\ Send({c}, RejectMsg) /\ NextIteration(c)
       \/ Status(c) # "WAITING" /\ NotSent(c) /\ Exit(c)
    /\ UNCHANGED <<rooms, room, game, remained, open, sent>>

\* ResolveColor: the colours the first player can get; none is a conflict.
ResolveColor_AsAsked(first, second) == {k \in {first} : k # second}
ResolveColor_SecondOnly(first, second) == {k \in Color : second \in {"NONE", Reverse(k)}}
ResolveColor(first, second) ==
    {k \in Color : first \in {"NONE", k} /\ second \in {"NONE", Reverse(k)}}
Resolved(c) == ResolveColor(room[At(c)].asked, frame[c].msg.color)

\* A conflict: the second player is told, then the creator of the room (which may be
\* the same one), then StartFailed runs.
Reject(c, to, l) ==
    /\ \/ Send({to}, RejectMsg) /\ Goto(c, l) /\ UNCHANGED frame
       \/ NotSent(to) /\ Exit(c)
    /\ UNCHANGED <<rooms, room, game, remained, open, sent>>
ColorConflict(c) ==
    \/ pc[c] = "pair" /\ Resolved(c) = {} /\ Reject(c, c, "rejected")
    \/ pc[c] = "rejected" /\ Reject(c, room[At(c)].first, "conflict")

\* Room::StartFailed, on a conflict or from ShutdownAndRemoveRoom.
StartFailed(t) ==
    /\ pc[t] \in {"conflict", "startfail"}
    /\ Free(t)
    /\ SetStatus(t, "EMPTY")
    /\ \/ pc[t] = "conflict" /\ NotifyAll(t, "idle") /\ DropLocals(t)
       \/ pc[t] = "startfail" /\ NotifyAll(t, "erase") /\ UNCHANGED frame
    /\ UNCHANGED <<rooms, game, remained, connVars>>

\* The daemon, its thread and both handlers are created and Room::StartRoom
\* publishes them.  Replacing a std::thread that has not been joined is
\* std::terminate ("lost").
StartRoom(c) ==
    LET r == At(c) IN
    /\ pc[c] = "pair"
    /\ Free(c)
    /\ \E k \in Resolved(c) :
         room' = [room EXCEPT ![r].second = c, ![r].color = k, ![r].status = "PLAYING"]
    /\ game' = [game EXCEPT ![r] = NewGame(IF @.daemon \in {"none", "joined"} THEN "setup" ELSE "lost")]
    /\ NotifyAll(c, "seat2")
    /\ UNCHANGED <<rooms, frame, remained, connVars>>

-----------------------------------------------------------------------------
(* Playing.                                                                 *)

\* The thread reads its side of the room, without the lock, and adds its
\* listeners to its handler.
TakeSeat(c) ==
    LET R == room[At(c)]
        color == IF pc[c] = "seat1" THEN R.color ELSE Reverse(R.color)
        peer == IF pc[c] = "seat1" THEN R.second ELSE R.first
    IN
    /\ pc[c] \in {"seat1", "seat2"}
    /\ frame' = [frame EXCEPT ![c].color = color, ![c].peer = peer]
    /\ game' = [game EXCEPT ![At(c)].heard = @ \cup {[sock |-> c, color |-> color, peer |-> peer]}]
    /\ Goto(c, "check")
    /\ UNCHANGED <<rooms, room, remained, connVars>>

\* A handler thread that finds its game ENDED cleans the room, and keeps
\* Room::mutex while it does.
CleanEnded(c, onThrow, m) ==
    /\ Status(c) = "ENDED"
    /\ room' = [room EXCEPT ![At(c)].status = "CLOSED", ![At(c)].lock = c]
    /\ frame' = [frame EXCEPT ![c].trap = onThrow, ![c].msg = m]
    /\ Goto(c, "clean")

\* "check room status", before READY is sent.
CheckRoomStatus(c) ==
    /\ pc[c] = "check"
    /\ Free(c)
    /\ \/ CleanEnded(c, "exit", frame[c].msg)
       \/ Status(c) = "CLOSED" /\ NextIteration(c) /\ UNCHANGED room
       \/ Status(c) \notin {"ENDED", "CLOSED"} /\ Goto(c, "ready") /\ UNCHANGED <<room, frame>>
    /\ UNCHANGED <<rooms, game, remained, connVars>>

\* READY is sent and the handler's agent may be created.
SendReady(c) ==
    /\ pc[c] = "ready"
    /\ \/ /\ Send({c}, ReadyMsg(frame[c].color))
          /\ game' = [game EXCEPT ![At(c)].unblocked = @ \cup {frame[c].color}]
          /\ Goto(c, "listen") /\ UNCHANGED frame
       \/ NotSent(c) /\ Exit(c) /\ UNCHANGED game
    /\ UNCHANGED <<rooms, room, remained, open, sent>>

\* What the listen loop does with a message while the room is PLAYING.
Dispatch(c, m) ==
    \/ m.op \in {"EOF", "LEAVE", "RESIGN"} /\ Goto(c, "resign")
    \/ m.op \in MoveOp /\ Goto(c, "move")
    \/ m.op = "CHAT" /\ Goto(c, "chat")
    \/ m.op \in {"READY", "BADREADY", "OTHER"} /\ UNCHANGED pc

\* One round of the listen loop.  When the room is no longer PLAYING the
\* message is kept for the next iteration (if ENDED, once the room is cleaned).
Listen(c) ==
    /\ pc[c] = "listen"
    /\ Free(c)
    /\ \E m \in Input(RoomId) :
         /\ Receive(c, m)
         /\ \/ /\ Status(c) = "PLAYING"
               /\ Dispatch(c, m)
               /\ frame' = [frame EXCEPT ![c].msg = m]
               /\ UNCHANGED <<room, remained>>
            \/ CleanEnded(c, "oops", m) /\ UNCHANGED remained
            \/ /\ Status(c) \notin {"PLAYING", "ENDED"}
               /\ remained' = [remained EXCEPT ![c] = m]
               /\ NextIteration(c)
               /\ UNCHANGED room
    /\ UNCHANGED <<rooms, game, open, out>>

\* MOVE_OP: parsed and handed to the agent.  Parsing may throw, and so may
\* handing over a move out of turn.
Moved(k) == IF k = "BLACK" THEN "BLACK moved" ELSE "WHITE moved"
CommitMove(c) ==
    LET legal == frame[c].msg.op = "MOVE"
        myTurn == game[At(c)].daemon = frame[c].color
    IN
    /\ pc[c] = "move"
    /\ \/ legal /\ myTurn /\ Goto(c, "listen")
          /\ game' = [game EXCEPT ![At(c)].daemon = Moved(@)]
       \/ legal /\ ~myTurn /\ Goto(c, "listen") /\ UNCHANGED game
       \/ ~(legal /\ myTurn) /\ Goto(c, "oops") /\ UNCHANGED game
    /\ UNCHANGED <<rooms, room, frame, remained, connVars>>

\* CHAT_OP: sent on to the peer, whatever has become of the room since.
Chat(c) ==
    LET peer == frame[c].peer IN
    /\ pc[c] = "chat"
    /\ \/ Send({peer}, ChatMsg) /\ Goto(c, "listen")
       \/ NotSent(peer) /\ Goto(c, "oops")
    /\ UNCHANGED <<rooms, room, game, frame, remained, open, sent>>

\* Resign, first half: the peer is told that it has won.
Winner_Resigner(c) == frame[c].color
Winner(c) == Reverse(frame[c].color)
ResignTo_Self(c) == c        \* line 331 instead of 333
ResignTo(c) == frame[c].peer
Resign(c) ==
    /\ pc[c] = "resign"
    /\ \/ Send({ResignTo(c)}, ResignEnd(Winner(c))) /\ Goto(c, "closing")
       \/ NotSent(ResignTo(c)) /\ Goto(c, "oops")
    /\ UNCHANGED <<rooms, room, game, frame, remained, open, sent>>

\* The room is closed and its cleaning begins: the second half of Resign, under
\* the lock, and the catch block around the listen loop, without it.
CloseRoom(c) ==
    /\ \/ pc[c] = "closing" /\ Free(c) /\ frame' = [frame EXCEPT ![c].trap = "oops"]
       \/ pc[c] = "oops" /\ frame' = [frame EXCEPT ![c].trap = "exit"]
    /\ SetStatus(c, "CLOSED")
    /\ Goto(c, "clean")
    /\ UNCHANGED <<rooms, game, remained, connVars>>

-----------------------------------------------------------------------------
(* The daemon thread (surakarta-core, seen through the calls made on it).   *)

\* Agents are created once both handlers are unblocked, and attach their
\* handlers to the daemon's events.  BLACK moves first.
CreateAgents(r) ==
    /\ game[r].daemon = "setup"
    /\ game[r].unblocked = Color
    /\ game' = [game EXCEPT ![r].daemon = "BLACK", ![r].attached = TRUE]
    /\ UNCHANGED <<rooms, room, pc, frame, remained, connVars>>

GameOver(r) == game' = [game EXCEPT ![r].daemon = "over", ![r].pending = game[r].heard]

\* Where OnMoveCommitted relays a move of colour k: to the opponent.
Relay_Mover(r, k) == {l.sock : l \in {x \in game[r].heard : game[r].attached /\ x.color = k}}
Relay(r, k) == {l.sock : l \in {x \in game[r].heard : game[r].attached /\ x.color = Reverse(k)}}

\* A committed move is illegal, or is relayed and either ends the game or
\* passes the turn.  An exception out of a listener ends the thread.
MakeMove(r) ==
    /\ \E k \in Color :
         /\ game[r].daemon = Moved(k)
         /\ \/ GameOver(r) /\ UNCHANGED out
            \/ Send(Relay(r, k), MoveMsg) /\ GameOver(r)
            \/ Send(Relay(r, k), MoveMsg) /\ game' = [game EXCEPT ![r].daemon = Reverse(k)]
            \/ (\E c \in Relay(r, k) : NotSent(c)) /\ game' = [game EXCEPT ![r].daemon = "done"]
    /\ UNCHANGED <<rooms, room, pc, frame, remained, open, sent>>

\* The next OnGameEnded listener is entered, or the daemon thread finishes.
NextListener(r) ==
    /\ game[r].daemon = "over"
    /\ game' = [game EXCEPT ![r].daemon = IF game[r].attached /\ game[r].pending # {} THEN "listener" ELSE "done"]
    /\ UNCHANGED <<rooms, room, pc, frame, remained, connVars>>

\* Nothing has ended the game yet.
NotEnded_Unchecked(r) == TRUE
NotEnded(r) == room[r].status = "PLAYING"

\* A handler's OnGameEnded listener, a critical section of Room::mutex: the
\* first one that finds the room PLAYING tells both players.  (When its peer_socket
\* is its own socket, in the room of a creator that was overtaken, the code tells it
\* twice; the second END is left out.)
OnGameEnded(r) ==
    /\ game[r].daemon = "listener"
    /\ room[r].lock = None
    /\ \E l \in game[r].pending :
         \/ /\ IF NotEnded(r)
                 THEN Send({l.sock, l.peer}, GameEnd) /\ room' = [room EXCEPT ![r].status = "ENDED"]
                 ELSE UNCHANGED <<room, out>>
            /\ game' = [game EXCEPT ![r].daemon = "over", ![r].pending = @ \ {l}]
         \/ /\ NotEnded(r)
            /\ NotSent(l.sock) \/ (Throws(l.peer) /\ Send({l.sock}, GameEnd))
            /\ game' = [game EXCEPT ![r].daemon = "done"]
            /\ UNCHANGED room
    /\ UNCHANGED <<rooms, pc, frame, remained, open, sent>>

-----------------------------------------------------------------------------
(* ShutdownAndRemoveRoom, run by a handler thread or by ShutdownService.    *)

\* Returning ends the iteration: the lock that CleanEnded took is released and,
\* in the listen loop, the message that was received is kept.
Holds(t) == room[At(t)].lock = t
Released(t) == IF Holds(t) THEN None ELSE room[At(t)].lock
Return(t) ==
    /\ remained' = IF Holds(t) /\ frame[t].trap = "oops"
                   THEN [remained EXCEPT ![t] = frame[t].msg] ELSE remained
    /\ NextIteration(t)

\* Entry: nothing to do if REMOVED; else the daemon's listeners are removed.
Clean(t) ==
    LET r == At(t) IN
    /\ pc[t] = "clean"
    /\ \/ /\ Status(t) = "REMOVED"
          /\ room' = [room EXCEPT ![r].lock = Released(t)]
          /\ Return(t)
          /\ UNCHANGED game
       \/ /\ Status(t) # "REMOVED"
          /\ \/ game[r].daemon = "none" /\ Goto(t, "join") /\ UNCHANGED game
             \/ /\ game[r].daemon # "none"
                /\ Goto(t, "kill")
                /\ game' = [game EXCEPT ![r].attached = FALSE, ![r].killers = @ \cup {t}]
          /\ UNCHANGED <<room, frame, remained>>
    /\ UNCHANGED <<rooms, connVars>>

\* The agent to move accepts the illegal move.
CanKill_WhiteOnly(r) == game[r].daemon = "WHITE"
CanKill(r) == game[r].daemon \in Color

\* Illegal moves are made for whoever is to move until the game has ended.  The game
\* of a thread that is not among the killers was joined before StartRoom replaced it.
KillGame(t) ==
    LET r == At(t)
        mine == t \in game[r].killers
    IN
    /\ pc[t] = "kill"
    /\ \/ mine /\ CanKill(r) /\ GameOver(r) /\ UNCHANGED pc
       \/ /\ mine => game[r].daemon \in {"over", "listener", "done", "joined"}
          /\ Goto(t, "join")
          /\ UNCHANGED game
    /\ UNCHANGED <<rooms, room, frame, remained, connVars>>

\* Two threads in join() of one std::thread: undefined; the later one returns
\* or throws std::system_error.
Contended(t) ==
    \/ game[At(t)].daemon = "joined"
    \/ \E u \in Thread \ {t} : pc[u] = "joining" /\ At(u) = At(t)

\* joinable() is tested, and only then is the daemon thread joined.
Joinable_Never(t) == FALSE
Joinable_NotContended(t) == game[At(t)].daemon \notin {"none", "joined"} /\ ~Contended(t)
Joinable(t) == game[At(t)].daemon \notin {"none", "joined"}
TestJoinable(t) ==
    /\ pc[t] = "join"
    /\ Goto(t, IF Joinable(t) THEN "joining" ELSE "test")
    /\ UNCHANGED <<rooms, room, game, frame, remained, connVars>>

JoinDaemon(t) ==
    LET r == At(t) IN
    /\ pc[t] = "joining"
    /\ \/ /\ game[r].daemon \in {"done", "joined"}
          /\ game' = [game EXCEPT ![r].daemon = "joined"]
          /\ Goto(t, "test")
          /\ UNCHANGED <<room, frame>>
       \/ /\ Contended(t)
          /\ Goto(t, frame[t].trap)
          /\ room' = [room EXCEPT ![r].lock = Released(t)]
          /\ IF frame[t].trap = "oops" THEN UNCHANGED frame ELSE DropLocals(t)
          /\ UNCHANGED game
    /\ UNCHANGED <<rooms, remained, connVars>>

\* The unlocked test that decides whether StartFailed is called.
StillWaiting_NotPlaying(t) == Status(t) # "PLAYING"
StillWaiting(t) == Status(t) = "WAITING"
TestWaiting(t) ==
    /\ pc[t] = "test"
    /\ Goto(t, IF StillWaiting(t) THEN "startfail" ELSE "erase")
    /\ UNCHANGED <<rooms, room, game, frame, remained, connVars>>

\* Under the service mutex: the room with this id leaves the vector and the
\* room is REMOVED.
EraseRoom(t) ==
    LET r == At(t) IN
    /\ pc[t] = "erase"
    /\ rooms' = rooms \ Registered(room[r].id)
    /\ room' = [room EXCEPT ![r].status = "REMOVED", ![r].lock = Released(t)]
    /\ Return(t)
    /\ UNCHANGED <<game, connVars>>

\* ShutdownService's loop: the emptiness test and the access to rooms[0] are
\* made without the service mutex; the vector may have become empty in between
\* (undefined: the process is taken to abort).
ShutdownService(t) ==
    /\ pc[t] = "idle"
    /\ Goto(t, IF rooms = {} THEN "exit" ELSE "pick")
    /\ UNCHANGED <<rooms, room, game, frame, remained, connVars>>

PickRoom(t) ==
    /\ pc[t] = "pick"
    /\ \/ /\ \E r \in rooms : frame' = [frame EXCEPT ![t].at = r, ![t].trap = "abort"]
          /\ Goto(t, "clean")
       \/ rooms = {} /\ Goto(t, "abort") /\ UNCHANGED frame
    /\ UNCHANGED <<rooms, room, game, remained, connVars>>

-----------------------------------------------------------------------------
\* std::terminate: a joinable std::thread was replaced, or destroyed with its
\* room, or an exception left main.
Terminated ==
    \/ \E r \in Room : \/ game[r].daemon = "lost"
                       \/ Unreferenced(r) /\ game[r].daemon \notin {"none", "joined"}
    \/ \E t \in Thread : pc[t] = "abort"

CleanUp(t) ==
    \/ Clean(t) \/ KillGame(t) \/ TestJoinable(t) \/ JoinDaemon(t)
    \/ TestWaiting(t) \/ StartFailed(t) \/ EraseRoom(t)

Handler(c) ==
    \/ WaitReady(c) \/ WaitingIfIsFirst(c) \/ Recheck(c)
    \/ SecondPlayer(c) \/ ColorConflict(c) \/ StartRoom(c)
    \/ TakeSeat(c) \/ CheckRoomStatus(c) \/ SendReady(c) \/ Listen(c)
    \/ CommitMove(c) \/ Chat(c) \/ Resign(c) \/ CloseRoom(c)

Daemon(r) == CreateAgents(r) \/ MakeMove(r) \/ NextListener(r) \/ OnGameEnded(r)

Next ==
    /\ ~Terminated
    /\ \/ \E c \in Client : Disconnect(c) \/ SpuriousWake(c) \/ Handler(c)
       \/ \E t \in Thread : CleanUp(t)
       \/ \E t \in Admin : ShutdownService(t) \/ PickRoom(t)
       \/ \E r \in Room : Daemon(r)

Spec == Init /\ [][Next]_vars

\* Every thread that can go on goes on.  No client has to send anything:
\* receiving is fair only for a message at hand and for end of file.
Running(a) == ~Terminated /\ a
Fairness ==
    /\ \A c \in Client : WF_vars(Running(Handler(c) /\ UNCHANGED sent))
    /\ \A t \in Thread : WF_vars(Running(CleanUp(t)))
    /\ \A t \in Admin : WF_vars(Running(ShutdownService(t) \/ PickRoom(t)))
    /\ \A r \in Room : WF_vars(Running(Daemon(r)))
FairSpec == Spec /\ Fairness
=============================================================================
