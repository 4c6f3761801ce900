--------------------------- MODULE RoomProperties ---------------------------
(***************************************************************************)
(* What the room service promises: invariants and action properties of      *)
(* RoomService!Spec, liveness properties of RoomService!FairSpec, and the   *)
(* statements of the code's comments and of test.cpp that it does not keep. *)
(***************************************************************************)
EXTENDS RoomService, FiniteSets

RoomStatus == {"EMPTY", "WAITING", "PLAYING", "ENDED", "CLOSED", "REMOVED"}
DaemonStatus == {"none", "setup", "BLACK", "WHITE", "BLACK moved", "WHITE moved",
                 "over", "listener", "done", "joined", "lost"}
Label == {"idle", "spin", "joined", "wait", "woken", "second", "pair", "rejected",
          "conflict", "seat1", "seat2", "check", "ready", "listen", "move", "chat",
          "resign", "closing",
          "oops", "clean", "kill", "join", "joining", "test", "startfail", "erase",
          "pick", "exit", "abort"}

RoomType == [id : RoomId \cup {None}, status : RoomStatus, lock : Thread \cup {None},
             first : Client \cup {None}, asked : Request,
             second : Client \cup {None}, color : Request]
Listener == [sock : Client, color : Request, peer : Client \cup {None}]
GameType == [daemon : DaemonStatus, unblocked : SUBSET Request, heard : SUBSET Listener,
             attached : BOOLEAN, pending : SUBSET Listener, killers : SUBSET Thread]
FrameType == [at : Room \cup {None}, msg : Input(RoomId), color : Request,
              peer : Client \cup {None}, trap : {"exit", "oops", "abort"}]

\* Every variable has its type.
TypeOK ==
    /\ rooms \subseteq Room
    /\ room \in [Room -> RoomType]
    /\ game \in [Room -> GameType]
    /\ pc \in [Thread -> Label]
    /\ frame \in [Thread -> FrameType]
    /\ remained \in [Thread -> Input(RoomId)]
    /\ open \in [Client -> BOOLEAN]
    /\ sent \in [Client -> Nat]
    /\ out \in [Client -> Seq(Answer)]

-----------------------------------------------------------------------------
(* The registry and the lock: for any number of clients, rooms and messages. *)

\* A room number names at most one registered room, so that GetOrCreateRoom and
\* the erasing loop, which stop at the first match, cannot miss another one.
UniqueIds == \A r, q \in rooms : room[r].id = room[q].id => r = q

\* A REMOVED room is not in the vector.  ShutdownService relies on it: its loop
\* takes rooms[0] again and again, and ShutdownAndRemoveRoom returns at once from
\* a REMOVED room.
RemovedUnregistered == \A r \in rooms : room[r].status # "REMOVED"

\* ShutdownAndRemoveRoom calls StartFailed, which locks Room::mutex, even when it
\* was itself called with the mutex held: a thread never locks a mutex it holds.
NoSelfDeadlock == \A t \in Thread : pc[t] = "startfail" => room[At(t)].lock # t

\* Room::mutex is kept across steps only by the thread that is cleaning that
\* room, and until it lets go the room is CLOSED, or REMOVED by another cleaner.
Cleaning == {"clean", "kill", "join", "joining", "test", "erase"}
LockDiscipline ==
    \A r \in Room : \A t \in Thread :
        room[r].lock = t => /\ At(t) = r
                            /\ pc[t] \in Cleaning
                            /\ room[r].status \in {"CLOSED", "REMOVED"}

\* What those four rest on.  A thread is in a room except between two rooms, and a
\* thread that takes a seat or has taken it is to tell its client a colour.
InRoom ==
    \A t \in Thread : pc[t] \notin {"idle", "spin", "exit", "pick", "abort"} => At(t) \in Room
Colored ==
    /\ \A r \in Room : room[r].status \in {"PLAYING", "ENDED"} => room[r].color \in Color
    /\ \A t \in Thread : pc[t] \in {"seat1", "seat2"} => room[At(t)].color \in Color
    /\ \A t \in Thread : pc[t] \in {"check", "ready"} => frame[t].color \in Color

\* The inductive invariant: no handler, daemon or shutdown step breaks any of them.
IndInv ==
    /\ TypeOK
    /\ UniqueIds
    /\ RemovedUnregistered
    /\ LockDiscipline
    /\ InRoom
    /\ Colored

-----------------------------------------------------------------------------
(* One game between two clients that send one READY each.                    *)

\* The room has two different players.  (It has not when its creator was overtaken
\* between GetOrCreateRoom and WaitingIfIsFirst and became the second player.)
Paired(r) == room[r].second \notin {None, room[r].first}
Players(r) == {room[r].first, room[r].second} \ {None}

Got(c) == {out[c][i] : i \in DOMAIN out[c]}
Count(c, m) == Cardinality({i \in DOMAIN out[c] : out[c][i] = m})

\* The process is never terminated by a std::thread that is dropped or replaced
\* before it was joined.
NoTerminate == ~Terminated

\* When a room is REMOVED its game is over and its daemon thread joined, whoever
\* cleaned it and whatever the other player was doing.
RemovedIsJoined ==
    \A r \in Room : room[r].status = "REMOVED" => game[r].daemon \in {"none", "joined"}

\* The two players of a room are told opposite colours, each the one it asked for
\* in its READY if it asked for one.
Wished(c, k) == \E m \in ReadyOp(RoomId) : m \in Traffic[c][1] /\ m.color \in {"NONE", k}
ColorsAsAsked ==
    \A r \in Room : Paired(r) =>
        /\ \A c \in Players(r) : \A k \in Color : ReadyMsg(k) \in Got(c) => Wished(c, k)
        /\ \A k \in Color : \E c \in Players(r) : ReadyMsg(k) \notin Got(c)

\* A player that is told of its peer's resignation is told that it has won: the
\* winner is the colour that READY gave it, whichever of the two comes first.
WinnerIsSurvivor ==
    \A r \in Room : Paired(r) =>
        \A c \in Players(r) : \A k, w \in Color :
            {ReadyMsg(k), ResignEnd(w)} \subseteq Got(c) => w = k

\* The end of the game is told once, though each of the two OnGameEnded listeners
\* sends it to both players: of two players that are still there, to both or none.
EndsAgree ==
    \A r \in Room : Paired(r) =>
        \A c, d \in Players(r) :
            /\ Count(c, GameEnd) <= 1
            /\ open[c] /\ open[d] => Count(c, GameEnd) = Count(d, GameEnd)

\* Nobody is sent a move before both players have been sent READY.
ReadyBeforeMoves ==
    \A r \in Room : Paired(r) =>
        \A c, d \in Players(r) :
            MoveMsg \in Got(c) => \E k \in Color : ReadyMsg(k) \in Got(d)

\* Each move is relayed to the opponent only, and the players move in turn, BLACK
\* first: WHITE has been sent as many moves as BLACK or one more.
MovesAlternate ==
    \A r \in Room : Paired(r) =>
        \A b, w \in Players(r) :
            ReadyMsg("BLACK") \in Got(b) /\ ReadyMsg("WHITE") \in Got(w)
                => Count(w, MoveMsg) - Count(b, MoveMsg) \in {0, 1}

-----------------------------------------------------------------------------
(* What must happen, under FairSpec.                                         *)

\* Two players that are matched and stay are both answered, with READY or with the
\* END of a peer that has already given up; no wakeup of the first player is lost.
\* (If the peer's handler throws, for a move that the daemon refuses, it closes the
\* room and tells nobody.)
Matched(c) == \E r \in Room : room[r].status = "PLAYING" /\ c \in Players(r)
Answered(c) == \E m \in Got(c) : m.op \in {"READY", "END"}
PeerThrows(c) == \E d \in Client \ {c} : pc[d] = "oops"
MatchedAreAnswered ==
    \A c \in Client : Matched(c) ~> Answered(c) \/ ~open[c] \/ PeerThrows(c)

\* A closed room whose two agents can be created is removed: the cleaning thread
\* gets the daemon to end by illegal moves and joins it, though the other player
\* may be moving, giving up and cleaning too; unless it found the game ENDED and
\* waits for a listener that waits for it (see EndedIsCleaned).
Unblocked(r) == game[r].unblocked = Color
Deadlocked(r) ==
    \E t \in Thread : room[r].lock = t /\ pc[t] = "joining" /\ game[r].daemon = "listener"
ClosedIsRemoved ==
    \A r \in Room : room[r].status = "CLOSED" /\ Unblocked(r)
                        ~> room[r].status = "REMOVED" \/ Deadlocked(r)

\* The handler thread of a player that disconnects during the game, with no
\* message of it left to be read, ends; unless the cleaning deadlocks, as above.
Left(c) == ~open[c] /\ sent[c] = Len(Traffic[c])
PlayerCanLeave ==
    \A c \in Client : pc[c] = "listen" /\ Left(c) /\ Unblocked(At(c))
                        ~> pc[c] = "exit" \/ \E r \in Room : At(c) = r /\ Deadlocked(r)

\* When one of two players leaves the game the other one, if it stays, is told an
\* END, by the peer's handler or by a listener of the daemon, whichever is first and
\* though telling the one that has left may throw; unless its own handler has left
\* the loop, because it gave up too or because a message of it could not be handled.
Stays(c) == pc[c] \in {"listen", "move", "chat"}
Deserted(c, d) ==
    /\ c # d /\ At(c) = At(d)
    /\ pc[c] = "listen" /\ open[c]
    /\ pc[d] = "listen" /\ Left(d)
StayerIsTold ==
    \A c, d \in Client :
        Deserted(c, d) ~> (\E m \in Got(c) : m.op = "END") \/ ~Stays(c)

\* ShutdownService, called when every client waits for a peer or for a message of
\* its game, returns: it removes all the rooms, ending the games.
Settled == \A c \in Client : pc[c] \in {"wait", "listen"}
ServiceStops == \A t \in Admin : pc[t] = "idle" /\ Settled ~> pc[t] = "exit"

-----------------------------------------------------------------------------
(* What comments and the test say, and the code does not keep.               *)

\* test.cpp:55-63: when the first player closes its connection, the second one
\* receives READY and then END with its own colour as the winner.
ReadyThenEnd ==
    \A c \in Client : \A i \in DOMAIN out[c] :
        out[c][i].op = "END" => \E j \in 1 .. i : out[c][j].op = "READY"

\* Comment at lines 303-306 and 350-353, on a room whose "game is ended": "there must
\* be one and only one thread [...] to clean the room"; it is cleaned, at the latest
\* when both players have gone.
EndedIsCleaned ==
    \A r \in Room :
        room[r].status = "ENDED" /\ (\A c \in Client : ~open[c]) ~> room[r].status = "REMOVED"

\* test.cpp:65-67: after a resignation the service can clean the room.
ClosedIsCleaned == \A r \in Room : room[r].status = "CLOSED" ~> room[r].status = "REMOVED"

\* Comment at line 271, on a room in which a game is going on: "This room is not
\* available".
PlayingIsNotAvailable ==
    [][\A r \in Room : room[r].status = "PLAYING" => room'[r].status # "WAITING"]_vars

\* Comment at line 172, on a message that is not READY and is read between two
\* games: "invalid opcode; just ignore".  The thread goes on to the end of file.
InvalidIsIgnored == \A c \in Client : pc[c] = "idle" /\ Left(c) ~> pc[c] = "exit"
=============================================================================
