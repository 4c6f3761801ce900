------------------------------ MODULE RoomGame ------------------------------
(***************************************************************************)
(* One game between two clients of RoomService: the invariant that makes    *)
(* the service a Match, in the four parts in which it is proved: how the    *)
(* two clients come together, where they sit, what they are told, and what  *)
(* is joined before it is dropped.                                          *)
(***************************************************************************)
EXTENDS RoomRefinement

\* There are two clients, and each sends READY as its first message or not at all.
\* Admins may call ShutdownService at any time.
OneGame ==
    /\ One # Other
    /\ Client = {One, Other}
    /\ \A p \in Client : \A i \in 2 .. Len(Traffic[p]) : Traffic[p][i] \subseteq GameOp

-----------------------------------------------------------------------------
(* Coming together.                                                          *)

\* p has sent nothing yet; p has sent its READY, and is not on its way into a room
\* or to the start of a game.
Fresh(p) == sent[p] = 0
Past(p) == ~Fresh(p) /\ pc[p] \notin {"joined", "second", "pair", "rejected"}
AtOrOut(p, r) == At(p) \in {r, None}

\* A game has been started in r.
Seated(r) == room[r].second # None
Seating == {"seat1", "seat2"}
InGame == {"listen", "move", "chat", "resign", "closing"}
Sitting == {"check", "ready"} \cup InGame

\* A client whose handler has received nothing is at the start of the loop or gone.
Newcomers ==
    \A p \in Client :
        /\ Fresh(p) => pc[p] \in {"idle", "exit"} /\ remained[p] = EOF
        /\ pc[p] \in {"idle", "exit", "spin"} => frame[p] = NoFrame

\* The one READY is not replayed: it is never what a later iteration starts with.
NoReplay ==
    \A p \in Client :
        /\ remained[p].op # "READY"
        /\ frame[p].trap = "oops" \/ pc[p] \in {"resign", "closing"} => frame[p].msg.op # "READY"

\* A room has a creator, and keeps the colour that its READY asks for.
Asks(p, k) == \E m \in ReadyOp(RoomId) : m \in Traffic[p][1] /\ m.color = k
Created(r) == room[r].first \in Client /\ Asks(room[r].first, room[r].asked)
Creators ==
    /\ \A r \in rooms : Created(r)
    /\ \A p \in Client : At(p) \in Room => Created(At(p))
    /\ \A r \in Room : Seated(r) => Created(r)

\* Until the game is started, a client holds its READY.
Requests ==
    \A p \in Client :
        pc[p] \in {"joined", "second", "pair", "rejected"} => Asks(p, frame[p].msg.color)

\* Only a client that waits there makes a room WAITING, so that the one that finds it
\* WAITING is the last one to come; and once the game is started nobody else comes.
Waited ==
    /\ \A r \in Room : room[r].status = "WAITING" => \E p \in Client : Past(p) /\ AtOrOut(p, r)
    /\ \A p \in Client : pc[p] \in {"second", "pair", "rejected"} =>
          \A q \in Client \ {p} : Past(q) /\ AtOrOut(q, At(p))
    /\ \A r \in Room : Seated(r) => \A p \in Client : Past(p) /\ AtOrOut(p, r)

\* One game is started at most, and nobody plays where none was.
Single ==
    /\ \A r, q \in Room : Seated(r) /\ Seated(q) => r = q
    /\ \A r \in Room : room[r].status \in {"PLAYING", "ENDED"} => Seated(r)
    /\ \A p \in Client : pc[p] \in Seating \cup Sitting => At(p) \in Room /\ Seated(At(p))

\* The one that started the game takes the second seat, the other one the first.
Seats ==
    \A r \in Room : Seated(r) => \A p \in Client :
        /\ pc[p] = "seat2" => p = room[r].second
        /\ pc[p] \in {"wait", "woken", "seat1"} => p # room[r].second

MeetInv ==
    /\ Newcomers /\ NoReplay /\ Creators /\ Requests
    /\ Waited /\ Single /\ Seats

-----------------------------------------------------------------------------
(* Sitting down.                                                             *)

\* The colour and the peer of player p of r, and the listener that it adds.
Seat(r, p) == IF p = room[r].first THEN room[r].color ELSE Reverse(room[r].color)
Peer(r, p) == IF p = room[r].first THEN room[r].second ELSE room[r].first
Ears(r, p) == [sock |-> p, color |-> Seat(r, p), peer |-> Peer(r, p)]

\* There is a daemon where a game was started, and only there; nobody plays before
\* both handlers are unblocked.
Asleep == {"none", "setup"}
Awake(g) ==
    /\ g.daemon \notin {"none", "lost"}
    /\ g.daemon \notin Asleep \/ g.attached => g.daemon \notin Asleep /\ g.unblocked = Color
Daemons ==
    \A r \in Room : IF Seated(r) THEN Awake(game[r]) ELSE game[r] = NewGame("none")

\* The players have colours that they may have asked for.
Suited ==
    \A r \in Room : Paired(r) => /\ room[r].color \in Color
                                 /\ \A p \in Client : Wished(p, Seat(r, p))

\* A player plays with its own colour against the other one, and listens to its
\* handler before its agent is unblocked.
Facing ==
    \A r \in Room : Paired(r) => \A p \in Client :
        /\ pc[p] \in Sitting => /\ frame[p].color = Seat(r, p)
                                /\ frame[p].peer = Peer(r, p)
                                /\ Ears(r, p) \in game[r].heard
        /\ Seat(r, p) \in game[r].unblocked => Ears(r, p) \in game[r].heard

\* The daemon knows no other listeners.
Listeners ==
    \A r \in Room : Paired(r) =>
        /\ game[r].pending \subseteq game[r].heard
        /\ game[r].heard \subseteq {Ears(r, p) : p \in Client}

SeatInv == Daemons /\ Suited /\ Facing /\ Listeners

-----------------------------------------------------------------------------
(* Being told.                                                               *)

\* Before the game starts nobody is told anything but a REJECT.
Silence == (\A r \in Room : ~Seated(r)) => \A p \in Client : Got(p) \subseteq {RejectMsg}

\* READY and the END of a resignation name the player's own colour; a player that is
\* unblocked or listens has been told it.
Colours ==
    \A r \in Room : Paired(r) => \A p \in Client :
        /\ \A k \in Color : ReadyMsg(k) \in Got(p) \/ ResignEnd(k) \in Got(p) => k = Seat(r, p)
        /\ pc[p] \in InGame => ReadyMsg(Seat(r, p)) \in Got(p)
        /\ Seat(r, p) \in game[r].unblocked => ReadyMsg(Seat(r, p)) \in Got(p)

\* The daemon's turn is what the players have been told, as long as it tells them.
Ahead(p, q) == Count(p, MoveMsg) - Count(q, MoveMsg)
Turns ==
    \A r \in Room : Paired(r) => \A p, q \in Client :
        Seat(r, p) = "WHITE" /\ Seat(r, q) = "BLACK" =>
            /\ Ahead(p, q) \in {0, 1}
            /\ game[r].attached /\ game[r].daemon \in {"BLACK", "BLACK moved"} => Ahead(p, q) = 0
            /\ game[r].attached /\ game[r].daemon \in {"WHITE", "WHITE moved"} => Ahead(p, q) = 1
            /\ game[r].daemon \in Asleep => Count(p, MoveMsg) = 0 /\ Count(q, MoveMsg) = 0

\* The end has not been told while it can still be told, and never twice.
InPlay(r) ==
    \/ game[r].daemon \in Asleep \cup Color \cup {Moved(k) : k \in Color}
    \/ game[r].daemon \in {"over", "listener"} /\ room[r].status = "PLAYING"
Endings ==
    \A r \in Room : Paired(r) =>
        /\ InPlay(r) => \A p \in Client : Count(p, GameEnd) = 0
        /\ \A p \in Client : Count(p, GameEnd) \in {0, 1}
        /\ (\A p \in Client : open[p]) => Count(One, GameEnd) = Count(Other, GameEnd)

ToldInv == Silence /\ Colours /\ Turns /\ Endings

-----------------------------------------------------------------------------
(* Being joined, when nobody calls ShutdownService.                          *)

\* Until both have met, nobody cleans and the room that one waits in is registered.
Meeting ==
    (\E p \in Client : ~Past(p)) => \A q \in Client : At(q) \in Room =>
        /\ pc[q] \in {"joined", "second", "pair", "rejected", "wait", "woken"}
        /\ At(q) \in rooms
        /\ pc[q] # "joined" => room[At(q)].status = "WAITING"

\* The room of a game is registered until the daemon's thread is joined.
Joined ==
    /\ \A r \in Room : Seated(r) => r \in rooms \/ game[r].daemon = "joined"
    /\ \A p \in Client : pc[p] \in {"test", "startfail", "erase"} =>
           game[At(p)].daemon \in {"none", "joined"}
    /\ \A p \in Client : pc[p] # "abort" /\ frame[p].trap # "abort"

JoinInv == Meeting /\ Joined /\ RemovedIsJoined

GameInv == MeetInv /\ SeatInv /\ ToldInv
=============================================================================
