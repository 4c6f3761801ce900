----------------------------- MODULE SessionGame -----------------------------
(***************************************************************************)
(* Two programs that play each other: the invariants that make the three    *)
(* boards one game, in the parts in which they are proved: what a program   *)
(* has on its own board, and which of its moves the server has got so far;  *)
(* and the invariant from which no program is surprised.                    *)
(***************************************************************************)
EXTENDS SessionProperties, RoomGame

-----------------------------------------------------------------------------
(* The local board of a program.                                             *)

\* The moves on the board of p that are its own, sent or not, and the others; the
\* moves that it has received.
Bit(b) == IF b THEN 1 ELSE 0
Own(p) == IF posted[p] = 0 THEN 0 ELSE posted[p] - 1 + Bit(agent[p].own)
Theirs(p) == agent[p].moves - Own(p)
Heard(p) == Cardinality({i \in 1 .. agent[p].taken : out[p][i] = MoveMsg})

\* How far the moves of k are ahead of the others when k thinks.  BLACK moves first.
Lead(k) == IF k = "BLACK" THEN 0 ELSE -1

\* Moves alternate, and those of the opponent are moves that have been received; a
\* program without a colour has no move at all.
Board(p) ==
    LET g == agent[p] IN
    /\ g.taken <= Len(out[p])
    /\ Theirs(p) \in 0 .. Heard(p)
    /\ g.pc \in Playing => Theirs(p) = Heard(p)
    /\ g.pc \in {"connect", "handshake"} =>
          g.color = "NONE" /\ g.taken = 0 /\ posted[p] = Bit(g.pc = "handshake")
    /\ g.color = "NONE" =>
          g.moves = 0 /\ ~g.own /\ posted[p] <= 1 /\ g.pc \notin {"think", "receive", "ended", "played"}
    /\ g.color # "NONE" =>
          posted[p] > 0 /\ Own(p) - Theirs(p) \in {Lead(g.color), Lead(g.color) + 1}
    /\ g.pc = "think" => ~g.own /\ Own(p) - Theirs(p) = Lead(g.color)
    /\ g.pc = "receive" => Own(p) - Theirs(p) = Lead(g.color) + 1
    /\ g.pc \in {"think", "receive"} => g.moves < cast.length
    /\ g.pc = "ended" /\ ~g.remote_game_ended => g.moves = cast.length
    /\ g.moves <= cast.length

\* The types of what the programs keep.
SessionType == ReportInv /\ posted \in [Client -> Nat] /\ cast \in Cast

\* The server has received no message that was not posted, and has told the colour.
Boards ==
    /\ SessionType
    /\ \A p \in Client : Board(p)
    /\ \A p \in cast.program :
          /\ sent[p] <= posted[p]
          /\ agent[p].color # "NONE" => ReadyMsg(agent[p].color) \in Got(p)

-----------------------------------------------------------------------------
(* The server's board.                                                       *)

\* The moves of p that its handler has got: those the daemon has told the peer, the
\* one it is about to tell, and the one that waits for the daemon.
InHand(r, p) ==
    Count(Peer(r, p), MoveMsg) + Bit(game[r].daemon = Moved(Seat(r, p))) + Bit(pc[p] = "move")
Hands == \A r \in Room : Paired(r) => \A p \in Client : InHand(r, p) <= sent[p] - 1

-----------------------------------------------------------------------------
(* No surprise.                                                              *)

\* Two programs neither chat, nor send a move that is none, nor leave the game other
\* than by closing.
Letters ==
    \A p \in Client :
        /\ ChatMsg \notin Got(p)
        /\ pc[p] # "chat"
        /\ pc[p] = "move" => frame[p].msg.op = "MOVE"
        /\ pc[p] = "resign" => ~open[p]

\* Until a game is started: once somebody is rejected nobody can start one any more,
\* somebody sleeps in a room that is WAITING, and a program that has failed was rejected
\* or dropped.
Dismissed(q) == Past(q) \/ pc[q] = "rejected"
Meetings ==
    /\ \A p \in Client : RejectMsg \in Got(p) =>
          (\A q \in Client : Dismissed(q)) /\ \A r \in Room : ~Seated(r)
    /\ \A r \in Room : room[r].status = "WAITING" =>
          \E p \in Client : pc[p] \in {"wait", "woken"} /\ At(p) = r
    /\ (\A r \in Room : ~Seated(r)) => \A p \in Client :
          agent[p].pc \in A!Failed => pc[p] = "exit" \/ RejectMsg \in Got(p)

\* What a program has read: its colour first, and no END while it plays on.
PlaysOn(p) == agent[p].pc \in Playing /\ ~agent[p].remote_game_ended
Reading ==
    \A p \in Client :
        /\ agent[p].pc \in Playing => open[p]
        /\ PlaysOn(p) => \A i \in 1 .. agent[p].taken : out[p][i].op # "END"
        /\ agent[p].color # "NONE" => agent[p].taken >= 1 /\ out[p][1] = ReadyMsg(agent[p].color)
        /\ agent[p].pc = "played" \/ agent[p].remote_game_ended => \E m \in Got(p) : m.op = "END"
        /\ cast.mortal = {} /\ ~open[p] => agent[p].pc \in A!Over

\* READY is told once.
Unready == {"wait", "woken", "seat1", "seat2", "check", "ready"}
ReadyOnce ==
    SomePair => \A p \in Client :
        /\ pc[p] \in Unready => \A m \in Got(p) : m.op # "READY"
        /\ \A i, j \in DOMAIN out[p] : out[p][i].op = "READY" /\ out[p][j].op = "READY" => i = j

\* Whoever is still there has been told the end, or the game is on: nobody cleans the
\* room, and the daemon stops only after the last move, or after one that it could not
\* tell the player that has left.
Informed(p) == ~open[p] \/ \E m \in Got(p) : m.op = "END"
AllInformed == \A p \in Client : Informed(p)
Decided(r) == game[r].daemon \notin Asleep \cup Pending
Untold(r, p) == Count(Peer(r, p), MoveMsg) + 1 + Bit(pc[p] = "move") <= sent[p] - 1
On(r) ==
    /\ room[r].status = "PLAYING"
    /\ game[r].attached \/ game[r].daemon \in Asleep
    /\ \A p \in Client :
          pc[p] \in Unready \cup {"listen", "move", "resign"} \/ (pc[p] = "exit" /\ ~open[p])
    /\ Decided(r) => Made(r) = cast.length \/ \E p \in Client : Untold(r, p)
StillOn == \A r \in Room : Paired(r) /\ ~AllInformed => On(r)

\* If nobody may be killed, nobody leaves before the END, and READY comes first.
Undisturbed ==
    cast.mortal = {} => \A r \in Room : Paired(r) =>
        /\ \A p \in Client : pc[p] # "resign" /\ (out[p] # <<>> => out[p][1].op = "READY")
        /\ room[r].status = "PLAYING" => \A p \in Client : \A m \in Got(p) : m.op # "END"

\* The inductive form of NoSurprise.  A program throws at a message that does not fit
\* where it is (surakarta_agent_remote.cpp:60, 101-106, 151-154) and at the end of the
\* connection, which its handler brings about by returning; so the server must go on
\* with a game (lines 342-385), clean no room and drop no player until everybody who is
\* still there has been sent READY, the moves and the END, in this order.
Candid ==
    cast.program = Client =>
        Letters /\ Meetings /\ Reading /\ ReadyOnce /\ StillOn /\ Undisturbed /\ NoSurprise
=============================================================================
