--------------------------- MODULE MCRoomService ---------------------------
(***************************************************************************)
(* Instances of RoomService for TLC.                                        *)
(***************************************************************************)
EXTENDS RoomGame, TLC

CONSTANTS a, b, c

Ready(k) == [op |-> "READY", id |-> 1, color |-> k]
Op(o) == [op |-> o]

\* Two players of one room: one READY each, then moves, and a chat message or a
\* LEAVE of the one or a resignation of the other, which may go away at any time.
DuelTraffic ==
    (a :> <<{Ready("BLACK")}, {Op("MOVE")}, {Op("MOVE"), Op("CHAT"), Op("LEAVE")}>>) @@
    (b :> <<{Ready("NONE")}, {Op("MOVE"), Op("RESIGN")}>>)

\* They are an instance that the theorems of RoomGameProofs are about.
ASSUME DuelIsOneGame == Traffic = DuelTraffic => OneGame /\ Admin = {}

\* Three clients and one room number: conflicting colours, second games, a READY
\* that is replayed.
CrowdTraffic ==
    (a :> <<{Ready("BLACK")}, {Op("MOVE"), Op("OTHER")}>>) @@
    (b :> <<{Ready("BLACK")}, {Ready("WHITE"), Op("BADMOVE")}>>) @@
    (c :> <<{Ready("NONE"), Op("BADREADY")}>>)

\* A game that either player may give up, with a move of either one, in its turn, out
\* of turn or after the other one has gone.
GiveUpTraffic ==
    (a :> <<{Ready("BLACK")}, {Op("MOVE"), Op("RESIGN")}>>) @@
    (b :> <<{Ready("WHITE")}, {Op("MOVE"), Op("CHAT"), Op("LEAVE")}>>)

\* A game that nobody moves in and either player may give up.
ResignTraffic ==
    (a :> <<{Ready("BLACK")}, {Op("RESIGN")}>>) @@
    (b :> <<{Ready("WHITE")}, {Op("CHAT"), Op("LEAVE")}>>)

\* Clients that send a READY and nothing else: a waits in a room of its own.
IdleTraffic ==
    (a :> <<{[op |-> "READY", id |-> 0, color |-> "NONE"]}>>) @@
    (b :> <<{Ready("NONE")}>>) @@
    (c :> <<{Ready("BLACK")}>>)

\* The clients 6 and 7 of test.cpp.
ImplicitResignTraffic == (a :> <<{Ready("BLACK")}>>) @@ (b :> <<{Ready("WHITE")}>>)

\* A game that one move may end.
OneMoveTraffic == (a :> <<{Ready("BLACK")}, {Op("MOVE")}>>) @@ (b :> <<{Ready("WHITE")}>>)

\* A third client that comes while two others play, or give up.
ThirdTraffic == ResignTraffic @@ (c :> <<{Ready("NONE")}>>)

RoomSymmetry == Permutations(Room)
=============================================================================
