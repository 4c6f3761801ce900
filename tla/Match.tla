------------------------------- MODULE Match -------------------------------
(***************************************************************************)
(* What two players of one room are promised by the service, whatever its   *)
(* threads do: opposite colours that respect what they asked for, moves in  *)
(* turn, one end of the game told to both, and the victory when the other   *)
(* one gives up.  RoomRefinement shows that RoomService implements it.      *)
(***************************************************************************)
EXTENDS Protocol, Integers

CONSTANTS
    First, Second,  \* the two players
    Wish            \* Wish[p]: the colours that p can be given

Player == {First, Second}
Rival(p) == IF p = First THEN Second ELSE First

VARIABLES
    color,      \* the colour a player has been told with READY, or "NONE"
    moves,      \* how many moves of the other one it has been told
    ends,       \* how often it has been told that the game has ended
    won,        \* the winner it has been told when the other one gave up, or "NONE"
    gone        \* the players that have closed their connection

vars == <<color, moves, ends, won, gone>>

Init ==
    /\ color = [p \in Player |-> "NONE"]
    /\ moves = [p \in Player |-> 0]
    /\ ends = [p \in Player |-> 0]
    /\ won = [p \in Player |-> "NONE"]
    /\ gone = {}

Started == \A p \in Player : color[p] # "NONE"
Running == Started /\ \A p \in Player : ends[p] = 0

\* BLACK moves first.
Turn == IF (moves[First] + moves[Second]) % 2 = 0 THEN "BLACK" ELSE "WHITE"

Ready(p, k) ==
    /\ color[p] = "NONE"
    /\ k \in Wish[p]
    /\ color[Rival(p)] \in {"NONE", Reverse(k)}
    /\ won[p] \in {"NONE", k}
    /\ color' = [color EXCEPT ![p] = k]
    /\ UNCHANGED <<moves, ends, won, gone>>

\* The move of the one whose turn it is, told to p.
Move(p) ==
    /\ Running
    /\ color[p] = Reverse(Turn)
    /\ moves' = [moves EXCEPT ![p] = @ + 1]
    /\ UNCHANGED <<color, ends, won, gone>>

\* Both are told, or the one that is still there.
Finish ==
    /\ Running
    /\ \E S \in {Player} \cup {{p} : p \in {q \in Player : Rival(q) \in gone}} :
         ends' = [p \in Player |-> IF p \in S THEN 1 ELSE 0]
    /\ UNCHANGED <<color, moves, won, gone>>

\* p gives up; the other one may not have been told its colour yet.
Resign(p) ==
    /\ color[p] # "NONE"
    /\ won[Rival(p)] = "NONE"
    /\ won' = [won EXCEPT ![Rival(p)] = Reverse(color[p])]
    /\ UNCHANGED <<color, moves, ends, gone>>

Leave(p) ==
    /\ gone' = gone \cup {p}
    /\ UNCHANGED <<color, moves, ends, won>>

Next ==
    \/ \E p \in Player : Move(p) \/ Resign(p) \/ Leave(p) \/ \E k \in Color : Ready(p, k)
    \/ Finish

Spec == Init /\ [][Next]_vars

-----------------------------------------------------------------------------
(* What follows for the players.                                            *)

MatchTypeOK ==
    /\ color \in [Player -> Request]
    /\ moves \in [Player -> Nat]
    /\ ends \in [Player -> {0, 1}]
    /\ won \in [Player -> Request]
    /\ gone \subseteq Player

\* The players have opposite colours.
Opposite == Started => color[First] = Reverse(color[Second])

\* Who is told that the other one gave up is told to have won itself.
SurvivorWins == \A p \in Player : color[p] # "NONE" => won[p] \in {"NONE", color[p]}
Survives == \A p \in Player : won[p] # "NONE" => color[Rival(p)] = Reverse(won[p])

\* No move is told before both have their colour, and WHITE has been told as many
\* moves as BLACK or one more.
Alternate ==
    /\ ~Started => \A p \in Player : moves[p] = 0
    /\ \A p \in Player : color[p] = "WHITE" /\ Started => moves[p] - moves[Rival(p)] \in {0, 1}

\* A player that was told the end knows a game that both have started, and if the
\* other one was not told, it has left.
EndsTogether ==
    \A p \in Player : ends[p] = 1 => Started /\ (ends[Rival(p)] = 1 \/ Rival(p) \in gone)

MatchInv == MatchTypeOK /\ Opposite /\ SurvivorWins /\ Survives /\ Alternate /\ EndsTogether
=============================================================================
