--------------------------- MODULE RoomRefinement ---------------------------
(***************************************************************************)
(* RoomService implements Match: whatever the handlers, the daemon and the  *)
(* two ways of cleaning do, two clients that are matched see a match.  The  *)
(* state of the match is what the two connections have carried so far.      *)
(* Stated for two clients of one room, each of which sends one READY.       *)
(***************************************************************************)
EXTENDS RoomProperties

One == CHOOSE p \in Client : TRUE
Other == CHOOSE p \in Client : p # One

\* A match is under way once a room has two different players.
Matching == \E r \in Room : Paired(r)

\* The colour k of the messages msg(k) that p has been sent in the match; if they do
\* not agree, a value that no match has.
Told(p, msg(_)) ==
    LET K == {k \in Color : \E i \in DOMAIN out[p] : out[p][i] = msg(k)} IN
    IF K = {} \/ ~Matching THEN "NONE" ELSE IF K = Color THEN "BOTH" ELSE CHOOSE k \in K : TRUE
HowOften(p, m) == LET n == Count(p, m) IN IF n = 0 \/ ~Matching THEN 0 ELSE n

M == INSTANCE Match WITH
    First <- One,
    Second <- Other,
    Wish <- [p \in {One, Other} |-> {k \in Color : Wished(p, k)}],
    color <- [p \in {One, Other} |-> Told(p, ReadyMsg)],
    moves <- [p \in {One, Other} |-> HowOften(p, MoveMsg)],
    ends <- [p \in {One, Other} |-> HowOften(p, GameEnd)],
    won <- [p \in {One, Other} |-> Told(p, ResignEnd)],
    gone <- {p \in {One, Other} : ~open[p]}

\* Every step of the service is a step of the match or changes nothing that the
\* players see: colours, moves, the end and the victory are told in an order that
\* a match allows, and to the players that it names.
IsMatch == M!Spec
=============================================================================
