------------------------------ MODULE MCSession ------------------------------
(***************************************************************************)
(* Two clients of one room: both are programs, or b is free to chat and to  *)
(* resign when it likes.                                                    *)
(***************************************************************************)
EXTENDS SessionGame, TLC

CONSTANTS a, b

Ready(k) == [op |-> "READY", id |-> 1, color |-> k]
Op(o) == [op |-> o]

SessionTraffic ==
    (a :> <<{Ready("BLACK")}, {Op("MOVE")}, {Op("MOVE")}>>) @@
    (b :> <<{Ready("NONE"), Ready("BLACK")}, {Op("MOVE"), Op("CHAT"), Op("RESIGN")}, {Op("RESIGN")}>>)

\* What BoardsAgree asks of the traffic.
ASSUME SessionIsOneGame == Traffic = SessionTraffic => OneGame /\ Admin = {}

\* The two programs of the normal game of test.cpp ask for no colour.
NormalTraffic == [c \in {a, b} |-> <<{Ready("NONE")}, {Op("MOVE")}, {Op("MOVE")}>>]

\* Two programs that are not disturbed; one of two programs may be killed; a
\* program against a free client.
Immortal == [program : {{a, b}}, mortal : {{}}, length : 1 .. 3]
OneMortal == [program : {{a, b}}, mortal : {{b}}, length : {2}]
OneFree == [program : {{a}}, mortal : {{}}, length : 1 .. 2]
AllCasts == Immortal \cup OneMortal \cup OneFree
=============================================================================
