-------------------------- MODULE SessionProperties --------------------------
(***************************************************************************)
(* What the programs of two clients can rely on when they play each other   *)
(* through the server: invariants of Session!SessionSpec and liveness under *)
(* Session!FairSession.                                                     *)
(***************************************************************************)
EXTENDS Session

SomePair == \E r \in Room : Paired(r)
Programs == cast.program = Client /\ SomePair

\* A program that plays another one never throws: every message it gets is one that
\* the place it is at expects, and the server does not close the connection before
\* the END.  When one of them is killed this still holds of a program that has its
\* colour.  (One that waits for it may get an END instead.)
NoSurprise ==
    Programs => \A c \in Client :
        agent[c].pc \in A!Failed => agent[c].color = "NONE" /\ cast.mortal # {}

\* The two local boards and the server's are one game: at most one program thinks,
\* and it has all the moves; the server has made no move that its maker has not, and
\* none that is two behind.
InStep ==
    Programs =>
        /\ \A c, d \in Client : agent[c].pc = "think" /\ agent[d].pc = "think" => c = d
        /\ \A c, d \in Client :
             agent[c].pc = "think" => agent[d].moves <= agent[c].moves
        /\ \A r \in Room : Paired(r) => \E c \in Players(r) : agent[c].moves >= Made(r)
        /\ \A c, d \in Client : agent[c].moves - agent[d].moves \in -1 .. 1

\* Each END that a program in a game receives is reported, and it receives at most
\* one, though the server may send two (a resignation while the game ends): the one
\* that comes during a move makes the listener wait for no other.
EndsRead(c) == Cardinality({i \in 1 .. agent[c].taken : out[c][i].op = "END"})
EndReportedOnce ==
    \A c \in Client :
        /\ agent[c].color # "NONE" => agent[c].reports = EndsRead(c)
        /\ agent[c].reports <= 1
        /\ agent[c].pc = "played" => agent[c].reports = 1

\* What it rests on: a program that is still playing has heard of the end only by the
\* message that sets remote_game_ended, and then it only has to return.
Playing == {"connect", "handshake", "think", "receive", "ended"}
ProgramType == [pc : Playing \cup A!Ended, color : Request, taken : Nat, moves : Nat,
                own : BOOLEAN, remote_game_ended : BOOLEAN, reports : 0 .. 1]
Reporting == {p \in ProgramType :
                /\ p.pc \in Playing => p.reports = IF p.remote_game_ended THEN 1 ELSE 0
                /\ p.pc \in Playing \ {"ended"} => ~p.remote_game_ended
                /\ p.pc = "played" => p.reports = 1}
ReportInv == agent \in [Client -> Reporting]

-----------------------------------------------------------------------------
\* Two programs that are matched and not killed both play to the last move and hear
\* of the end.
Finished(c) == agent[c].pc = "played" /\ agent[c].moves = cast.length
ProgramsFinish == Programs /\ cast.mortal = {} ~> \A c \in Client : Finished(c)

\* If one of them is killed once both have been sent READY, the other one is not left
\* waiting, whatever was lost or threw.  (Before that a Send of READY that throws ends
\* the handler, and nobody tells the other player.)
BothReady == \A c \in Client : \E k \in Color : ReadyMsg(k) \in Got(c)
SurvivorEnds == Programs /\ BothReady ~> \A c \in Client : agent[c].pc \in A!Ended

\* test.cpp:27-28, after play() was started for two clients of one room: both
\* threads are joined.
NormalGameEnds == <>(\A c \in Client : agent[c].pc \in A!Ended)
=============================================================================
