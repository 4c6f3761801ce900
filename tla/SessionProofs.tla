---------------------------- MODULE SessionProofs ----------------------------
(***************************************************************************)
(* The session is the service with a particular traffic, so that what is    *)
(* proved of RoomService for any traffic holds in it; the end of a game is  *)
(* reported once by every program, whatever the server sends; the boards of *)
(* two programs and of the server are one game; and neither program meets a *)
(* message, or the end of the connection, where it does not expect it.      *)
(***************************************************************************)
EXTENDS SessionGame, RoomGameProofs

\* What a program does is seen by the service as nothing, or as a client that goes away.
LEMMA PlayIsService ==
    ASSUME ~Terminated, NEW c \in Client, Play(c) \/ Crash(c)
    PROVE  Next \/ UNCHANGED vars
<1>1. UNCHANGED <<rooms, room, game, pc, frame, remained, sent>>
  BY DEF Play, Crash, Run
<1>2. CASE open' = open /\ out' = out
  BY <1>1, <1>2 DEF vars, connVars
<1>3. CASE ~(open' = open /\ out' = out)
  <2>1. A!Close(c) \/ A!Crash(c)
    BY <1>3 DEF Play, Crash, Run, A!Play, A!Connect, A!Handshake, A!Think, A!SendOwnMove,
                A!CalculateMove, A!GameEnded
  <2>2. Disconnect(c)
    BY <2>1, <1>1, SessionConstants DEF A!Close, A!Crash, Disconnect
  <2> QED BY <2>2 DEF Next
<1> QED BY <1>2, <1>3

\* Every step of a session is a step of the service or leaves it alone: a program
\* acts on it only by the messages it posts and by closing its connection.
THEOREM SessionIsService == SessionSpec => Spec
<1>1. SessionInit => Init
  BY DEF SessionInit
<1>2. [SessionNext]_sessionVars => [Next]_vars
  <2> SUFFICES ASSUME [SessionNext]_sessionVars PROVE [Next]_vars
    OBVIOUS
  <2>1. CASE Serve(Next)
    BY <2>1 DEF Serve
  <2>2. CASE ~Terminated /\ \E c \in Client : Play(c) \/ Crash(c)
    BY <2>2, PlayIsService
  <2>3. CASE UNCHANGED sessionVars
    BY <2>3 DEF sessionVars
  <2> QED BY <2>1, <2>2, <2>3 DEF SessionNext
<1> QED BY <1>1, <1>2, PTL DEF SessionSpec, Spec

\* What RoomServiceProofs proves for any traffic holds while programs play.
THEOREM SessionKeepsRegistry == SessionSpec => [](UniqueIds /\ NoSelfDeadlock)
BY SessionIsService, RegistryUnique, NoRelock, PTL

-----------------------------------------------------------------------------
\* A move on the local board.
LEMMA AfterMoveType ==
    ASSUME NEW p \in Reporting, p.reports = 0, ~p.remote_game_ended, NEW next \in Playing
    PROVE  A!AfterMove(p, next) \in Reporting
<1>1. PICK x \in Playing : A!AfterMove(p, next) = [p EXCEPT !.moves = @ + 1, !.pc = x]
  BY DEF A!AfterMove, Playing
<1>2. PICK n \in Nat : n = p.moves + 1
  BY DEF Reporting, ProgramType
<1>3. [p EXCEPT !.moves = n, !.pc = x] \in Reporting
  BY DEF Reporting, ProgramType, Playing
<1>4. A!AfterMove(p, next) = [p EXCEPT !.moves = n, !.pc = x]
  BY <1>1, <1>2
<1> QED BY <1>3, <1>4

\* The report of the end: by the agent, and by the listener.
LEMMA ReportedType ==
    ASSUME NEW p \in Reporting, p.reports = 0, ~p.remote_game_ended
    PROVE  A!Reported(p) \in Reporting /\ [p EXCEPT !.reports = @ + 1, !.pc = "played"] \in Reporting
<1> DEFINE x == [p EXCEPT !.reports = 1, !.remote_game_ended = TRUE, !.pc = "ended"]
           y == [p EXCEPT !.reports = 1, !.pc = "played"]
<1>1. /\ "ended" \in Playing /\ "played" \in (Playing \cup A!Ended) \ Playing /\ 1 \in 0 .. 1
      /\ p \in ProgramType
  BY DEF Playing, A!Ended, A!Over, Reporting
<1>2. x \in ProgramType /\ y \in ProgramType
  BY <1>1 DEF ProgramType
<1>3. /\ x.reports = 1 /\ x.remote_game_ended /\ x.pc = "ended"
      /\ y.reports = 1 /\ y.pc = "played"
  BY <1>1 DEF ProgramType
<1>4. x \in Reporting /\ y \in Reporting
  BY <1>1, <1>2, <1>3 DEF Reporting
<1>5. p.reports + 1 = 1
  OBVIOUS
<1> QED BY <1>4, <1>5 DEF A!Reported

\* One step of one program.
LEMMA PlayReports ==
    ASSUME ReportInv, NEW c \in Client, A!Play(c) \/ A!Crash(c)
    PROVE  ReportInv'
<1> USE DEF Playing, A!Ended, A!Over, A!Failed
<1>1. ASSUME NEW p \in Reporting, A!Become(c, p) PROVE ReportInv'
  BY <1>1 DEF ReportInv, A!Become
<1>2. agent[c] \in Reporting
  BY DEF ReportInv
<1>3. ASSUME agent[c].pc \in Playing, ~agent[c].remote_game_ended
      PROVE  /\ A!Taken(c) \in Reporting /\ A!Taken(c).reports = 0
             /\ A!Taken(c).pc = agent[c].pc /\ ~A!Taken(c).remote_game_ended
  BY <1>2, <1>3 DEF Reporting, ProgramType, A!Taken
<1>13. agent[c].pc \in Playing \ {"ended"} => ~agent[c].remote_game_ended /\ agent[c].reports = 0
  BY <1>2 DEF Reporting
<1>4. ASSUME NEW m, NEW Expected, agent[c].pc \in Playing, ~agent[c].remote_game_ended,
             A!Throws(c, m, Expected)
      PROVE  ReportInv'
  <2>1. [agent[c] EXCEPT !.pc = "eof"] \in Reporting
    BY <1>2 DEF Reporting, ProgramType
  <2>2. [A!Taken(c) EXCEPT !.pc = "unexpected"] \in Reporting
    BY <1>3, <1>4 DEF Reporting, ProgramType
  <2> QED BY <1>1, <1>4, <2>1, <2>2 DEF A!Throws
<1>5. CASE A!Connect(c)
  <2>1. [agent[c] EXCEPT !.pc = "handshake"] \in Reporting
    BY <1>2, <1>5 DEF A!Connect, Reporting, ProgramType
  <2> QED BY <1>1, <1>5, <2>1 DEF A!Connect
<1>6. CASE A!Handshake(c)
  <2>1. PICK m \in A!Answer \cup {A!EOF} :
          \/ m.op = "READY" /\ A!Become(c, A!Seated(A!Taken(c), m.color))
          \/ m.op = "REJECT" /\ A!Become(c, [A!Taken(c) EXCEPT !.pc = "rejected"])
          \/ A!Throws(c, m, {"READY", "REJECT"})
    BY <1>6 DEF A!Handshake
  <2>2. agent[c].pc = "handshake"
    BY <1>6 DEF A!Handshake
  <2>3. ASSUME m.op = "READY" PROVE A!Seated(A!Taken(c), m.color) \in Reporting
    <3>1. m.color \in Request
      BY <2>3 DEF A!Answer, A!EOF, A!RejectMsg, A!MoveMsg, A!ChatMsg, A!GameEnd, A!Color,
                  Request, Color
    <3> QED BY <1>3, <1>13, <2>2, <3>1 DEF Reporting, ProgramType, A!Seated
  <2>4. [A!Taken(c) EXCEPT !.pc = "rejected"] \in Reporting
    BY <1>3, <1>13, <2>2 DEF Reporting, ProgramType
  <2> QED BY <1>1, <1>4, <1>13, <2>1, <2>2, <2>3, <2>4
<1>7. CASE A!Think(c)
  <2>1. [A!AfterMove(agent[c], "receive") EXCEPT !.own = TRUE] \in Reporting
    <3>1. A!AfterMove(agent[c], "receive") \in Reporting
      BY <1>2, <1>7, <1>13, AfterMoveType DEF A!Think
    <3> QED BY <3>1 DEF Reporting, ProgramType
  <2> QED BY <1>1, <1>7, <2>1 DEF A!Think
<1>8. CASE A!SendOwnMove(c)
  <2>1. [agent[c] EXCEPT !.own = FALSE] \in Reporting
    BY <1>2 DEF Reporting, ProgramType
  <2> QED BY <1>1, <1>8, <2>1 DEF A!SendOwnMove
<1>9. CASE A!CalculateMove(c)
  <2>1. PICK m \in A!Answer \cup {A!EOF} :
          \/ m.op = "MOVE" /\ A!Become(c, A!AfterMove(A!Taken(c), "think"))
          \/ m.op = "END" /\ A!Become(c, A!Reported(A!Taken(c)))
          \/ m.op = "CHAT" /\ A!Become(c, A!Taken(c))
          \/ A!Throws(c, m, {"MOVE", "END", "CHAT"})
    BY <1>9 DEF A!CalculateMove
  <2>2. agent[c].pc = "receive"
    BY <1>9 DEF A!CalculateMove
  <2>3. A!AfterMove(A!Taken(c), "think") \in Reporting
    BY <1>3, <1>13, <2>2, AfterMoveType
  <2>4. A!Reported(A!Taken(c)) \in Reporting
    BY <1>3, <1>13, <2>2, ReportedType
  <2> QED BY <1>1, <1>3, <1>4, <1>13, <2>1, <2>2, <2>3, <2>4
<1>10. CASE A!GameEnded(c)
  <2>1. agent[c].pc = "ended"
    BY <1>10 DEF A!GameEnded
  <2>2. CASE agent[c].remote_game_ended /\ A!Become(c, [agent[c] EXCEPT !.pc = "played"])
    <3>1. [agent[c] EXCEPT !.pc = "played"] \in Reporting
      BY <1>2, <2>1, <2>2 DEF Reporting, ProgramType
    <3> QED BY <1>1, <2>2, <3>1
  <2>3. ASSUME ~agent[c].remote_game_ended, NEW m,
               \/ m.op = "END" /\ A!Become(c, [A!Taken(c) EXCEPT !.reports = @ + 1, !.pc = "played"])
               \/ A!Throws(c, m, {"END"})
        PROVE  ReportInv'
    <3>1. [A!Taken(c) EXCEPT !.reports = @ + 1, !.pc = "played"] \in Reporting
      BY <1>3, <2>1, <2>3, ReportedType
    <3> QED BY <1>1, <1>4, <2>1, <2>3, <3>1
  <2> QED BY <1>10, <2>2, <2>3 DEF A!GameEnded
<1>11. CASE A!Close(c)
  BY <1>11 DEF A!Close, ReportInv
<1>12. CASE A!Crash(c)
  <2>1. [agent[c] EXCEPT !.pc = "crashed"] \in Reporting
    BY <1>2 DEF Reporting, ProgramType
  <2> QED BY <1>1, <1>12, <2>1 DEF A!Crash
<1> QED BY <1>5, <1>6, <1>7, <1>8, <1>9, <1>10, <1>11, <1>12 DEF A!Play

-----------------------------------------------------------------------------
(* Two programs: what a program has on its board.                            *)

LEMMA Bits == \A b \in BOOLEAN : Bit(b) \in {0, 1} /\ (Bit(b) = 1 <=> b)
BY DEF Bit

LEMMA Leads == Lead("BLACK") = 0 /\ Lead("WHITE") = -1 /\ \A k \in Color : Lead(k) \in {0, -1}
BY DEF Lead, Color

\* The types of what a program keeps.
LEMMA BoardType ==
    ASSUME TypeOK, SessionType, NEW p \in Client, Board(p)
    PROVE  /\ agent[p] \in ProgramType /\ posted[p] \in Nat
           /\ agent[p].taken \in Nat /\ agent[p].moves \in Nat /\ agent[p].own \in BOOLEAN
           /\ Own(p) \in Nat /\ Theirs(p) \in Nat /\ agent[p].moves = Own(p) + Theirs(p)
           /\ Len(out[p]) \in Nat /\ Heard(p) \in Nat
           /\ agent[p].color = "NONE" => Own(p) = 0 /\ Theirs(p) = 0
<1>1. agent[p] \in ProgramType
  BY DEF SessionType, ReportInv, Reporting
<1>2. agent[p].taken \in Nat /\ agent[p].moves \in Nat /\ agent[p].own \in BOOLEAN /\ posted[p] \in Nat
  BY <1>1 DEF ProgramType, SessionType
<1>3. Own(p) \in Nat
  BY <1>2, Bits DEF Own
<1>4. Len(out[p]) \in Nat
  BY DEF TypeOK
<1>5. IsFiniteSet({i \in 1 .. agent[p].taken : out[p][i] = MoveMsg})
  <2>1. \A n \in Nat : IsFiniteSet(1 .. n)
    BY FS_Interval
  <2> QED BY <1>2, <2>1, FS_Subset
<1>6. Heard(p) \in Nat
  BY <1>5, FS_CardinalityType DEF Heard
<1>7. Theirs(p) \in Nat
  BY <1>6 DEF Board
<1>8. agent[p].moves = Own(p) + Theirs(p)
  BY <1>2, <1>3 DEF Theirs
<1>9. agent[p].color = "NONE" => Own(p) = 0
  BY <1>2 DEF Own, Board, Bit
<1> QED BY <1>1, <1>2, <1>3, <1>4, <1>6, <1>7, <1>8, <1>9 DEF Board

\* Receiving one more message.
LEMMA HeardNext ==
    ASSUME TypeOK, SessionType, NEW p \in Client, Board(p), out' = out,
           agent'[p].taken = agent[p].taken + 1
    PROVE  /\ out[p][agent[p].taken + 1] = MoveMsg => Heard(p)' = Heard(p) + 1
           /\ out[p][agent[p].taken + 1] # MoveMsg => Heard(p)' = Heard(p)
<1> DEFINE n == agent[p].taken
           S == {i \in 1 .. n : out[p][i] = MoveMsg}
           T == {i \in 1 .. n + 1 : out[p][i] = MoveMsg}
<1>1. n \in Nat /\ Heard(p) = Cardinality(S) /\ Heard(p)' = Cardinality(T)
  BY BoardType DEF Heard, MoveMsg
<1>2. IsFiniteSet(S)
  <2>1. \A k \in Nat : IsFiniteSet(1 .. k)
    BY FS_Interval
  <2>2. IsFiniteSet(1 .. n) /\ S \subseteq 1 .. n
    BY <1>1, <2>1
  <2> QED BY <2>2, FS_Subset
<1>3. CASE out[p][n + 1] = MoveMsg
  <2>1. T = S \cup {n + 1} /\ n + 1 \notin S
    BY <1>1, <1>3
  <2> QED BY <1>1, <1>2, <1>3, <2>1, FS_AddElement
<1>4. CASE out[p][n + 1] # MoveMsg
  <2>1. T = S
    BY <1>1, <1>4
  <2> QED BY <1>1, <1>4, <2>1
<1> QED BY <1>3, <1>4

\* What has been received is not changed by what is sent later.
LEMMA HeardSame ==
    ASSUME TypeOK, SessionType, NEW p \in Client, Board(p), agent'[p].taken = agent[p].taken,
           \A i \in 1 .. Len(out[p]) : out'[p][i] = out[p][i]
    PROVE  Heard(p)' = Heard(p)
<1>1. agent[p].taken \in Nat /\ Len(out[p]) \in Nat /\ agent[p].taken <= Len(out[p])
  BY BoardType DEF Board
<1>2. \A i \in 1 .. agent[p].taken : out'[p][i] = out[p][i]
  BY <1>1
<1> QED BY <1>2 DEF Heard, MoveMsg

\* A step that changes no more than where the program is keeps its board.
LEMMA BoardSame ==
    ASSUME TypeOK, SessionType, NEW p \in Client, Board(p), cast' = cast, posted'[p] = posted[p],
           agent'[p].moves = agent[p].moves, agent'[p].own = agent[p].own,
           agent'[p].color = agent[p].color,
           Heard(p)' \in Nat, Heard(p) <= Heard(p)', agent'[p].taken <= Len(out'[p]),
           \/ agent'[p].pc \notin Playing
           \/ Heard(p)' = Heard(p) /\ agent'[p].pc = agent[p].pc /\ agent'[p].pc \in Playing
                /\ agent'[p].remote_game_ended = agent[p].remote_game_ended
                /\ (agent[p].pc \in {"connect", "handshake"} => agent'[p].taken = agent[p].taken),
           agent'[p].pc = "played" => agent[p].color # "NONE"
    PROVE  Board(p)'
<1>1. Own(p)' = Own(p) /\ Theirs(p)' = Theirs(p)
  BY DEF Own, Theirs, Bit
<1>2. /\ Own(p) \in Nat /\ Theirs(p) \in Nat /\ Heard(p) \in Nat
  BY BoardType
<1>3. Theirs(p)' \in 0 .. Heard(p)'
  BY <1>1, <1>2 DEF Board
<1>4. CASE agent'[p].pc \notin Playing
  BY <1>1, <1>3, <1>4 DEF Board, Playing
<1>5. CASE /\ Heard(p)' = Heard(p) /\ agent'[p].pc = agent[p].pc /\ agent'[p].pc \in Playing
           /\ agent'[p].remote_game_ended = agent[p].remote_game_ended
           /\ (agent[p].pc \in {"connect", "handshake"} => agent'[p].taken = agent[p].taken)
  BY <1>1, <1>3, <1>5 DEF Board, Playing, Bit
<1> QED BY <1>4, <1>5

\* What an agent and its program become.
LEMMA Became ==
    ASSUME SessionType, NEW c \in Client, NEW x, A!Become(c, x)
    PROVE  agent'[c] = x /\ \A p \in Client \ {c} : agent'[p] = agent[p]
BY DEF A!Become, SessionType, ReportInv

\* The message that is received is the next one that was sent, or the end of file.
LEMMA Delivered ==
    ASSUME TypeOK, SessionType, NEW c \in Client, Board(c), NEW m, A!Receive(c, m)
    PROVE  \/ /\ m = out[c][agent[c].taken + 1] /\ agent[c].taken + 1 \in 1 .. Len(out[c])
              /\ m \in Answer /\ m \in Got(c)
           \/ m = EOF /\ agent[c].taken = Len(out[c]) /\ pc[c] = "exit"
<1>1. agent[c].taken \in Nat /\ Len(out[c]) \in Nat /\ out[c] \in Seq(Answer)
  BY BoardType DEF TypeOK
<1> QED BY <1>1 DEF A!Receive, A!EOF, EOF, Got

LEMMA ThrowsBoard ==
    ASSUME TypeOK, SessionType, NEW c \in Client, Board(c), NEW m, NEW Expected,
           A!Receive(c, m), A!Throws(c, m, Expected), UNCHANGED <<posted, out, cast>>
    PROVE  Board(c)'
<1>1. agent[c].taken \in Nat /\ Len(out[c]) \in Nat /\ agent[c].taken <= Len(out[c]) /\ Heard(c) \in Nat
      /\ agent[c] \in ProgramType
  BY BoardType DEF Board
<1>2. CASE A!Become(c, [agent[c] EXCEPT !.pc = "eof"])
  <2>1. agent'[c] = [agent[c] EXCEPT !.pc = "eof"]
    BY <1>2, Became
  <2>2. Heard(c)' = Heard(c)
    BY <1>1, <2>1, HeardSame DEF ProgramType
  <2> QED BY <1>1, <2>1, <2>2, BoardSame DEF ProgramType, Playing
<1>3. CASE m # EOF /\ A!Become(c, [A!Taken(c) EXCEPT !.pc = "unexpected"])
  <2>1. agent'[c] = [A!Taken(c) EXCEPT !.pc = "unexpected"]
    BY <1>3, Became
  <2>2. /\ agent'[c].taken = agent[c].taken + 1 /\ agent'[c].moves = agent[c].moves
        /\ agent'[c].own = agent[c].own /\ agent'[c].color = agent[c].color
        /\ agent'[c].pc = "unexpected"
    BY <1>1, <2>1 DEF ProgramType, A!Taken
  <2>3. Heard(c)' \in {Heard(c), Heard(c) + 1}
    BY <2>2, HeardNext
  <2>4. agent'[c].taken <= Len(out'[c])
    BY <1>1, <1>3, <2>2, Delivered
  <2> QED BY <1>1, <2>2, <2>3, <2>4, BoardSame DEF Playing
<1> QED BY <1>2, <1>3 DEF A!Throws, A!EOF, EOF

\* The program asks for a seat, and is given a colour.
LEMMA ConnectBoard ==
    ASSUME TypeOK, SessionType, NEW c \in Client, Board(c), A!Connect(c), cast' = cast
    PROVE  Board(c)'
<1>1. /\ agent'[c] = [agent[c] EXCEPT !.pc = "handshake"] /\ agent[c].pc = "connect"
      /\ agent[c] \in ProgramType /\ posted[c] = 0
  BY Became, BoardType DEF A!Connect, Board, Bit
<1>2. posted'[c] = 1 /\ out' = out
  BY <1>1 DEF A!Connect, A!Post, SessionType
<1>3. /\ agent'[c].pc = "handshake" /\ agent'[c].taken = 0 /\ agent'[c].moves = 0
      /\ agent'[c].own = FALSE /\ agent'[c].color = "NONE"
  BY <1>1 DEF Board, ProgramType
<1>4. Own(c)' = 0 /\ Theirs(c)' = 0
  <2>1. Own(c)' = 0
    BY <1>2, <1>3 DEF Own, Bit
  <2> QED BY <1>3, <2>1 DEF Theirs
<1>5. Heard(c)' = 0 /\ 0 <= Len(out'[c]) /\ cast.length \in Nat
  <2>1. {i \in 1 .. 0 : out[c][i] = MoveMsg} = {}
    OBVIOUS
  <2> QED BY <1>2, <1>3, <2>1, FS_EmptySet, BoardType, SessionConstants DEF Heard, MoveMsg, SessionType
<1> QED BY <1>2, <1>3, <1>4, <1>5 DEF Board, Bit

LEMMA HandshakeBoard ==
    ASSUME TypeOK, SessionType, NEW c \in Client, Board(c), A!Handshake(c), cast' = cast
    PROVE  Board(c)'
<1>1. PICK m \in A!Answer \cup {A!EOF} :
        /\ A!Receive(c, m)
        /\ \/ m.op = "READY" /\ A!Become(c, A!Seated(A!Taken(c), m.color))
           \/ m.op = "REJECT" /\ A!Become(c, [A!Taken(c) EXCEPT !.pc = "rejected"])
           \/ A!Throws(c, m, {"READY", "REJECT"})
  BY DEF A!Handshake
<1>2. /\ agent[c] \in ProgramType /\ agent[c].pc = "handshake" /\ UNCHANGED <<posted, out>>
      /\ agent[c].taken = 0 /\ agent[c].moves = 0 /\ ~agent[c].own /\ posted[c] = 1
      /\ cast.length \in Nat \ {0} /\ Heard(c) \in Nat /\ Own(c) = 0 /\ Theirs(c) = 0 /\ Heard(c) = 0
  BY BoardType, SessionConstants DEF A!Handshake, Board, Bit, SessionType, Playing
<1>3. ASSUME m # EOF, agent'[c].taken = agent[c].taken + 1
      PROVE  /\ agent'[c].taken <= Len(out'[c])
             /\ Heard(c)' \in {0, 1} /\ (m # MoveMsg => Heard(c)' = 0)
  <2>1. agent[c].taken + 1 \in 1 .. Len(out[c]) /\ m = out[c][agent[c].taken + 1]
    BY <1>1, <1>3, Delivered
  <2> QED BY <1>2, <1>3, <2>1, HeardNext
<1>4. ASSUME m.op = "READY", A!Become(c, A!Seated(A!Taken(c), m.color)) PROVE Board(c)'
  <2>1. m # EOF /\ m # MoveMsg /\ m.color \in Color
    BY <1>4 DEF EOF, MoveMsg, A!Answer, A!EOF, A!RejectMsg, A!MoveMsg, A!ChatMsg, A!GameEnd, A!Color, Color
  <2>2. agent'[c] = A!Seated(A!Taken(c), m.color)
    BY <1>4, Became
  <2>3. /\ agent'[c].taken = agent[c].taken + 1 /\ agent'[c].moves = 0 /\ agent'[c].own = FALSE
        /\ agent'[c].color = m.color
        /\ agent'[c].pc = IF m.color = "BLACK" THEN "think" ELSE "receive"
    BY <1>2, <2>2 DEF ProgramType, A!Taken, A!Seated
  <2>4. Own(c)' = 0 /\ Theirs(c)' = 0 /\ Heard(c)' = 0 /\ posted'[c] = 1
    BY <1>2, <1>3, <2>1, <2>3 DEF Own, Theirs, Bit
  <2>5. m.color = "BLACK" \/ m.color = "WHITE"
    BY <2>1 DEF Color
  <2> QED BY <1>2, <1>3, <2>1, <2>3, <2>4, <2>5, Leads DEF Board
<1>5. ASSUME m.op = "REJECT", A!Become(c, [A!Taken(c) EXCEPT !.pc = "rejected"]) PROVE Board(c)'
  <2>1. agent'[c] = [A!Taken(c) EXCEPT !.pc = "rejected"]
    BY <1>5, Became
  <2>2. /\ agent'[c].taken = agent[c].taken + 1 /\ agent'[c].moves = agent[c].moves
        /\ agent'[c].own = agent[c].own /\ agent'[c].color = agent[c].color
        /\ agent'[c].pc = "rejected"
    BY <1>2, <2>1 DEF ProgramType, A!Taken
  <2>3. m # EOF
    BY <1>5 DEF EOF
  <2>4. Heard(c)' \in Nat /\ Heard(c) <= Heard(c)' /\ agent'[c].taken <= Len(out'[c])
    BY <1>2, <1>3, <2>2, <2>3
  <2> QED BY <1>2, <2>2, <2>4, BoardSame DEF Playing
<1> QED BY <1>1, <1>2, <1>4, <1>5, ThrowsBoard

\* The program makes a move, and sends it.
LEMMA ThinkBoard ==
    ASSUME TypeOK, SessionType, NEW c \in Client, Board(c), A!Think(c), cast' = cast
    PROVE  Board(c)'
<1>1. /\ agent[c] \in ProgramType /\ agent[c].pc = "think" /\ UNCHANGED <<posted, out>>
      /\ ~agent[c].own /\ agent[c].moves \in Nat /\ posted[c] \in Nat /\ posted[c] > 0
      /\ Own(c) - Theirs(c) = Lead(agent[c].color) /\ agent[c].color # "NONE"
      /\ agent[c].moves < cast.length /\ cast.length \in Nat
      /\ Theirs(c) = Heard(c) /\ Heard(c) \in Nat /\ Own(c) \in Nat /\ agent[c].moves = Own(c) + Theirs(c)
  BY BoardType, SessionConstants DEF A!Think, Board, SessionType, Playing
<1>2. agent'[c] = [A!AfterMove(agent[c], "receive") EXCEPT !.own = TRUE]
  BY Became DEF A!Think
<1>3. /\ agent'[c].taken = agent[c].taken /\ agent'[c].moves = agent[c].moves + 1
      /\ agent'[c].own = TRUE /\ agent'[c].color = agent[c].color
      /\ agent'[c].pc = IF agent[c].moves + 1 = cast.length THEN "ended" ELSE "receive"
  BY <1>1, <1>2 DEF ProgramType, A!AfterMove
<1>4. Own(c)' = Own(c) + 1
  BY <1>1, <1>3 DEF Own, Bit
<1>5. Theirs(c)' = Theirs(c)
  BY <1>1, <1>3, <1>4 DEF Theirs
<1>6. Heard(c)' = Heard(c)
  BY <1>1, <1>3, HeardSame
<1>7. Lead(agent[c].color) \in Int
  BY DEF Lead
<1> QED BY <1>1, <1>3, <1>4, <1>5, <1>6, <1>7 DEF Board

LEMMA SendOwnMoveBoard ==
    ASSUME TypeOK, SessionType, NEW c \in Client, Board(c), A!SendOwnMove(c), cast' = cast
    PROVE  Board(c)'
<1>1. /\ agent[c] \in ProgramType /\ agent[c].pc \in {"receive", "ended"} /\ out' = out
      /\ agent[c].own /\ agent[c].moves \in Nat /\ posted[c] \in Nat /\ posted[c] > 0
      /\ Theirs(c) = Heard(c) /\ Heard(c) \in Nat /\ Own(c) \in Nat /\ agent[c].moves = Own(c) + Theirs(c)
      /\ agent[c].color # "NONE"
  BY BoardType DEF A!SendOwnMove, A!Sends, Board, Playing
<1>2. /\ agent'[c] = [agent[c] EXCEPT !.own = FALSE] /\ posted'[c] = posted[c] + 1
  BY Became DEF A!SendOwnMove, A!Post, SessionType
<1>3. /\ agent'[c].taken = agent[c].taken /\ agent'[c].moves = agent[c].moves
      /\ agent'[c].own = FALSE /\ agent'[c].color = agent[c].color /\ agent'[c].pc = agent[c].pc
      /\ agent'[c].remote_game_ended = agent[c].remote_game_ended
  BY <1>1, <1>2 DEF ProgramType
<1>4. Own(c)' = Own(c)
  BY <1>1, <1>2, <1>3 DEF Own, Bit
<1>5. Theirs(c)' = Theirs(c)
  BY <1>1, <1>3, <1>4 DEF Theirs
<1>6. Heard(c)' = Heard(c)
  BY <1>1, <1>3, HeardSame
<1> QED BY <1>1, <1>2, <1>3, <1>4, <1>5, <1>6 DEF Board

\* The program takes a message from the server.
LEMMA CalculateMoveBoard ==
    ASSUME TypeOK, SessionType, NEW c \in Client, Board(c), A!CalculateMove(c), cast' = cast
    PROVE  Board(c)'
<1>1. PICK m \in A!Answer \cup {A!EOF} :
        /\ A!Receive(c, m)
        /\ \/ m.op = "MOVE" /\ A!Become(c, A!AfterMove(A!Taken(c), "think"))
           \/ m.op = "END" /\ A!Become(c, A!Reported(A!Taken(c)))
           \/ m.op = "CHAT" /\ A!Become(c, A!Taken(c))
           \/ A!Throws(c, m, {"MOVE", "END", "CHAT"})
  BY DEF A!CalculateMove
<1>2. /\ agent[c] \in ProgramType /\ agent[c].pc = "receive" /\ UNCHANGED <<posted, out>>
      /\ ~agent[c].own /\ agent[c].moves \in Nat /\ posted[c] \in Nat /\ posted[c] > 0
      /\ Own(c) - Theirs(c) = Lead(agent[c].color) + 1 /\ agent[c].color # "NONE"
      /\ agent[c].moves < cast.length /\ cast.length \in Nat
      /\ Theirs(c) = Heard(c) /\ Heard(c) \in Nat /\ Own(c) \in Nat /\ agent[c].moves = Own(c) + Theirs(c)
  BY BoardType, SessionConstants DEF A!CalculateMove, Board, SessionType, Playing
<1>3. ASSUME m # EOF, agent'[c].taken = agent[c].taken + 1
      PROVE  /\ agent'[c].taken <= Len(out'[c])
             /\ Heard(c)' = Heard(c) + Bit(m = MoveMsg)
  <2>1. agent[c].taken + 1 \in 1 .. Len(out[c]) /\ m = out[c][agent[c].taken + 1]
    BY <1>1, <1>3, Delivered
  <2> QED BY <1>2, <1>3, <2>1, HeardNext DEF Bit
<1>4. ASSUME m.op = "MOVE", A!Become(c, A!AfterMove(A!Taken(c), "think")) PROVE Board(c)'
  <2>1. m # EOF /\ m = MoveMsg
    BY <1>4 DEF EOF, MoveMsg, A!Answer, A!EOF, A!RejectMsg, A!MoveMsg, A!ChatMsg, A!GameEnd
  <2>2. agent'[c] = A!AfterMove(A!Taken(c), "think")
    BY <1>4, Became
  <2>3. /\ agent'[c].taken = agent[c].taken + 1 /\ agent'[c].moves = agent[c].moves + 1
        /\ agent'[c].own = agent[c].own /\ agent'[c].color = agent[c].color
        /\ agent'[c].pc = IF agent[c].moves + 1 = cast.length THEN "ended" ELSE "think"
    BY <1>2, <2>2 DEF ProgramType, A!Taken, A!AfterMove
  <2>4. Own(c)' = Own(c)
    BY <1>2, <2>3 DEF Own, Bit
  <2>5. Theirs(c)' = Theirs(c) + 1 /\ Heard(c)' = Heard(c) + 1
    BY <1>2, <1>3, <2>1, <2>3, <2>4 DEF Theirs, Bit
  <2>6. Lead(agent[c].color) \in Int
    BY DEF Lead
  <2> QED BY <1>2, <1>3, <2>1, <2>3, <2>4, <2>5, <2>6 DEF Board
<1>5. ASSUME m.op \in {"END", "CHAT"}, NEW x \in {A!Reported(A!Taken(c)), A!Taken(c)}, A!Become(c, x)
      PROVE  Board(c)'
  <2>1. m # EOF /\ m # MoveMsg
    BY <1>5 DEF EOF, MoveMsg
  <2>2. agent'[c] = x
    BY <1>5, Became
  <2>3. /\ agent'[c].taken = agent[c].taken + 1 /\ agent'[c].moves = agent[c].moves
        /\ agent'[c].own = agent[c].own /\ agent'[c].color = agent[c].color
        /\ \/ agent'[c].pc = "ended" /\ agent'[c].remote_game_ended
           \/ agent'[c].pc = "receive"
    BY <1>2, <1>5, <2>2 DEF ProgramType, A!Taken, A!Reported
  <2>4. Heard(c)' = Heard(c) /\ agent'[c].taken <= Len(out'[c])
    BY <1>2, <1>3, <2>1, <2>3 DEF Bit
  <2>5. Own(c)' = Own(c) /\ Theirs(c)' = Theirs(c)
    BY <1>2, <2>3 DEF Own, Theirs, Bit
  <2>6. Lead(agent[c].color) \in Int
    BY DEF Lead
  <2> QED BY <1>2, <2>3, <2>4, <2>5, <2>6 DEF Board
<1> QED BY <1>1, <1>2, <1>4, <1>5, ThrowsBoard

LEMMA GameEndedBoard ==
    ASSUME TypeOK, SessionType, NEW c \in Client, Board(c), A!GameEnded(c), cast' = cast
    PROVE  Board(c)'
<1>1. /\ agent[c] \in ProgramType /\ agent[c].pc = "ended" /\ UNCHANGED <<posted, out>>
      /\ agent[c].color # "NONE" /\ Heard(c) \in Nat /\ agent[c].taken \in Nat
      /\ agent[c].taken <= Len(out[c])
  BY BoardType DEF A!GameEnded, Board
<1>2. CASE A!Become(c, [agent[c] EXCEPT !.pc = "played"])
  <2>1. agent'[c] = [agent[c] EXCEPT !.pc = "played"]
    BY <1>2, Became
  <2>2. /\ agent'[c].taken = agent[c].taken /\ agent'[c].moves = agent[c].moves
        /\ agent'[c].own = agent[c].own /\ agent'[c].color = agent[c].color
        /\ agent'[c].pc = "played"
    BY <1>1, <2>1 DEF ProgramType
  <2>3. Heard(c)' = Heard(c)
    BY <1>1, <2>2, HeardSame
  <2> QED BY <1>1, <2>2, <2>3, BoardSame DEF Playing
<1>3. ASSUME NEW m, A!Receive(c, m), m.op = "END",
             A!Become(c, [A!Taken(c) EXCEPT !.reports = @ + 1, !.pc = "played"])
      PROVE  Board(c)'
  <2>1. m # EOF /\ m # MoveMsg
    BY <1>3 DEF EOF, MoveMsg
  <2>2. agent'[c] = [A!Taken(c) EXCEPT !.reports = @ + 1, !.pc = "played"]
    BY <1>3, Became
  <2>3. /\ agent'[c].taken = agent[c].taken + 1 /\ agent'[c].moves = agent[c].moves
        /\ agent'[c].own = agent[c].own /\ agent'[c].color = agent[c].color
        /\ agent'[c].pc = "played"
    BY <1>1, <2>2 DEF ProgramType, A!Taken
  <2>4. Heard(c)' = Heard(c) /\ agent'[c].taken <= Len(out'[c])
    <3>1. agent[c].taken + 1 \in 1 .. Len(out[c]) /\ m = out[c][agent[c].taken + 1]
      BY <1>3, <2>1, Delivered
    <3> QED BY <1>1, <2>1, <2>3, <3>1, HeardNext
  <2> QED BY <1>1, <2>3, <2>4, BoardSame DEF Playing
<1>4. ASSUME NEW m, A!Receive(c, m), A!Throws(c, m, {"END"}) PROVE Board(c)'
  BY <1>1, <1>4, ThrowsBoard
<1> QED BY <1>2, <1>3, <1>4 DEF A!GameEnded

\* The program is killed, or closes its connection.
LEMMA CrashBoard ==
    ASSUME TypeOK, SessionType, NEW c \in Client, Board(c), A!Crash(c) \/ A!Close(c), cast' = cast
    PROVE  Board(c)'
<1>1. UNCHANGED <<posted, out>> /\ agent[c] \in ProgramType /\ Heard(c) \in Nat
  BY BoardType DEF A!Crash, A!Close
<1>2. CASE A!Crash(c)
  <2>1. agent'[c] = [agent[c] EXCEPT !.pc = "crashed"]
    BY <1>2, Became DEF A!Crash
  <2>2. /\ agent'[c].taken = agent[c].taken /\ agent'[c].moves = agent[c].moves
        /\ agent'[c].own = agent[c].own /\ agent'[c].color = agent[c].color
        /\ agent'[c].pc = "crashed"
    BY <1>1, <2>1 DEF ProgramType
  <2>3. Heard(c)' = Heard(c) /\ agent'[c].taken <= Len(out'[c])
    BY <1>1, <2>2, HeardSame DEF Board
  <2> QED BY <1>1, <2>2, <2>3, BoardSame DEF Playing
<1>3. CASE A!Close(c)
  BY <1>1, <1>3 DEF A!Close, Board, Own, Theirs, Heard, Bit, MoveMsg
<1> QED BY <1>2, <1>3

\* What the service does to what was sent: it sends one message more, and only a daemon
\* sends moves.
Says(m) == \E to : Send(to, m)
LEMMA Sends ==
    ASSUME [Next]_vars
    PROVE  \/ UNCHANGED out
           \/ \E m : Says(m) /\ m # MoveMsg
           \/ Says(MoveMsg) /\ \E r \in Room : MakeMove(r)
<1> DEFINE Speaks == UNCHANGED out \/ \E m : Says(m) /\ m # MoveMsg
<1>1. \A to, m : Send(to, m) /\ m # MoveMsg => Speaks
  BY DEF Says
<1>2. /\ \A k : ReadyMsg(k) # MoveMsg /\ ResignEnd(k) # MoveMsg
      /\ RejectMsg # MoveMsg /\ ChatMsg # MoveMsg /\ GameEnd # MoveMsg
  <2>1. /\ \A k : ReadyMsg(k).op = "READY" /\ ResignEnd(k).op = "END"
        /\ RejectMsg.op = "REJECT" /\ ChatMsg.op = "CHAT" /\ GameEnd.op = "END" /\ MoveMsg.op = "MOVE"
    BY DEF ReadyMsg, ResignEnd, RejectMsg, ChatMsg, GameEnd, MoveMsg
  <2> QED BY <2>1
<1>3. \A c : NotSent(c) => Speaks
  BY DEF NotSent
<1> HIDE DEF Speaks
<1>4. UNCHANGED out => Speaks
  BY DEF Speaks
<1>5. ASSUME NEW c \in Client, SecondPlayer(c) \/ ColorConflict(c) PROVE Speaks
  BY <1>1, <1>2, <1>3, <1>4, <1>5 DEF SecondPlayer, ColorConflict, Reject
<1>6. ASSUME NEW c \in Client, SendReady(c) \/ Resign(c) PROVE Speaks
  BY <1>1, <1>2, <1>3, <1>6 DEF SendReady, Resign
<1>7. ASSUME NEW c \in Client, Chat(c) PROVE Speaks
  BY <1>1, <1>2, <1>3, <1>7 DEF Chat
<1>8. ASSUME NEW c \in Client, Disconnect(c) PROVE Speaks
  BY <1>4, <1>8 DEF Disconnect
<1>9. ASSUME NEW r \in Room, OnGameEnded(r) PROVE Speaks
  <2>1. PICK l \in game[r].pending :
          \/ UNCHANGED out
          \/ Send({l.sock, l.peer}, GameEnd)
          \/ NotSent(l.sock)
          \/ Send({l.sock}, GameEnd)
    BY <1>9 DEF OnGameEnded
  <2> QED BY <1>1, <1>2, <1>3, <1>4, <2>1
<1>10. ASSUME NEW r \in Room, MakeMove(r) PROVE Speaks \/ Says(MoveMsg)
  BY <1>3, <1>4, <1>10 DEF MakeMove, Says
<1> QED BY <1>4, <1>5, <1>6, <1>7, <1>8, <1>9, <1>10, Telling DEF Speaks

LEMMA OutGrows ==
    ASSUME TypeOK, [Next]_vars, NEW p \in Client
    PROVE  /\ Len(out[p]) <= Len(out'[p])
           /\ \A i \in 1 .. Len(out[p]) : out'[p][i] = out[p][i]
           /\ Got(p) \subseteq Got(p)'
<1>1. out[p] \in Seq(Answer)
  BY DEF TypeOK
<1>2. CASE out'[p] = out[p]
  BY <1>1, <1>2 DEF Got
<1>3. ASSUME NEW m, out'[p] = Append(out[p], m)
      PROVE  /\ Len(out[p]) <= Len(out'[p])
             /\ \A i \in 1 .. Len(out[p]) : out'[p][i] = out[p][i]
             /\ DOMAIN out[p] = 1 .. Len(out[p]) /\ DOMAIN out[p] \subseteq DOMAIN out'[p]
  BY <1>1, <1>3
<1>4. ASSUME NEW m, out'[p] = Append(out[p], m) PROVE Got(p) \subseteq Got(p)'
  BY <1>3, <1>4 DEF Got
<1>5. out'[p] = out[p] \/ \E m : out'[p] = Append(out[p], m)
  BY Sends DEF Says, Send
<1> QED BY <1>2, <1>3, <1>4, <1>5

\* A program that does nothing keeps its board, whatever the server sends.
LEMMA BoardKept ==
    ASSUME TypeOK, SessionType, NEW p \in Client, Board(p), cast' = cast,
           agent'[p] = agent[p], posted'[p] = posted[p],
           Len(out[p]) <= Len(out'[p]), \A i \in 1 .. Len(out[p]) : out'[p][i] = out[p][i],
           Len(out'[p]) \in Nat
    PROVE  Board(p)'
<1>1. Heard(p)' = Heard(p)
  BY HeardSame
<1>2. Own(p)' = Own(p) /\ Theirs(p)' = Theirs(p)
  BY DEF Own, Theirs, Bit
<1>3. agent'[p].taken <= Len(out'[p])
  <2>1. agent[p].taken \in Nat /\ Len(out[p]) \in Nat /\ agent[p].taken <= Len(out[p])
    BY BoardType DEF Board
  <2> QED BY <2>1
<1> QED BY <1>1, <1>2, <1>3 DEF Board, Bit

LEMMA PlayBoard ==
    ASSUME TypeOK, SessionType, NEW c \in Client, Board(c), A!Play(c) \/ A!Crash(c), cast' = cast
    PROVE  Board(c)'
BY ConnectBoard, HandshakeBoard, ThinkBoard, SendOwnMoveBoard, CalculateMoveBoard, GameEndedBoard,
   CrashBoard DEF A!Play

\* What a step of a program leaves alone, and the colour it may take.
LEMMA PlayEffect ==
    ASSUME SessionType, NEW c \in Client, A!Play(c) \/ A!Crash(c)
    PROVE  /\ \A p \in Client \ {c} : agent'[p] = agent[p] /\ posted'[p] = posted[p]
           /\ posted' \in [Client -> Nat] /\ posted[c] <= posted'[c]
           /\ out' = out
           /\ agent'[c].color = agent[c].color \/ A!Handshake(c)
<1>1. out' = out
  BY DEF A!Play, A!Crash, A!Connect, A!Handshake, A!Think, A!SendOwnMove, A!CalculateMove,
         A!GameEnded, A!Close
<1>2. /\ \A p \in Client \ {c} : posted'[p] = posted[p]
      /\ posted' \in [Client -> Nat] /\ posted[c] <= posted'[c]
  <2>1. UNCHANGED posted \/ A!Post(c)
    BY DEF A!Play, A!Crash, A!Connect, A!Handshake, A!Think, A!SendOwnMove, A!CalculateMove,
           A!GameEnded, A!Close
  <2> QED BY <2>1 DEF A!Post, SessionType
<1>4. UNCHANGED agent \/ \E x : A!Become(c, x)
  BY DEF A!Play, A!Crash, A!Connect, A!Handshake, A!Think, A!SendOwnMove, A!CalculateMove,
         A!GameEnded, A!Close, A!Throws
<1>5. \A p \in Client \ {c} : agent'[p] = agent[p]
  BY <1>4, Became
<1>6. agent[c] \in ProgramType
  BY DEF SessionType, ReportInv, Reporting
<1>7. ASSUME NEW x, A!Become(c, x), x.color = agent[c].color PROVE agent'[c].color = agent[c].color
  BY <1>7, Became
<1>8. ASSUME ~A!Handshake(c) PROVE agent'[c].color = agent[c].color
  <2>1. \A y : /\ [agent[c] EXCEPT !.pc = y].color = agent[c].color
               /\ [agent[c] EXCEPT !.own = y].color = agent[c].color
               /\ [A!Taken(c) EXCEPT !.pc = y].color = agent[c].color
    BY <1>6 DEF ProgramType, A!Taken
  <2>2. CASE A!Connect(c) \/ A!SendOwnMove(c) \/ A!Crash(c) \/ A!Close(c)
    BY <1>7, <2>1, <2>2 DEF A!Connect, A!SendOwnMove, A!Crash, A!Close
  <2>3. CASE A!Think(c)
    <3>1. [A!AfterMove(agent[c], "receive") EXCEPT !.own = TRUE].color = agent[c].color
      BY <1>6 DEF ProgramType, A!AfterMove
    <3> QED BY <1>7, <2>3, <3>1 DEF A!Think
  <2>4. CASE A!CalculateMove(c)
    <3>1. /\ A!AfterMove(A!Taken(c), "think").color = agent[c].color
          /\ A!Reported(A!Taken(c)).color = agent[c].color
          /\ A!Taken(c).color = agent[c].color
      BY <1>6 DEF ProgramType, A!AfterMove, A!Reported, A!Taken
    <3> QED BY <1>7, <2>1, <2>4, <3>1 DEF A!CalculateMove, A!Throws
  <2>5. CASE A!GameEnded(c)
    <3>1. /\ [A!Taken(c) EXCEPT !.reports = @ + 1, !.pc = "played"].color = agent[c].color
          /\ [agent[c] EXCEPT !.pc = "played"].color = agent[c].color
      BY <1>6 DEF ProgramType, A!Taken
    <3> QED BY <1>7, <2>1, <2>5, <3>1 DEF A!GameEnded, A!Throws
  <2> QED BY <1>8, <2>2, <2>3, <2>4, <2>5 DEF A!Play
<1> QED BY <1>1, <1>2, <1>5, <1>8

\* Of the session's steps, the programs take those in which their board changes.
LEMMA SessionStep ==
    ASSUME [SessionNext]_sessionVars
    PROVE  /\ [Next]_vars /\ cast' = cast
           /\ \/ Serve(Next) /\ UNCHANGED <<agent, posted>>
              \/ UNCHANGED sessionVars
              \/ /\ \E c \in cast.program \cap Client : A!Play(c) \/ (A!Crash(c) /\ c \in cast.mortal)
                 /\ UNCHANGED <<rooms, room, game, pc, frame, remained, sent>>
<1>1. CASE Serve(Next)
  BY <1>1 DEF Serve, agentVars
<1>2. CASE ~Terminated /\ \E c \in Client : Play(c) \/ Crash(c)
  <2>1. cast' = cast
    BY <1>2 DEF Play, Crash, Run
  <2>2. [Next]_vars
    BY <1>2, PlayIsService
  <2> QED BY <1>2, <2>1, <2>2 DEF Play, Crash, Run
<1>3. CASE UNCHANGED sessionVars
  BY <1>3 DEF sessionVars
<1> QED BY <1>1, <1>2, <1>3 DEF SessionNext

LEMMA SessionTypeKept ==
    ASSUME SessionType, [SessionNext]_sessionVars PROVE SessionType'
<1>1. ReportInv'
  <2>1. CASE UNCHANGED agent
    BY <2>1 DEF SessionType, ReportInv
  <2>2. CASE \E c \in Client : A!Play(c) \/ A!Crash(c)
    BY <2>2, PlayReports DEF SessionType
  <2> QED BY <2>1, <2>2, SessionStep DEF sessionVars, agentVars
<1>2. posted' \in [Client -> Nat]
  BY SessionStep, PlayEffect DEF SessionType, sessionVars, agentVars
<1>3. cast' = cast
  BY SessionStep
<1> QED BY <1>1, <1>2, <1>3 DEF SessionType

LEMMA BoardsKept ==
    ASSUME TypeOK, TypeOK', Boards, [SessionNext]_sessionVars PROVE Boards'
<1>1. SessionType /\ SessionType' /\ cast' = cast /\ cast.program \subseteq Client
  BY SessionTypeKept, SessionStep, SessionConstants DEF Boards, SessionType
<1>2. \A p \in Client : /\ Len(out[p]) <= Len(out'[p]) /\ Len(out'[p]) \in Nat
                        /\ \A i \in 1 .. Len(out[p]) : out'[p][i] = out[p][i]
                        /\ Got(p) \subseteq Got(p)'
  <2>1. \A p \in Client : Len(out'[p]) \in Nat
    BY DEF TypeOK
  <2> QED BY <2>1, OutGrows, SessionStep
<1>3. \A p \in Client : agent'[p] = agent[p] /\ posted'[p] = posted[p] => Board(p)'
  BY <1>1, <1>2, BoardKept DEF Boards
<1>4. CASE UNCHANGED <<agent, posted>>
  <2>1. \A p \in cast.program : sent'[p] <= posted'[p]
    <3>1. CASE Serve(Next)
      BY <1>4, <3>1 DEF Boards, Serve, Honest
    <3>2. CASE UNCHANGED sent
      BY <1>4, <3>2 DEF Boards
    <3> QED BY <1>1, <3>1, <3>2, SessionStep DEF sessionVars, vars, connVars
  <2>2. \A p \in cast.program : agent[p].color # "NONE" => ReadyMsg(agent[p].color) \in Got(p)'
    BY <1>1, <1>2 DEF Boards
  <2> QED BY <1>1, <1>3, <1>4, <2>1, <2>2 DEF Boards, ReadyMsg
<1>5. ASSUME NEW c \in Client, A!Play(c) \/ A!Crash(c), UNCHANGED sent
      PROVE  Boards'
  <2>1. \A p \in Client : Board(p)'
    BY <1>1, <1>3, <1>5, PlayEffect, PlayBoard DEF Boards
  <2>2. \A p \in cast.program : sent'[p] <= posted'[p]
    <3> SUFFICES ASSUME NEW p \in cast.program PROVE sent'[p] <= posted'[p]
      OBVIOUS
    <3>1. p \in Client /\ sent[p] \in Nat /\ posted[p] \in Nat /\ posted'[p] \in Nat /\ sent[p] <= posted[p]
      BY <1>1 DEF TypeOK, SessionType, Boards
    <3>2. posted[p] <= posted'[p]
      BY <1>1, <1>5, <3>1, PlayEffect
    <3> QED BY <1>5, <3>1, <3>2
  <2>3. ASSUME NEW p \in cast.program, agent'[p].color # "NONE" PROVE ReadyMsg(agent'[p].color) \in Got(p)'
    <3>1. CASE agent'[p].color = agent[p].color
      BY <1>1, <1>2, <2>3, <3>1 DEF Boards
    <3>2. CASE A!Handshake(p) /\ agent'[p].color # agent[p].color
      <4>1. PICK m \in A!Answer \cup {A!EOF} :
              /\ A!Receive(p, m)
              /\ \/ m.op = "READY" /\ A!Become(p, A!Seated(A!Taken(p), m.color))
                 \/ m.op = "REJECT" /\ A!Become(p, [A!Taken(p) EXCEPT !.pc = "rejected"])
                 \/ A!Throws(p, m, {"READY", "REJECT"})
        BY <3>2 DEF A!Handshake
      <4>2. agent[p] \in ProgramType /\ p \in Client
        BY <1>1 DEF SessionType, ReportInv, Reporting
      <4>3. /\ [A!Taken(p) EXCEPT !.pc = "rejected"].color = agent[p].color
            /\ [A!Taken(p) EXCEPT !.pc = "unexpected"].color = agent[p].color
            /\ [agent[p] EXCEPT !.pc = "eof"].color = agent[p].color
            /\ \A k : A!Seated(A!Taken(p), k).color = k
        BY <4>2 DEF ProgramType, A!Taken, A!Seated
      <4>4. m.op = "READY" /\ agent'[p].color = m.color
        <5>1. \A x : A!Become(p, x) => agent'[p] = x
          BY <1>1, <4>2, Became
        <5>2. CASE m.op = "REJECT" /\ A!Become(p, [A!Taken(p) EXCEPT !.pc = "rejected"])
          BY <3>2, <4>3, <5>1, <5>2
        <5>3. CASE A!Throws(p, m, {"READY", "REJECT"})
          BY <3>2, <4>3, <5>1, <5>3 DEF A!Throws
        <5> QED BY <4>1, <4>3, <5>1, <5>2, <5>3
      <4>5. m # EOF /\ m = ReadyMsg(m.color)
        BY <4>4 DEF EOF, ReadyMsg, A!Answer, A!EOF, A!RejectMsg, A!MoveMsg, A!ChatMsg, A!GameEnd, A!Color
      <4>6. m \in Got(p)
        BY <1>1, <4>1, <4>2, <4>5, Delivered DEF Boards
      <4> QED BY <1>2, <4>2, <4>4, <4>5, <4>6
    <3> QED BY <1>1, <1>5, <3>1, <3>2, PlayEffect
  <2> QED BY <1>1, <2>1, <2>2, <2>3 DEF Boards, ReadyMsg
<1>6. UNCHANGED sessionVars => UNCHANGED <<agent, posted>>
  BY DEF sessionVars, agentVars
<1> QED BY <1>4, <1>5, <1>6, SessionStep

LEMMA InitBoards == SessionInit => Boards
<1> SUFFICES ASSUME SessionInit PROVE Boards
  OBVIOUS
<1>1. /\ \A p \in Client : /\ agent[p] = A!NewProgram /\ posted[p] = 0 /\ sent[p] = 0 /\ out[p] = <<>>
      /\ cast \in Cast /\ cast.program \subseteq Client /\ cast.length \in Nat \ {0}
  BY SessionConstants DEF SessionInit, Init
<1>2. SessionType
  BY <1>1 DEF SessionInit, SessionType, ReportInv, Reporting, ProgramType, Playing, A!NewProgram, Request
<1>3. \A p \in Client : Heard(p) = 0
  <2>1. \A p \in Client : {i \in 1 .. 0 : out[p][i] = MoveMsg} = {}
    OBVIOUS
  <2>2. \A p \in Client : agent[p].taken = 0
    BY <1>1 DEF A!NewProgram
  <2> QED BY <2>1, <2>2, FS_EmptySet DEF Heard
<1>4. \A p \in Client : Own(p) = 0 /\ Theirs(p) = 0
  BY <1>1 DEF Own, Theirs, A!NewProgram
<1>5. \A p \in Client : Board(p)
  BY <1>1, <1>3, <1>4 DEF Board, A!NewProgram, Bit
<1> QED BY <1>1, <1>2, <1>5 DEF Boards, A!NewProgram

-----------------------------------------------------------------------------
(* What the server's handlers have got of the moves.                         *)

\* Messages are received one at a time, and never taken back.
LEMMA SentGrows ==
    ASSUME TypeOK, [Next]_vars, NEW p \in Client
    PROVE  sent[p] \in Nat /\ sent'[p] \in Nat /\ sent[p] <= sent'[p]
<1>1. sent \in [Client -> Nat]
  BY DEF TypeOK
<1>2. ASSUME NEW c \in Client, NEW m, Receive(c, m) \/ UNCHANGED sent
      PROVE  sent'[p] \in {sent[p], sent[p] + 1}
  BY <1>1, <1>2 DEF Receive
<1>3. ASSUME NEW c \in Client, WaitReady(c) \/ Listen(c) PROVE sent'[p] \in {sent[p], sent[p] + 1}
  BY <1>2, <1>3 DEF WaitReady, Listen
<1>4. ASSUME NEW c \in Client,
             \/ Disconnect(c) \/ SpuriousWake(c) \/ WaitingIfIsFirst(c) \/ Recheck(c)
             \/ SecondPlayer(c) \/ ColorConflict(c) \/ StartRoom(c) \/ TakeSeat(c)
             \/ CheckRoomStatus(c) \/ SendReady(c) \/ CommitMove(c) \/ Chat(c) \/ Resign(c) \/ CloseRoom(c)
      PROVE  UNCHANGED sent
  BY <1>4 DEF Disconnect, SpuriousWake, WaitingIfIsFirst, Recheck, SecondPlayer, ColorConflict,
              StartRoom, TakeSeat, CheckRoomStatus, SendReady, CommitMove, Chat, Resign, CloseRoom,
              Reject, connVars
<1>5. ASSUME NEW t \in Thread, CleanUp(t) PROVE UNCHANGED sent
  BY <1>5 DEF CleanUp, Clean, KillGame, TestJoinable, JoinDaemon, TestWaiting, StartFailed,
              EraseRoom, connVars
<1>6. ASSUME NEW t \in Admin, ShutdownService(t) \/ PickRoom(t) PROVE UNCHANGED sent
  BY <1>6 DEF ShutdownService, PickRoom, connVars
<1>7. ASSUME NEW r \in Room, Daemon(r) PROVE UNCHANGED sent
  BY <1>7 DEF Daemon, CreateAgents, MakeMove, NextListener, OnGameEnded, connVars
<1>8. UNCHANGED vars => UNCHANGED sent
  BY DEF vars, connVars
<1>9. sent'[p] \in {sent[p], sent[p] + 1}
  BY <1>1, <1>3, <1>4, <1>5, <1>6, <1>7, <1>8 DEF Next, Handler
<1> QED BY <1>1, <1>9

\* A handler comes to parse a move by receiving it.
LEMMA GetsMove ==
    ASSUME TypeOK, [Next]_vars, NEW p \in Client, pc'[p] = "move"
    PROVE  pc[p] = "move" \/ (Listen(p) /\ sent'[p] = sent[p] + 1)
<1> USE Threads
<1> DEFINE InMove == pc[p] = "move"
<1>1. /\ \A t \in Thread : \A l : Goto(t, l) /\ l # "move" => InMove
      /\ \A t \in Thread : \A l : NotifyAll(t, l) /\ l # "move" => InMove
  BY GotoEffect, NotifyAllEffect
<1> HIDE DEF InMove
<1>2. ASSUME NEW c \in Client, SpuriousWake(c) \/ WaitReady(c) \/ WaitingIfIsFirst(c) PROVE InMove
  BY <1>1, <1>2 DEF SpuriousWake, WaitReady, WaitingIfIsFirst, Exit
<1>3. ASSUME NEW c \in Client, Recheck(c) PROVE InMove
  <2>1. PICK l : Goto(c, l) /\ l # "move"
    BY <1>3 DEF Recheck
  <2> QED BY <1>1, <2>1
<1>4. ASSUME NEW c \in Client, SecondPlayer(c) \/ ColorConflict(c) \/ StartRoom(c) PROVE InMove
  BY <1>1, <1>4 DEF SecondPlayer, ColorConflict, Reject, StartRoom, NextIteration, Exit
<1>5. ASSUME NEW c \in Client, TakeSeat(c) \/ CheckRoomStatus(c) \/ SendReady(c) PROVE InMove
  BY <1>1, <1>5 DEF TakeSeat, CheckRoomStatus, CleanEnded, SendReady, NextIteration, Exit
<1>6. ASSUME NEW c \in Client, CommitMove(c) \/ Chat(c) \/ Resign(c) \/ CloseRoom(c) PROVE InMove
  BY <1>1, <1>6 DEF CommitMove, Chat, Resign, CloseRoom
<1>7. ASSUME NEW c \in Client, Listen(c)
      PROVE  InMove \/ (c = p /\ sent'[p] = sent[p] + 1)
  <2>1. PICK m \in Input(RoomId) :
          /\ Receive(c, m)
          /\ Dispatch(c, m) \/ CleanEnded(c, "oops", m) \/ NextIteration(c)
    BY <1>7 DEF Listen
  <2>2. CASE CleanEnded(c, "oops", m) \/ NextIteration(c)
    BY <1>1, <2>2 DEF CleanEnded, NextIteration
  <2>3. CASE Dispatch(c, m) /\ m.op \in MoveOp
    <3>1. sent' = [sent EXCEPT ![c] = @ + 1] /\ Goto(c, "move")
      BY <2>1, <2>3 DEF Dispatch, MoveOp, Receive, EOF
    <3>2. c = p => sent'[p] = sent[p] + 1
      BY <3>1 DEF TypeOK
    <3>3. c # p => InMove
      BY <3>1, GotoEffect DEF InMove
    <3> QED BY <3>2, <3>3
  <2>4. CASE Dispatch(c, m) /\ m.op \notin MoveOp
    <3>1. Goto(c, "resign") \/ Goto(c, "chat") \/ UNCHANGED pc
      BY <2>4 DEF Dispatch
    <3> QED BY <1>1, <3>1 DEF InMove
  <2> QED BY <2>1, <2>2, <2>3, <2>4
<1>8. ASSUME NEW t \in Thread, CleanUp(t) PROVE InMove
  <2>1. CASE Clean(t) \/ TestJoinable(t) \/ TestWaiting(t) \/ EraseRoom(t)
    <3>1. \E l \in {"idle", "join", "kill", "joining", "test", "startfail", "erase"} : Goto(t, l)
      BY <2>1 DEF Clean, TestJoinable, TestWaiting, EraseRoom, Return, NextIteration
    <3> QED BY <1>1, <3>1
  <2>2. CASE KillGame(t) \/ StartFailed(t)
    BY <1>1, <2>2 DEF KillGame, StartFailed, InMove
  <2>3. CASE JoinDaemon(t)
    <3>1. frame[t].trap # "move"
      BY DEF TypeOK, FrameType
    <3> QED BY <1>1, <2>3, <3>1 DEF JoinDaemon
  <2> QED BY <1>8, <2>1, <2>2, <2>3 DEF CleanUp
<1>9. ASSUME NEW t \in Admin, ShutdownService(t) \/ PickRoom(t) PROVE InMove
  <2>1. \E l \in {"exit", "pick", "clean", "abort"} : Goto(t, l)
    BY <1>9 DEF ShutdownService, PickRoom
  <2> QED BY <1>1, <2>1
<1>10. UNCHANGED pc => InMove
  BY DEF InMove
<1>11. ASSUME NEW r \in Room, Daemon(r) PROVE InMove
  BY <1>10, <1>11 DEF Daemon, CreateAgents, MakeMove, NextListener, OnGameEnded
<1>12. ASSUME NEW c \in Client, Disconnect(c) PROVE InMove
  BY <1>10, <1>12 DEF Disconnect
<1>13. UNCHANGED vars => InMove
  BY <1>10 DEF vars
<1> QED BY <1>2, <1>3, <1>4, <1>5, <1>6, <1>7, <1>8, <1>9, <1>11, <1>12, <1>13 DEF Next, Handler, InMove

\* The room whose daemon a step changes, and what it does then.
Puts(q, d) == game'[q].daemon = d /\ \A u \in Room \ {q} : game'[u] = game[u]

\* A daemon comes to make a move by being handed it.
LEMMA HandsMove ==
    ASSUME TypeOK, InRoom, [Next]_vars, NEW r \in Room, NEW k \in Color, game'[r].daemon = Moved(k)
    PROVE  \/ game[r].daemon = Moved(k)
           \/ \E c \in Client : /\ CommitMove(c) /\ At(c) = r /\ frame[c].color = k
                                /\ pc[c] = "move" /\ pc'[c] = "listen"
<1> USE Threads
<1> DEFINE AtMove == game[r].daemon = Moved(k)
<1>0. game \in [Room -> GameType] /\ \A q \in Room : game[q].daemon \in DaemonStatus
  BY DEF TypeOK, GameType
<1>1. \A d : d # "BLACK moved" /\ d # "WHITE moved" => d # Moved(k)
  BY DEF Moved
<1>2. \A q \in Room : \A d : Puts(q, d) /\ d # "BLACK moved" /\ d # "WHITE moved" => AtMove
  BY <1>1 DEF Puts
<1>3. UNCHANGED game => AtMove
  OBVIOUS
<1>4. (\A q \in Room : game'[q].daemon = game[q].daemon) => AtMove
  OBVIOUS
<1> HIDE DEF AtMove
<1>5. ASSUME NEW c \in Client, SpuriousWake(c) \/ WaitingIfIsFirst(c) \/ Recheck(c) \/ SecondPlayer(c)
      PROVE  AtMove
  BY <1>3, <1>5 DEF SpuriousWake, WaitingIfIsFirst, Recheck, SecondPlayer
<1>6. ASSUME NEW c \in Client, ColorConflict(c) \/ CheckRoomStatus(c) \/ Listen(c) \/ Chat(c)
             \/ Resign(c) \/ CloseRoom(c) \/ Disconnect(c)
      PROVE  AtMove
  BY <1>3, <1>6 DEF ColorConflict, Reject, CheckRoomStatus, Listen, Chat, Resign, CloseRoom, Disconnect
<1>7. ASSUME NEW c \in Client, TakeSeat(c) \/ SendReady(c) PROVE AtMove
  <2>1. PICK x : \/ game' = [game EXCEPT ![At(c)].heard = x]
                 \/ game' = [game EXCEPT ![At(c)].unblocked = x]
                 \/ UNCHANGED game
    BY <1>7 DEF TakeSeat, SendReady
  <2>2. \A q \in Room : game'[q].daemon = game[q].daemon
    BY <1>0, <2>1 DEF GameType
  <2> QED BY <1>4, <2>2
<1>8. ASSUME NEW c \in Client, WaitReady(c) PROVE AtMove
  <2>1. PICK q \in Room : UNCHANGED game \/ game' = [game EXCEPT ![q] = NewGame("none")]
    BY <1>8 DEF WaitReady, GetOrCreateRoom
  <2>2. UNCHANGED game \/ Puts(q, "none")
    BY <1>0, <2>1 DEF Puts, NewGame
  <2> QED BY <1>2, <1>3, <2>2
<1>9. ASSUME NEW c \in Client, StartRoom(c) PROVE AtMove
  <2>1. At(c) \in Room
    BY <1>9 DEF StartRoom, InRoom
  <2>2. PICK d \in {"setup", "lost"} : game' = [game EXCEPT ![At(c)] = NewGame(d)]
    BY <1>9 DEF StartRoom
  <2>3. Puts(At(c), d)
    BY <1>0, <2>1, <2>2 DEF Puts, NewGame
  <2> QED BY <1>2, <2>1, <2>2, <2>3
<1>10. ASSUME NEW c \in Client, CommitMove(c), ~AtMove
       PROVE  At(c) = r /\ frame[c].color = k /\ pc[c] = "move" /\ pc'[c] = "listen"
  <2>1. /\ game[At(c)].daemon = frame[c].color /\ Goto(c, "listen") /\ pc[c] = "move"
        /\ game' = [game EXCEPT ![At(c)].daemon = Moved(@)]
    BY <1>3, <1>10 DEF CommitMove
  <2>2. At(c) = r
    BY <1>0, <1>10, <2>1 DEF AtMove
  <2>3. game'[r].daemon = Moved(game[r].daemon) /\ pc'[c] = "listen"
    BY <1>0, <2>1, <2>2, GotoEffect DEF GameType
  <2>4. frame[c].color \in {"BLACK", "WHITE"}
    <3>1. frame[c].color \in Request
      BY DEF TypeOK, FrameType
    <3> QED BY <1>0, <2>1, <2>2, <3>1 DEF Request, Color, DaemonStatus
  <2>5. Moved(frame[c].color) = Moved(k)
    BY <2>1, <2>2, <2>3
  <2>6. frame[c].color = k
    BY <2>4, <2>5 DEF Moved, Color
  <2> QED BY <2>1, <2>2, <2>3, <2>6
<1>11. ASSUME NEW t \in Thread, CleanUp(t) PROVE AtMove
  <2>1. pc[t] \in {"clean", "kill", "joining"} => At(t) \in Room
    BY DEF InRoom
  <2>2. CASE Clean(t)
    <3>1. PICK k1 : \/ UNCHANGED game
                    \/ game' = [game EXCEPT ![At(t)].attached = FALSE, ![At(t)].killers = k1]
      BY <2>2 DEF Clean
    <3>2. UNCHANGED game \/ \A q \in Room : game'[q].daemon = game[q].daemon
      BY <1>0, <3>1 DEF GameType
    <3> QED BY <1>3, <1>4, <3>2
  <2>3. CASE KillGame(t)
    <3>1. UNCHANGED game \/ Puts(At(t), "over")
      BY <1>0, <2>1, <2>3 DEF KillGame, GameOver, Puts, GameType
    <3> QED BY <1>2, <1>3, <2>1, <2>3, <3>1 DEF KillGame
  <2>4. CASE JoinDaemon(t)
    <3>1. UNCHANGED game \/ Puts(At(t), "joined")
      BY <1>0, <2>1, <2>4 DEF JoinDaemon, Puts, GameType
    <3> QED BY <1>2, <1>3, <2>1, <2>4, <3>1 DEF JoinDaemon
  <2>5. CASE TestJoinable(t) \/ TestWaiting(t) \/ StartFailed(t) \/ EraseRoom(t)
    BY <1>3, <2>5 DEF TestJoinable, TestWaiting, StartFailed, EraseRoom
  <2> QED BY <1>11, <2>2, <2>3, <2>4, <2>5 DEF CleanUp
<1>12. ASSUME NEW t \in Admin, ShutdownService(t) \/ PickRoom(t) PROVE AtMove
  BY <1>3, <1>12 DEF ShutdownService, PickRoom
<1>13. ASSUME NEW q \in Room, Daemon(q) PROVE AtMove
  <2>1. PICK d \in {"BLACK", "WHITE", "over", "done", "listener"} : Puts(q, d)
    <3>1. CASE CreateAgents(q)
      BY <1>0, <3>1 DEF CreateAgents, Puts, GameType
    <3>2. CASE MakeMove(q)
      <4>1. PICK d \in {"BLACK", "WHITE", "done"} :
              GameOver(q) \/ game' = [game EXCEPT ![q].daemon = d]
        BY <3>2 DEF MakeMove, Reverse
      <4> QED BY <1>0, <4>1 DEF GameOver, Puts, GameType
    <3>3. CASE NextListener(q)
      <4>1. PICK d \in {"listener", "done"} : game' = [game EXCEPT ![q].daemon = d]
        BY <3>3 DEF NextListener
      <4> QED BY <1>0, <4>1 DEF Puts, GameType
    <3>4. CASE OnGameEnded(q)
      <4>1. PICK x : \/ game' = [game EXCEPT ![q].daemon = "over", ![q].pending = x]
                     \/ game' = [game EXCEPT ![q].daemon = "done"]
        BY <3>4 DEF OnGameEnded
      <4> QED BY <1>0, <4>1 DEF Puts, GameType
    <3> QED BY <1>13, <3>1, <3>2, <3>3, <3>4 DEF Daemon
  <2> QED BY <1>2, <2>1
<1>14. UNCHANGED vars => AtMove
  BY <1>3 DEF vars
<1> QED BY <1>5, <1>6, <1>7, <1>8, <1>9, <1>10, <1>11, <1>12, <1>13, <1>14 DEF Next, Handler, AtMove

\* A step that neither tells anybody a move nor hands one to a daemon.
LEMMA QuietHands ==
    ASSUME OneGame, IndInv, GameInv, TypeOK', Hands, [Next]_vars, NEW t, Steady(t),
           \A p \in Client : Count(p, MoveMsg)' = Count(p, MoveMsg),
           \A r \in Room : \A k \in Color : game'[r].daemon = Moved(k) => game[r].daemon = Moved(k)
    PROVE  Hands'
<1> SUFFICES ASSUME NEW r \in Room, Paired(r), NEW p \in Client
             PROVE  InHand(r, p)' <= sent'[p] - 1
  BY RoomsStay DEF Steady, Hands
<1>1. /\ Seat(r, p)' = Seat(r, p) /\ Peer(r, p)' = Peer(r, p)
      /\ Seat(r, p) \in Color /\ Peer(r, p) \in Client /\ TypeOK
  BY RoomsStay, Opponents DEF Steady, GameInv, IndInv
<1> DEFINE C == Count(Peer(r, p), MoveMsg)
<1>2. C \in Nat /\ C' = C
  BY <1>1, Counted
<1>3. /\ sent[p] \in Nat /\ sent'[p] \in Nat /\ sent[p] <= sent'[p]
      /\ pc'[p] = "move" => pc[p] = "move" \/ sent'[p] = sent[p] + 1
  BY <1>1, SentGrows, GetsMove
<1>4. InHand(r, p) = C + Bit(game[r].daemon = Moved(Seat(r, p))) + Bit(pc[p] = "move")
      /\ InHand(r, p) <= sent[p] - 1
  BY DEF InHand, Hands
<1>5. InHand(r, p)' = C + Bit(game'[r].daemon = Moved(Seat(r, p))) + Bit(pc'[p] = "move")
  BY <1>1, <1>2 DEF InHand, Bit, Moved, MoveMsg
<1>6. game'[r].daemon = Moved(Seat(r, p)) => game[r].daemon = Moved(Seat(r, p))
  BY <1>1
<1> QED BY <1>2, <1>3, <1>4, <1>5, <1>6 DEF Bit

\* A handler hands its move to the daemon, or drops it.
LEMMA CommitMoveHands ==
    ASSUME OneGame, IndInv, GameInv, TypeOK', Hands, [Next]_vars, NEW c \in Client, CommitMove(c)
    PROVE  Hands'
<1>1. Steady(c) /\ UNCHANGED out /\ pc[c] = "move" /\ TypeOK /\ InRoom
  BY CommitMoveSteady DEF CommitMove, connVars, GameInv, IndInv
<1> SUFFICES ASSUME NEW r \in Room, Paired(r), NEW p \in Client
             PROVE  InHand(r, p)' <= sent'[p] - 1
  BY <1>1, RoomsStay DEF Steady, Hands
<1>2. /\ Seat(r, p)' = Seat(r, p) /\ Peer(r, p)' = Peer(r, p)
      /\ Seat(r, p) \in Color /\ Peer(r, p) \in Client
  BY <1>1, RoomsStay, Opponents DEF Steady, GameInv
<1> DEFINE C == Count(Peer(r, p), MoveMsg)
<1>3. C \in Nat /\ C' = C
  BY <1>1, <1>2, Counted, QuietCounts
<1>4. sent[p] \in Nat /\ UNCHANGED sent /\ (pc'[p] = "move" => pc[p] = "move")
  BY <1>1, GetsMove DEF TypeOK, CommitMove, connVars, Listen
<1>5. InHand(r, p) = C + Bit(game[r].daemon = Moved(Seat(r, p))) + Bit(pc[p] = "move")
      /\ InHand(r, p) <= sent[p] - 1
  BY DEF InHand, Hands
<1>6. InHand(r, p)' = C + Bit(game'[r].daemon = Moved(Seat(r, p))) + Bit(pc'[p] = "move")
  BY <1>2, <1>3 DEF InHand, Bit, Moved, MoveMsg
<1>7. CASE game'[r].daemon = Moved(Seat(r, p)) => game[r].daemon = Moved(Seat(r, p))
  BY <1>3, <1>4, <1>5, <1>6, <1>7 DEF Bit
<1>8. CASE game'[r].daemon = Moved(Seat(r, p)) /\ game[r].daemon # Moved(Seat(r, p))
  <2>1. PICK d \in Client : frame[d].color = Seat(r, p) /\ pc[d] = "move" /\ pc'[d] = "listen"
    BY <1>1, <1>2, <1>8, HandsMove
  <2>2. frame[d].color = Seat(r, d)
    BY <2>1 DEF GameInv, SeatInv, Facing, Sitting, InGame
  <2>3. d = p
    BY <2>1, <2>2, OneSide DEF GameInv
  <2> QED BY <1>3, <1>4, <1>5, <1>6, <1>8, <2>1, <2>3 DEF Bit
<1> QED BY <1>7, <1>8

\* A daemon makes the move that it was handed, and tells the opponent.
LEMMA MakeMoveHands ==
    ASSUME OneGame, IndInv, GameInv, TypeOK', Hands, [Next]_vars, NEW q \in Room, MakeMove(q)
    PROVE  Hands'
<1>1. Steady(None) /\ UNCHANGED <<pc, sent>> /\ TypeOK /\ InRoom
  BY DaemonSteady DEF Daemon, MakeMove, GameInv, IndInv
<1> SUFFICES ASSUME NEW r \in Room, Paired(r), NEW p \in Client
             PROVE  InHand(r, p)' <= sent'[p] - 1
  BY <1>1, RoomsStay DEF Steady, Hands
<1>2. /\ Seat(r, p)' = Seat(r, p) /\ Peer(r, p)' = Peer(r, p) /\ Peer(r, Peer(r, p)) = p
      /\ Seat(r, p) \in Color /\ Peer(r, p) \in Client /\ Seat(r, Peer(r, p)) = Reverse(Seat(r, p))
  BY <1>1, RoomsStay, Opponents DEF Steady, GameInv
<1> DEFINE C == Count(Peer(r, p), MoveMsg)
<1>3. C \in Nat /\ C' = Count(Peer(r, p), MoveMsg)'
  BY <1>1, <1>2, Counted
<1>4. sent[p] \in Nat
  BY <1>1 DEF TypeOK
<1>5. InHand(r, p) = C + Bit(game[r].daemon = Moved(Seat(r, p))) + Bit(pc[p] = "move")
      /\ InHand(r, p) <= sent[p] - 1
  BY DEF InHand, Hands
<1>6. InHand(r, p)' = C' + Bit(game'[r].daemon = Moved(Seat(r, p))) + Bit(pc[p] = "move")
  BY <1>1, <1>2 DEF InHand, Bit, Moved, MoveMsg
<1>7. game'[r].daemon = Moved(Seat(r, p)) => game[r].daemon = Moved(Seat(r, p))
  BY <1>1, <1>2, HandsMove
<1>8. PICK k \in Color :
        /\ game[q].daemon = Moved(k)
        /\ game'[q].daemon # Moved(k)
        /\ UNCHANGED out \/ Send(Relay(q, k), MoveMsg)
  <2>1. PICK k \in Color :
          /\ game[q].daemon = Moved(k)
          /\ \/ GameOver(q)
             \/ game' = [game EXCEPT ![q].daemon = Reverse(k)]
             \/ game' = [game EXCEPT ![q].daemon = "done"]
          /\ UNCHANGED out \/ Send(Relay(q, k), MoveMsg)
    BY DEF MakeMove, NotSent
  <2>2. game'[q].daemon \in {"over", "done", "BLACK", "WHITE"}
    BY <1>1, <2>1 DEF GameOver, TypeOK, GameType, Reverse
  <2> QED BY <2>1, <2>2 DEF Moved
<1>9. q = r
  BY <1>8, HasDaemon, Opponents DEF Moved, GameInv, MeetInv, Single
<1>10. CASE C' = C
  BY <1>3, <1>4, <1>5, <1>6, <1>7, <1>10, <1>1 DEF Bit
<1>11. CASE C' # C
  <2>1. Send(Relay(r, k), MoveMsg)
    BY <1>2, <1>8, <1>9, <1>11, QuietCounts DEF MoveMsg
  <2>2. game[r].attached
    <3>1. ASSUME ~game[r].attached PROVE FALSE
      <4>1. Relay(r, k) = {}
        BY <1>8, <1>9, <3>1, RelayedTo DEF GameInv
      <4>2. out'[Peer(r, p)] = out[Peer(r, p)]
        BY <1>1, <1>2, <2>1, <4>1, SentEffect
      <4> QED BY <1>11, <1>2, <4>2 DEF Count, MoveMsg
    <3> QED BY <3>1
  <2>3. /\ Seat(r, Peer(r, p)) = Reverse(k) => C' = C + 1
        /\ Seat(r, Peer(r, p)) = k => C' = C
    BY <1>2, <1>3, <1>8, <1>9, <2>1, <2>2, RelayedCount DEF GameInv
  <2>4. Seat(r, p) = k /\ C' = C + 1
    BY <1>2, <1>11, <2>3 DEF Color, Reverse
  <2>5. game[r].daemon = Moved(Seat(r, p)) /\ game'[r].daemon # Moved(Seat(r, p))
    BY <1>8, <1>9, <2>4
  <2> QED BY <1>1, <1>3, <1>4, <1>5, <1>6, <2>4, <2>5 DEF Bit
<1> QED BY <1>10, <1>11

\* Nobody has made a move before the game is started.
LEMMA ComingHands ==
    ASSUME OneGame, IndInv, GameInv, TypeOK', MeetInv', SeatInv', ToldInv', [Next]_vars,
           NEW c \in Client, ~Past(c), UNCHANGED out
    PROVE  Hands'
<1> SUFFICES ASSUME NEW r \in Room, Paired(r)', NEW p \in Client
             PROVE  InHand(r, p)' <= sent'[p] - 1
  BY DEF Hands
<1>1. TypeOK /\ InRoom /\ \A q \in Room : game[q].daemon = "none"
  BY NoGameYet DEF IndInv, GameInv, NewGame
<1>2. \A d \in Client : Count(d, MoveMsg)' = 0
  <2>1. \A d \in Client : MoveMsg \notin Got(d)
    BY SilentYet, Messages DEF GameInv
  <2>2. \A d \in Client : Count(d, MoveMsg) = 0
    BY <1>1, <2>1, Counted
  <2> QED BY <2>2, QuietCounts DEF MoveMsg
<1>3. Seat(r, p)' \in Color /\ Peer(r, p)' \in Client
  <2>1. room'[r].second # None /\ room'[r].second # room'[r].first
    BY DEF Paired
  <2>2. room'[r].first \in Client /\ room'[r].second \in Client /\ room'[r].color \in Color
    BY <2>1 DEF MeetInv, Creators, Created, Seated, TypeOK, RoomType, SeatInv, Suited, Paired
  <2> QED BY <2>2, Reverses DEF Seat, Peer
<1>4. game'[r].daemon # Moved(Seat(r, p)')
  <2>1. \A d \in Client : pc[d] # "move"
    BY NoGameYet DEF GameInv, MeetInv, Single, Sitting, InGame
  <2>2. game[r].daemon # Moved(Seat(r, p)')
    BY <1>1, <1>3 DEF Moved, Color
  <2> QED BY <1>1, <1>3, <2>1, <2>2, HandsMove
<1>5. pc'[p] # "move"
  <2>1. pc[p] \notin {"move", "listen"}
    BY NoGameYet DEF GameInv, MeetInv, Single, Sitting, InGame
  <2> QED BY <1>1, <2>1, GetsMove DEF Listen
<1>6. sent'[p] \in Nat /\ sent'[p] # 0
  <2>1. Past(p)'
    BY DEF MeetInv, Waited, Paired, Seated
  <2> QED BY <2>1 DEF Past, Fresh, TypeOK
<1>7. InHand(r, p)' = 0
  BY <1>2, <1>3, <1>4, <1>5 DEF InHand, Bit, MoveMsg
<1> QED BY <1>6, <1>7

LEMMA NextHands ==
    ASSUME OneGame, IndInv, IndInv', GameInv, Hands, [Next]_vars PROVE Hands'
<1>1. MeetInv' /\ SeatInv' /\ ToldInv' /\ TypeOK' /\ TypeOK /\ InRoom
  BY NextMeet, NextSeat, NextTold DEF GameInv, IndInv
<1>2. CASE \E c \in Client : ~Past(c) /\ UNCHANGED out
  BY <1>1, <1>2, ComingHands
<1>3. CASE \E r \in Room : MakeMove(r)
  BY <1>1, <1>3, MakeMoveHands
<1>4. CASE \E c \in Client : CommitMove(c)
  BY <1>1, <1>4, CommitMoveHands
<1>5. ASSUME NEW t, Steady(t), ~ \E r \in Room : MakeMove(r), ~ \E c \in Client : CommitMove(c)
      PROVE  Hands'
  <2>1. \A p \in Client : Count(p, MoveMsg)' = Count(p, MoveMsg)
    <3>1. CASE UNCHANGED out
      BY <3>1, QuietCounts DEF MoveMsg
    <3>2. CASE ~UNCHANGED out
      <4>1. PICK to, m : Send(to, m) /\ m # MoveMsg
        BY <1>5, <3>2, Sends DEF Says
      <4> SUFFICES ASSUME NEW p \in Client PROVE Count(p, MoveMsg)' = Count(p, MoveMsg)
        OBVIOUS
      <4>2. CASE p \in to
        BY <1>1, <4>1, <4>2, SentEffect
      <4>3. CASE p \notin to
        <5>1. out'[p] = out[p]
          BY <1>1, <4>1, <4>3, SentEffect
        <5> QED BY <5>1 DEF Count, MoveMsg
      <4> QED BY <4>2, <4>3
    <3> QED BY <3>1, <3>2
  <2>2. \A r \in Room : \A k \in Color : game'[r].daemon = Moved(k) => game[r].daemon = Moved(k)
    BY <1>1, <1>5, HandsMove
  <2> QED BY <1>1, <1>5, <2>1, <2>2, QuietHands
<1> QED BY <1>2, <1>3, <1>4, <1>5, Comings DEF GameInv

\* What the daemon of a game tells a player has been received from the other one.
THEOREM MovesComeFromPlayers == ASSUME OneGame PROVE Spec => []Hands
<1>1. Init => Hands
  BY InitMeet DEF Init, NewRoom, Hands, Paired
<1>2. IndInv /\ IndInv' /\ GameInv /\ Hands /\ [Next]_vars => Hands'
  BY NextHands
<1> QED BY <1>1, <1>2, Inductive, GameInductive, PTL DEF Spec

\* What is proved of the programs' boards holds in every session.
THEOREM BoardsInductive == SessionSpec => []Boards
<1>1. TypeOK /\ TypeOK' /\ Boards /\ [SessionNext]_sessionVars => Boards'
  BY BoardsKept
<1>2. IndInv => TypeOK
  BY DEF IndInv
<1> QED BY <1>1, <1>2, InitBoards, SessionIsService, Inductive, PTL DEF SessionSpec

-----------------------------------------------------------------------------
(* The end of the game is read, and reported, once.                          *)

\* Receiving one more message, for END.
LEMMA EndsNext ==
    ASSUME TypeOK, SessionType, NEW p \in Client, Board(p), out' = out,
           agent'[p].taken = agent[p].taken + 1
    PROVE  /\ EndsRead(p) \in Nat
           /\ out[p][agent[p].taken + 1].op = "END" => EndsRead(p)' = EndsRead(p) + 1
           /\ out[p][agent[p].taken + 1].op # "END" => EndsRead(p)' = EndsRead(p)
<1> DEFINE n == agent[p].taken
           S == {i \in 1 .. n : out[p][i].op = "END"}
           T == {i \in 1 .. n + 1 : out[p][i].op = "END"}
<1>1. n \in Nat /\ EndsRead(p) = Cardinality(S) /\ EndsRead(p)' = Cardinality(T)
  BY BoardType DEF EndsRead
<1>2. IsFiniteSet(S)
  <2>1. \A k \in Nat : IsFiniteSet(1 .. k)
    BY FS_Interval
  <2>2. IsFiniteSet(1 .. n) /\ S \subseteq 1 .. n
    BY <1>1, <2>1
  <2> QED BY <2>2, FS_Subset
<1>3. Cardinality(S) \in Nat
  BY <1>2, FS_CardinalityType
<1>4. CASE out[p][n + 1].op = "END"
  <2>1. T = S \cup {n + 1} /\ n + 1 \notin S
    BY <1>1, <1>4
  <2> QED BY <1>1, <1>2, <1>3, <1>4, <2>1, FS_AddElement
<1>5. CASE out[p][n + 1].op # "END"
  <2>1. T = S
    BY <1>1, <1>5
  <2> QED BY <1>1, <1>3, <1>5, <2>1
<1> QED BY <1>4, <1>5

\* The END that was read stays read.
LEMMA EndsSame ==
    ASSUME TypeOK, SessionType, NEW p \in Client, Board(p), agent'[p].taken = agent[p].taken,
           \A i \in 1 .. Len(out[p]) : out'[p][i] = out[p][i]
    PROVE  EndsRead(p)' = EndsRead(p)
<1>1. agent[p].taken \in Nat /\ Len(out[p]) \in Nat /\ agent[p].taken <= Len(out[p])
  BY BoardType DEF Board
<1>2. \A i \in 1 .. agent[p].taken : out'[p][i] = out[p][i]
  BY <1>1
<1> QED BY <1>2 DEF EndsRead

\* A program that has its colour has reported what it has read.
Matches(p) == agent[p].color # "NONE" => agent[p].reports = EndsRead(p)

\* The step of a program: it reports an END when it reads it, and at no other time.
LEMMA MatchesPlay ==
    ASSUME TypeOK, SessionType, NEW c \in Client, Board(c), A!Play(c) \/ A!Crash(c), Matches(c)
    PROVE  Matches(c)'
<1>1. /\ agent[c] \in ProgramType /\ agent[c].taken \in Nat /\ agent[c].reports \in Nat
      /\ out' = out
  <2>1. agent[c] \in ProgramType
    BY BoardType
  <2> QED BY <2>1, BoardType, PlayEffect DEF ProgramType
<1>2. \A x : A!Become(c, x) => agent'[c] = x
  BY Became
<1>3. ASSUME agent'[c].taken = agent[c].taken, agent'[c].color = agent[c].color,
             agent'[c].reports = agent[c].reports
      PROVE  Matches(c)'
  <2>1. EndsRead(c)' = EndsRead(c)
    BY <1>1, <1>3, EndsSame
  <2> QED BY <1>3, <2>1 DEF Matches
<1>4. ASSUME NEW m, A!Receive(c, m), m # EOF,
             agent'[c].taken = agent[c].taken + 1, agent'[c].color = agent[c].color,
             \/ m.op = "END" /\ agent'[c].reports = agent[c].reports + 1
             \/ m.op # "END" /\ agent'[c].reports = agent[c].reports
      PROVE  Matches(c)'
  <2>1. m = out[c][agent[c].taken + 1]
    BY <1>4, Delivered
  <2> QED BY <1>1, <1>4, <2>1, EndsNext DEF Matches
<1>5. ASSUME NEW m, A!Receive(c, m), NEW E, A!Throws(c, m, E), "END" \in E \/ agent[c].color = "NONE"
      PROVE  Matches(c)'
  <2>1. CASE A!Become(c, [agent[c] EXCEPT !.pc = "eof"])
    <3>1. agent'[c] = [agent[c] EXCEPT !.pc = "eof"]
      BY <1>2, <2>1
    <3> QED BY <1>1, <1>3, <3>1 DEF ProgramType
  <2>2. CASE m.op \notin E \cup {"EOF"} /\ A!Become(c, [A!Taken(c) EXCEPT !.pc = "unexpected"])
    <3>1. agent'[c] = [A!Taken(c) EXCEPT !.pc = "unexpected"]
      BY <1>2, <2>2
    <3>2. /\ agent'[c].taken = agent[c].taken + 1 /\ agent'[c].color = agent[c].color
          /\ agent'[c].reports = agent[c].reports
      BY <1>1, <3>1 DEF A!Taken, ProgramType
    <3>3. CASE "END" \in E
      <4>1. m # EOF /\ m.op # "END"
        BY <2>2, <3>3 DEF EOF
      <4> QED BY <1>4, <1>5, <3>2, <4>1
    <3>4. CASE agent[c].color = "NONE"
      BY <3>2, <3>4 DEF Matches
    <3> QED BY <1>5, <3>3, <3>4
  <2> QED BY <1>5, <2>1, <2>2 DEF A!Throws
<1>6. CASE A!Connect(c) \/ A!Think(c) \/ A!SendOwnMove(c) \/ A!Crash(c) \/ A!Close(c)
  <2>1. CASE A!Think(c)
    <3>1. agent'[c] = [A!AfterMove(agent[c], "receive") EXCEPT !.own = TRUE]
      BY <1>2, <2>1 DEF A!Think
    <3>2. /\ agent'[c].taken = agent[c].taken /\ agent'[c].color = agent[c].color
          /\ agent'[c].reports = agent[c].reports
      BY <1>1, <3>1 DEF A!AfterMove, ProgramType
    <3> QED BY <1>3, <3>2
  <2>2. CASE A!Connect(c) \/ A!SendOwnMove(c) \/ A!Crash(c) \/ A!Close(c)
    <3>1. agent' = agent \/ \E y : agent'[c] = [agent[c] EXCEPT !.pc = y] \/ agent'[c] = [agent[c] EXCEPT !.own = y]
      BY <1>2, <2>2 DEF A!Connect, A!SendOwnMove, A!Crash, A!Close
    <3> QED BY <1>1, <1>3, <3>1 DEF ProgramType
  <2> QED BY <1>6, <2>1, <2>2
<1>7. CASE A!Handshake(c)
  <2>1. PICK m : /\ A!Receive(c, m)
                 /\ \/ m.op = "READY" /\ A!Become(c, A!Seated(A!Taken(c), m.color))
                    \/ m.op = "REJECT" /\ A!Become(c, [A!Taken(c) EXCEPT !.pc = "rejected"])
                    \/ A!Throws(c, m, {"READY", "REJECT"})
    BY <1>7 DEF A!Handshake
  <2>2. /\ agent[c].pc = "handshake" /\ agent[c].taken = 0 /\ agent[c].color = "NONE"
        /\ agent[c].reports = 0
    BY <1>7 DEF A!Handshake, Board, SessionType, ReportInv, Reporting, Playing
  <2>3. CASE m.op = "READY" /\ A!Become(c, A!Seated(A!Taken(c), m.color))
    <3>1. agent'[c] = A!Seated(A!Taken(c), m.color)
      BY <1>2, <2>3
    <3>2. agent'[c].taken = agent[c].taken + 1 /\ agent'[c].reports = 0
      BY <1>1, <2>2, <3>1 DEF A!Seated, A!Taken, ProgramType
    <3>3. EndsRead(c) = 0
      <4>1. {i \in 1 .. 0 : out[c][i].op = "END"} = {}
        OBVIOUS
      <4> QED BY <2>2, <4>1, FS_EmptySet DEF EndsRead
    <3>4. m = out[c][agent[c].taken + 1]
      BY <2>1, <2>3, Delivered DEF EOF
    <3>5. EndsRead(c)' = 0
      BY <1>1, <2>3, <3>2, <3>3, <3>4, EndsNext
    <3> QED BY <3>2, <3>5 DEF Matches
  <2>4. CASE m.op = "REJECT" /\ A!Become(c, [A!Taken(c) EXCEPT !.pc = "rejected"])
    <3>1. agent'[c] = [A!Taken(c) EXCEPT !.pc = "rejected"]
      BY <1>2, <2>4
    <3>2. agent'[c].color = "NONE"
      BY <1>1, <2>2, <3>1 DEF A!Taken, ProgramType
    <3> QED BY <3>2 DEF Matches
  <2> QED BY <1>5, <2>1, <2>2, <2>3, <2>4
<1>8. CASE A!CalculateMove(c)
  <2>1. PICK m : /\ A!Receive(c, m)
                 /\ \/ m.op = "MOVE" /\ A!Become(c, A!AfterMove(A!Taken(c), "think"))
                    \/ m.op = "END" /\ A!Become(c, A!Reported(A!Taken(c)))
                    \/ m.op = "CHAT" /\ A!Become(c, A!Taken(c))
                    \/ A!Throws(c, m, {"MOVE", "END", "CHAT"})
    BY <1>8 DEF A!CalculateMove
  <2>2. CASE m.op = "MOVE" /\ A!Become(c, A!AfterMove(A!Taken(c), "think"))
    <3>1. agent'[c] = A!AfterMove(A!Taken(c), "think")
      BY <1>2, <2>2
    <3>2. /\ agent'[c].color = agent[c].color /\ agent'[c].reports = agent[c].reports
          /\ agent'[c].taken = agent[c].taken + 1
      BY <1>1, <3>1 DEF A!AfterMove, A!Taken, ProgramType
    <3> QED BY <1>4, <2>1, <2>2, <3>2 DEF EOF
  <2>3. CASE m.op = "END" /\ A!Become(c, A!Reported(A!Taken(c)))
    <3>1. agent'[c] = A!Reported(A!Taken(c))
      BY <1>2, <2>3
    <3>2. /\ agent'[c].color = agent[c].color /\ agent'[c].reports = agent[c].reports + 1
          /\ agent'[c].taken = agent[c].taken + 1
      BY <1>1, <3>1 DEF A!Reported, A!Taken, ProgramType
    <3> QED BY <1>4, <2>1, <2>3, <3>2 DEF EOF
  <2>4. CASE m.op = "CHAT" /\ A!Become(c, A!Taken(c))
    <3>1. agent'[c] = A!Taken(c)
      BY <1>2, <2>4
    <3>2. /\ agent'[c].color = agent[c].color /\ agent'[c].reports = agent[c].reports
          /\ agent'[c].taken = agent[c].taken + 1
      BY <1>1, <3>1 DEF A!Taken, ProgramType
    <3> QED BY <1>4, <2>1, <2>4, <3>2 DEF EOF
  <2> QED BY <1>5, <2>1, <2>2, <2>3, <2>4
<1>9. CASE A!GameEnded(c)
  <2>1. CASE A!Become(c, [agent[c] EXCEPT !.pc = "played"])
    <3>1. agent'[c] = [agent[c] EXCEPT !.pc = "played"]
      BY <1>2, <2>1
    <3> QED BY <1>1, <1>3, <3>1 DEF ProgramType
  <2>2. ASSUME NEW m, A!Receive(c, m), m.op = "END",
               A!Become(c, [A!Taken(c) EXCEPT !.reports = @ + 1, !.pc = "played"])
        PROVE  Matches(c)'
    <3>1. agent'[c] = [A!Taken(c) EXCEPT !.reports = @ + 1, !.pc = "played"]
      BY <1>2, <2>2
    <3>2. /\ agent'[c].color = agent[c].color /\ agent'[c].reports = agent[c].reports + 1
          /\ agent'[c].taken = agent[c].taken + 1
      BY <1>1, <3>1 DEF A!Taken, ProgramType
    <3> QED BY <1>4, <2>2, <3>2 DEF EOF
  <2> QED BY <1>5, <1>9, <2>1, <2>2 DEF A!GameEnded
<1> QED BY <1>6, <1>7, <1>8, <1>9 DEF A!Play

LEMMA MatchesKept ==
    ASSUME TypeOK, Boards, \A p \in Client : Matches(p), [SessionNext]_sessionVars
    PROVE  \A p \in Client : Matches(p)'
<1> SUFFICES ASSUME NEW p \in Client PROVE Matches(p)'
  OBVIOUS
<1>1. SessionType /\ Board(p) /\ Matches(p)
  BY DEF Boards
<1>2. CASE agent'[p] = agent[p]
  <2>1. \A i \in 1 .. Len(out[p]) : out'[p][i] = out[p][i]
    BY OutGrows, SessionStep
  <2>2. EndsRead(p)' = EndsRead(p)
    BY <1>1, <1>2, <2>1, EndsSame
  <2> QED BY <1>1, <1>2, <2>2 DEF Matches
<1>3. CASE \E c \in Client : A!Play(c) \/ A!Crash(c)
  <2>1. PICK c \in Client : A!Play(c) \/ A!Crash(c)
    BY <1>3
  <2>2. CASE p = c
    BY <1>1, <2>1, <2>2, MatchesPlay
  <2>3. CASE p # c
    BY <1>1, <1>2, <2>1, <2>3, PlayEffect
  <2> QED BY <2>2, <2>3
<1>4. UNCHANGED agent => agent'[p] = agent[p]
  OBVIOUS
<1>5. UNCHANGED sessionVars => UNCHANGED agent
  BY DEF sessionVars, agentVars
<1> QED BY <1>2, <1>3, <1>4, <1>5, SessionStep

\* A program in a game reads at most one END, though the server may send it two, and
\* reports each END that it reads: the one that interrupts CalculateMove
\* (surakarta_agent_remote.cpp:53-54) sets the flag that keeps the OnGameEnded listener
\* from waiting for another (lines 20 and 135).  For any number of programs.
THEOREM ReportsOnce == SessionSpec => []EndReportedOnce
<1>1. SessionInit => \A p \in Client : Matches(p)
  BY DEF SessionInit, Matches, A!NewProgram
<1>2. IndInv /\ Boards /\ (\A p \in Client : Matches(p)) /\ [SessionNext]_sessionVars
      => (\A p \in Client : Matches(p))'
  BY MatchesKept DEF IndInv
<1>3. Boards /\ (\A p \in Client : Matches(p)) => EndReportedOnce
  <2> SUFFICES ASSUME Boards, \A p \in Client : Matches(p), NEW p \in Client
               PROVE  /\ agent[p].color # "NONE" => agent[p].reports = EndsRead(p)
                      /\ agent[p].reports <= 1
                      /\ agent[p].pc = "played" => agent[p].reports = 1
    BY DEF EndReportedOnce
  <2>1. agent[p] \in Reporting /\ agent[p].reports \in 0 .. 1
    BY DEF Boards, SessionType, ReportInv, Reporting, ProgramType
  <2> QED BY <2>1 DEF Matches, Reporting
<1> QED BY <1>1, <1>2, <1>3, BoardsInductive, SessionIsService, Inductive, PTL DEF SessionSpec
-----------------------------------------------------------------------------
(* Three boards, one game.                                                   *)

\* A program that plays with a client has played the moves of that client only after
\* the server had them, and the server has a move only when its program has it.
LEMMA Relayed ==
    ASSUME OneGame, IndInv, GameInv, Hands, Boards, cast.program = Client,
           NEW r \in Room, Paired(r), NEW p \in Client
    PROVE  /\ Theirs(p) <= Count(p, MoveMsg)
           /\ Count(p, MoveMsg) <= Own(Peer(r, p))
<1> DEFINE q == Peer(r, p)
           C == Count(p, MoveMsg)
<1>1. q \in Client /\ Peer(r, q) = p /\ TypeOK /\ SessionType /\ Board(p) /\ Board(q)
  BY Opponents DEF GameInv, IndInv, Boards
<1>2. Theirs(p) \in Nat /\ Heard(p) \in Nat /\ Theirs(p) <= Heard(p) /\ C \in Nat
  <2>1. Theirs(p) \in Nat /\ Heard(p) \in Nat
    BY <1>1, BoardType
  <2>2. C \in Nat
    BY <1>1, Counted
  <2> QED BY <1>1, <2>1, <2>2 DEF Board
<1>3. Heard(p) <= C
  <2> DEFINE S == {i \in 1 .. agent[p].taken : out[p][i] = MoveMsg}
             T == {i \in DOMAIN out[p] : out[p][i] = MoveMsg}
  <2>1. agent[p].taken \in Nat /\ agent[p].taken <= Len(out[p]) /\ out[p] \in Seq(Answer)
    BY <1>1, BoardType DEF Board, TypeOK
  <2>2. S \subseteq T
    BY <2>1
  <2>3. IsFiniteSet(T)
    BY <1>1, Counted
  <2>4. Cardinality(S) <= Cardinality(T)
    BY <2>2, <2>3, FS_Subset
  <2> QED BY <2>4 DEF Heard, Count
<1>4. InHand(r, q) <= sent[q] - 1 /\ sent[q] <= posted[q] /\ sent[q] \in Nat /\ posted[q] \in Nat
  BY <1>1 DEF Hands, Boards, TypeOK, SessionType
<1>5. InHand(r, q) \in Nat /\ C <= InHand(r, q)
  <2>1. PICK x \in {0, 1}, y \in {0, 1} : InHand(r, q) = C + x + y
    <3>1. InHand(r, q) = C + Bit(game[r].daemon = Moved(Seat(r, q))) + Bit(pc[q] = "move")
      BY <1>1 DEF InHand
    <3>2. \A z : Bit(z) \in {0, 1}
      BY DEF Bit
    <3> QED BY <3>1, <3>2
  <2> QED BY <1>2, <2>1
<1>6. C <= Own(q)
  <2>1. posted[q] # 0 /\ C <= posted[q] - 1
    BY <1>2, <1>4, <1>5
  <2>2. Own(q) = posted[q] - 1 + Bit(agent[q].own)
    BY <2>1 DEF Own
  <2>3. Bit(agent[q].own) \in {0, 1}
    BY DEF Bit
  <2> QED BY <1>2, <1>4, <2>1, <2>2, <2>3
<1> QED BY <1>2, <1>3, <1>6

\* How far the two kinds of moves on the board of a player are apart.
LEMMA Apart ==
    ASSUME OneGame, IndInv, GameInv, Boards, cast.program = Client,
           NEW r \in Room, Paired(r), NEW p \in Client
    PROVE  LET e == Lead(Seat(r, p)) IN
           /\ Own(p) \in Nat /\ Theirs(p) \in Nat /\ agent[p].moves = Own(p) + Theirs(p)
           /\ Own(p) - Theirs(p) \in {e, e + 1}
           /\ agent[p].pc = "think" => Own(p) - Theirs(p) = e
<1>1. Board(p) /\ TypeOK /\ SessionType /\ Seat(r, p) \in Color
  BY Opponents DEF Boards, IndInv, GameInv
<1>2. Own(p) \in Nat /\ Theirs(p) \in Nat /\ agent[p].moves = Own(p) + Theirs(p)
  BY <1>1, BoardType
<1>3. CASE agent[p].color = "NONE"
  <2>1. Own(p) = 0 /\ Theirs(p) = 0 /\ agent[p].pc # "think"
    BY <1>1, <1>3, BoardType DEF Board
  <2> QED BY <1>1, <1>2, <2>1, Leads
<1>4. CASE agent[p].color # "NONE"
  <2>1. agent[p].color \in Color /\ ReadyMsg(agent[p].color) \in Got(p)
    BY <1>1, <1>4 DEF Boards, SessionType, ReportInv, Reporting, ProgramType, Request
  <2>2. agent[p].color = Seat(r, p)
    BY <2>1 DEF GameInv, ToldInv, Colours
  <2> QED BY <1>1, <1>2, <1>4, <2>2 DEF Board
<1> QED BY <1>3, <1>4

\* All that is left is to count.
LEMMA OneBoard ==
    ASSUME NEW ob \in Nat, NEW tb \in Nat, NEW ow \in Nat, NEW tw \in Nat,
           NEW cb \in Nat, NEW cw \in Nat,
           tb <= cb, cb <= ow, tw <= cw, cw <= ob,
           ob - tb \in {0, 1}, ow - tw \in {-1, 0}
    PROVE  /\ ~(ob - tb = 0 /\ ow - tw = -1)
           /\ ob - tb = 0 => ow + tw <= ob + tb
           /\ ow - tw = -1 => ob + tb <= ow + tw
           /\ ob + tb >= cb + cw \/ ow + tw >= cb + cw
           /\ (ob + tb) - (ow + tw) \in -1 .. 1 /\ (ow + tw) - (ob + tb) \in -1 .. 1
OBVIOUS

LEMMA BoardsInStep == ASSUME OneGame, IndInv, GameInv, Hands, Boards PROVE InStep
<1> SUFFICES ASSUME cast.program = Client, SomePair
             PROVE  /\ \A c, d \in Client : agent[c].pc = "think" /\ agent[d].pc = "think" => c = d
                    /\ \A c, d \in Client : agent[c].pc = "think" => agent[d].moves <= agent[c].moves
                    /\ \A r \in Room : Paired(r) => \E c \in Players(r) : agent[c].moves >= Made(r)
                    /\ \A c, d \in Client : agent[c].moves - agent[d].moves \in -1 .. 1
  BY DEF InStep, Programs
<1>1. ASSUME NEW r \in Room, Paired(r)
      PROVE  /\ \A c, d \in Client : agent[c].pc = "think" /\ agent[d].pc = "think" => c = d
             /\ \A c, d \in Client : agent[c].pc = "think" => agent[d].moves <= agent[c].moves
             /\ \E c \in Players(r) : agent[c].moves >= Made(r)
             /\ \A c, d \in Client : agent[c].moves - agent[d].moves \in -1 .. 1
  <2>1. PICK b \in Client, w \in Client :
          /\ Seat(r, b) = "BLACK" /\ Seat(r, w) = "WHITE" /\ Peer(r, b) = w /\ Peer(r, w) = b
          /\ Client = {b, w} /\ Players(r) = {b, w}
          /\ Made(r) = Count(b, MoveMsg) + Count(w, MoveMsg)
    <3>1. /\ room[r].first \in Client /\ room[r].second \in Client
          /\ Client = {room[r].first, room[r].second} /\ Players(r) = Client
          /\ Peer(r, room[r].first) = room[r].second /\ Peer(r, room[r].second) = room[r].first
          /\ Seat(r, room[r].first) \in Color
          /\ Seat(r, room[r].second) = Reverse(Seat(r, room[r].first))
      BY <1>1, Opponents, PlayersAreClients DEF GameInv, Peer
    <3>2. TypeOK
      BY DEF IndInv
    <3>3. Count(room[r].first, MoveMsg) \in Nat /\ Count(room[r].second, MoveMsg) \in Nat
      BY <3>1, <3>2, Counted
    <3>4. CASE Seat(r, room[r].first) = "BLACK"
      BY <3>1, <3>4 DEF Made, Reverse
    <3>5. CASE Seat(r, room[r].first) = "WHITE"
      BY <3>1, <3>3, <3>5 DEF Made, Reverse
    <3> QED BY <3>1, <3>4, <3>5 DEF Color
  <2>2. /\ Own(b) \in Nat /\ Theirs(b) \in Nat /\ agent[b].moves = Own(b) + Theirs(b)
        /\ Own(b) - Theirs(b) \in {0, 1}
        /\ agent[b].pc = "think" => Own(b) - Theirs(b) = 0
    BY <1>1, <2>1, Apart, Leads
  <2>3. /\ Own(w) \in Nat /\ Theirs(w) \in Nat /\ agent[w].moves = Own(w) + Theirs(w)
        /\ Own(w) - Theirs(w) \in {-1, 0}
        /\ agent[w].pc = "think" => Own(w) - Theirs(w) = -1
    BY <1>1, <2>1, Apart, Leads
  <2>4. /\ Count(b, MoveMsg) \in Nat /\ Count(w, MoveMsg) \in Nat
        /\ Theirs(b) <= Count(b, MoveMsg) /\ Count(b, MoveMsg) <= Own(w)
        /\ Theirs(w) <= Count(w, MoveMsg) /\ Count(w, MoveMsg) <= Own(b)
    BY <1>1, <2>1, Relayed, Counted DEF IndInv
  <2>5. /\ ~(Own(b) - Theirs(b) = 0 /\ Own(w) - Theirs(w) = -1)
        /\ Own(b) - Theirs(b) = 0 => agent[w].moves <= agent[b].moves
        /\ Own(w) - Theirs(w) = -1 => agent[b].moves <= agent[w].moves
        /\ agent[b].moves >= Made(r) \/ agent[w].moves >= Made(r)
        /\ agent[b].moves - agent[w].moves \in -1 .. 1 /\ agent[w].moves - agent[b].moves \in -1 .. 1
    BY <2>1, <2>2, <2>3, <2>4, OneBoard
  <2>6. /\ agent[b].moves \in Nat /\ agent[w].moves \in Nat
        /\ agent[b].moves - agent[b].moves = 0 /\ agent[w].moves - agent[w].moves = 0
    BY <2>2, <2>3
  <2> QED BY <2>1, <2>2, <2>3, <2>5, <2>6
<1> QED BY <1>1 DEF SomePair

\* Two programs that play each other, each on a board of its own, and the server play
\* one game: at most one of them thinks, it has every move, and none of the three boards
\* is more than a move behind, for games of any length.
THEOREM BoardsAgree == ASSUME OneGame PROVE SessionSpec => []InStep
<1>1. IndInv /\ GameInv /\ Hands /\ Boards => InStep
  BY BoardsInStep
<1> QED BY <1>1, SessionIsService, Inductive, GameInductive, MovesComeFromPlayers,
           BoardsInductive, PTL

-----------------------------------------------------------------------------
(* No surprise: what a handler does to itself and to the other one.          *)

\* A handler touches the other one only by waking it.
LEMMA Alone ==
    ASSUME OneGame, Admin = {}, IndInv, MeetInv, [Next]_vars, NEW p \in Client
    PROVE  \/ SpuriousWake(p) \/ Handler(p) \/ CleanUp(p)
           \/ frame'[p] = frame[p] /\ (pc'[p] = pc[p] \/ (pc[p] = "wait" /\ pc'[p] = "woken"))
<1> USE Threads, NoAdmins
<1> DEFINE Spared == frame'[p] = frame[p] /\ (pc'[p] = pc[p] \/ (pc[p] = "wait" /\ pc'[p] = "woken"))
<1>1. \A t : Steady(t) /\ t # p => Spared
  BY DEF Steady, Others
<1>2. ASSUME NEW c \in Client \ {p}, SpuriousWake(c) \/ Handler(c) PROVE Spared
  <2>1. TypeOK /\ c \in Thread /\ p \in Thread
    BY DEF IndInv
  <2>2. CASE WaitReady(c)
    <3>1. CASE Steady(c)
      BY <1>1, <3>1
    <3>2. CASE \E m \in Input(RoomId) : \E r \in Room : ComesIn(c, m, r)
      BY <2>1, <3>2, GotoEffect DEF ComesIn, TypeOK
    <3> QED BY <2>2, <3>1, <3>2, WaitReadyCases
  <2>3. CASE WaitingIfIsFirst(c)
    <3>1. UNCHANGED frame /\ \E l : Goto(c, l)
      BY <2>3 DEF WaitingIfIsFirst
    <3> QED BY <2>1, <3>1, GotoEffect
  <2>4. CASE StartRoom(c)
    BY <2>1, <2>4, NotifyAllEffect DEF StartRoom
  <2>5. CASE \/ SpuriousWake(c) \/ Recheck(c) \/ SecondPlayer(c) \/ ColorConflict(c)
             \/ TakeSeat(c) \/ CheckRoomStatus(c) \/ SendReady(c) \/ Listen(c)
             \/ CommitMove(c) \/ Chat(c) \/ Resign(c) \/ CloseRoom(c)
    BY <1>1, <2>5, SpuriousWakeSteady, RecheckSteady, SecondPlayerSteady, ColorConflictSteady,
       TakeSeatSteady, CheckRoomStatusSteady, SendReadySteady, ListenSteady, CommitMoveSteady,
       ChatSteady, ResignSteady, CloseRoomSteady
  <2> QED BY <1>2, <2>2, <2>3, <2>4, <2>5 DEF Handler
<1>3. ASSUME NEW c \in Client \ {p}, CleanUp(c) PROVE Spared
  BY <1>1, <1>3, TestSteady, StartFailedSteady, EraseRoomSteady, CleanSteady, KillGameSteady,
     JoinDaemonSteady DEF CleanUp
<1>4. ASSUME \/ UNCHANGED vars \/ \E c \in Client : Disconnect(c) \/ \E r \in Room : Daemon(r)
      PROVE  Spared
  BY <1>4 DEF vars, Disconnect, Daemon, CreateAgents, MakeMove, NextListener, OnGameEnded
<1> QED BY <1>2, <1>3, <1>4 DEF Next

\* Where a handler can go.
LEMMA Route ==
    ASSUME TypeOK, NEW p \in Client, SpuriousWake(p) \/ Handler(p) \/ CleanUp(p)
    PROVE  /\ pc[p] # "exit"
           /\ pc'[p] \in {"check", "ready"} => pc[p] \in Seating \cup {"check", "ready"}
           /\ pc'[p] \in {"move", "chat", "resign"} => Listen(p)
           /\ pc[p] = "rejected" => pc'[p] \in {"conflict", "exit"}
           /\ pc[p] \in {"wait", "woken"} =>
                 /\ frame'[p] = frame[p]
                 /\ Status(p) = "WAITING" => pc'[p] \in {"wait", "woken"}
<1> USE Threads
<1>1. /\ \A l : Goto(p, l) => pc'[p] = l
      /\ \A l : NotifyAll(p, l) => pc'[p] = l
  BY GotoEffect, NotifyAllEffect
<1>2. CASE SpuriousWake(p) \/ WaitReady(p) \/ WaitingIfIsFirst(p)
  BY <1>1, <1>2 DEF SpuriousWake, WaitReady, WaitingIfIsFirst, Exit
<1>3. CASE Recheck(p)
  <2>1. PICK l \in {"wait", "seat1", "clean"} : Goto(p, l) /\ (Status(p) = "WAITING" => l = "wait")
    BY <1>3 DEF Recheck
  <2> QED BY <1>1, <1>3, <2>1 DEF Recheck
<1>4. CASE SecondPlayer(p) \/ ColorConflict(p) \/ StartRoom(p)
  BY <1>1, <1>4 DEF SecondPlayer, ColorConflict, Reject, StartRoom, NextIteration, Exit
<1>5. CASE TakeSeat(p) \/ CheckRoomStatus(p) \/ SendReady(p)
  BY <1>1, <1>5 DEF TakeSeat, CheckRoomStatus, CleanEnded, SendReady, NextIteration, Exit, Seating
<1>6. CASE CommitMove(p) \/ Chat(p) \/ Resign(p) \/ CloseRoom(p)
  BY <1>1, <1>6 DEF CommitMove, Chat, Resign, CloseRoom
<1>7. CASE Listen(p)
  <2>1. pc'[p] \notin {"check", "ready"} /\ pc[p] = "listen"
    <3>1. PICK m : Dispatch(p, m) \/ CleanEnded(p, "oops", m) \/ NextIteration(p)
      BY <1>7 DEF Listen
    <3> QED BY <1>1, <1>7, <3>1 DEF Listen, Dispatch, CleanEnded, NextIteration
  <2> QED BY <1>7, <2>1
<1>8. CASE CleanUp(p)
  <2>1. CASE Clean(p) \/ TestJoinable(p) \/ TestWaiting(p) \/ EraseRoom(p)
    <3>1. PICK l \in {"idle", "join", "kill", "joining", "test", "startfail", "erase"} : Goto(p, l)
      BY <2>1 DEF Clean, TestJoinable, TestWaiting, EraseRoom, Return, NextIteration
    <3>2. pc[p] \in {"clean", "join", "test", "erase"}
      BY <2>1 DEF Clean, TestJoinable, TestWaiting, EraseRoom
    <3> QED BY <1>1, <3>1, <3>2
  <2>2. CASE KillGame(p) \/ StartFailed(p)
    BY <1>1, <2>2 DEF KillGame, StartFailed
  <2>3. CASE JoinDaemon(p)
    <3>1. frame[p].trap \in {"exit", "oops", "abort"}
      BY DEF TypeOK, FrameType
    <3> QED BY <1>1, <2>3, <3>1 DEF JoinDaemon
  <2> QED BY <1>8, <2>1, <2>2, <2>3 DEF CleanUp
<1> QED BY <1>2, <1>3, <1>4, <1>5, <1>6, <1>7, <1>8 DEF Handler

\* What is said, and by which step.
LEMMA Said ==
    ASSUME [Next]_vars
    PROVE  \/ UNCHANGED out
           \/ \E c \in Client : SendReady(c) /\ Goto(c, "listen") /\ Send({c}, ReadyMsg(frame[c].color))
           \/ \E c \in Client : /\ SecondPlayer(c) \/ ColorConflict(c)
                                /\ \E l \in {"idle", "exit", "rejected", "conflict"} : Goto(c, l)
                                /\ \E to : Send(to, RejectMsg)
           \/ \E c \in Client : Chat(c) /\ Send({frame[c].peer}, ChatMsg)
           \/ \E c \in Client : Resign(c) /\ Send({frame[c].peer}, ResignEnd(Winner(c)))
           \/ \E r \in Room : \E k \in Color : MakeMove(r) /\ game[r].daemon = Moved(k)
                                               /\ Send(Relay(r, k), MoveMsg)
           \/ \E r \in Room : OnGameEnded(r) /\ \E to : Send(to, GameEnd)
<1> DEFINE Quiet == UNCHANGED out
<1>1. ASSUME NEW c \in Client, Disconnect(c) PROVE Quiet
  BY <1>1 DEF Disconnect
<1>2. ASSUME NEW c \in Client, SecondPlayer(c) \/ ColorConflict(c)
      PROVE  \/ Quiet
             \/ /\ \E l \in {"idle", "exit", "rejected", "conflict"} : Goto(c, l)
                /\ \E to : Send(to, RejectMsg)
  BY <1>2 DEF SecondPlayer, ColorConflict, Reject, NextIteration, Exit, NotSent
<1>3. ASSUME NEW c \in Client, SendReady(c)
      PROVE  Quiet \/ (Goto(c, "listen") /\ Send({c}, ReadyMsg(frame[c].color)))
  BY <1>3 DEF SendReady, NotSent
<1>4. ASSUME NEW c \in Client, Resign(c)
      PROVE  Quiet \/ Send({frame[c].peer}, ResignEnd(Winner(c)))
  BY <1>4 DEF Resign, ResignTo, NotSent
<1>5. ASSUME NEW r \in Room, MakeMove(r)
      PROVE  Quiet \/ \E k \in Color : game[r].daemon = Moved(k) /\ Send(Relay(r, k), MoveMsg)
  BY <1>5 DEF MakeMove, NotSent
<1>6. ASSUME NEW r \in Room, OnGameEnded(r) PROVE Quiet \/ \E to : Send(to, GameEnd)
  BY <1>6 DEF OnGameEnded, NotSent
<1>7. ASSUME NEW c \in Client, Chat(c) PROVE Quiet \/ Send({frame[c].peer}, ChatMsg)
  BY <1>7 DEF Chat, NotSent
<1> QED BY <1>1, <1>2, <1>3, <1>4, <1>5, <1>6, <1>7, Telling

\* What the handler of a program hears: moves, and the end of file.
LEMMA Spoken ==
    ASSUME TypeOK, NEW c \in Client, Listen(c), Honest(c)
    PROVE  /\ UNCHANGED <<out, game>>
           /\ pc'[c] = "move" => frame'[c].msg.op = "MOVE"
           /\ pc'[c] = "resign" => ~open[c]
           /\ pc'[c] # "chat"
           /\ Status(c) = "PLAYING" => UNCHANGED room /\ pc'[c] \in {"listen", "move", "resign"}
<1> USE Threads
<1>1. PICK m \in Input(RoomId) :
        /\ Receive(c, m)
        /\ \/ /\ Status(c) = "PLAYING"
              /\ Dispatch(c, m)
              /\ frame' = [frame EXCEPT ![c].msg = m]
              /\ UNCHANGED <<room, remained>>
           \/ CleanEnded(c, "oops", m)
           \/ Status(c) \notin {"PLAYING", "ENDED"} /\ NextIteration(c)
  BY DEF Listen
<1>2. UNCHANGED <<out, game>> /\ pc[c] = "listen"
  BY DEF Listen
<1>3. \A l : Goto(c, l) => pc'[c] = l
  BY GotoEffect
<1>4. CASE CleanEnded(c, "oops", m)
  BY <1>2, <1>3, <1>4 DEF CleanEnded
<1>5. CASE Status(c) \notin {"PLAYING", "ENDED"} /\ NextIteration(c)
  BY <1>2, <1>3, <1>5 DEF NextIteration
<1>6. CASE /\ Status(c) = "PLAYING" /\ Dispatch(c, m)
           /\ frame' = [frame EXCEPT ![c].msg = m] /\ UNCHANGED <<room, remained>>
  <2>1. frame'[c].msg = m
    BY <1>6 DEF TypeOK, FrameType
  <2>2. \/ m = EOF /\ ~open[c]
        \/ m # EOF /\ m.op \in {"READY", "MOVE"}
    <3>1. CASE m = EOF /\ ~open[c] /\ UNCHANGED sent
      BY <3>1
    <3>2. CASE /\ sent[c] < Len(Traffic[c]) /\ m \in Traffic[c][sent[c] + 1]
               /\ sent' = [sent EXCEPT ![c] = @ + 1]
      <4>1. m \in ReadyOp(RoomId) \cup GameOp
        <5>1. sent[c] + 1 \in 1 .. Len(Traffic[c])
          BY <3>2 DEF TypeOK, ConstantsOK
        <5>2. Traffic[c] \in Seq(SUBSET (ReadyOp(RoomId) \cup GameOp))
          BY ConstantsOK
        <5> QED BY <3>2, <5>1, <5>2
      <4>2. m # EOF
        BY <4>1 DEF ReadyOp, GameOp, MoveOp, EOF
      <4>3. sent'[c] # sent[c]
        BY <3>2 DEF TypeOK
      <4>4. pc'[c] # "spin"
        BY <1>2, <1>3, <1>6 DEF Dispatch
      <4> QED BY <2>1, <4>2, <4>3, <4>4 DEF Honest, LastMessage
    <3> QED BY <1>1, <3>1, <3>2 DEF Receive
  <2>3. CASE m = EOF /\ ~open[c]
    <3>1. m.op = "EOF"
      BY <2>3 DEF EOF
    <3> QED BY <1>2, <1>3, <1>6, <2>3, <3>1 DEF Dispatch, MoveOp
  <2>4. CASE m.op = "READY"
    BY <1>2, <1>6, <2>4 DEF Dispatch, MoveOp
  <2>5. CASE m.op = "MOVE"
    BY <1>2, <1>3, <1>6, <2>1, <2>5 DEF Dispatch, MoveOp
  <2> QED BY <2>2, <2>3, <2>4, <2>5
<1> QED BY <1>1, <1>4, <1>5, <1>6

-----------------------------------------------------------------------------
(* No surprise: what a program does.                                         *)

\* The program reads m; it finds the end of file; it does something of its own.
Reads(c, m) ==
    /\ m \in Answer /\ m = out[c][agent[c].taken + 1] /\ agent[c].taken + 1 \in 1 .. Len(out[c])
    /\ agent'[c].taken = agent[c].taken + 1
    /\ PlaysOn(c)
    /\ \/ /\ agent[c].pc = "handshake" /\ m.op = "READY" /\ ~agent'[c].remote_game_ended
          /\ agent'[c].color = m.color /\ agent'[c].pc \in {"think", "receive"}
       \/ /\ agent[c].pc = "receive" /\ m.op = "END" /\ agent'[c].color = agent[c].color
          /\ agent'[c].pc = "ended" /\ agent'[c].remote_game_ended
       \/ /\ agent'[c].color = agent[c].color /\ ~agent'[c].remote_game_ended
          /\ \/ agent[c].pc = "handshake" /\ m.op = "REJECT" /\ agent'[c].pc = "rejected"
             \/ agent[c].pc = "receive" /\ m.op \in {"MOVE", "CHAT"} /\ agent'[c].pc \in Playing
             \/ agent[c].pc = "ended" /\ m.op = "END" /\ agent'[c].pc = "played"
             \/ /\ agent'[c].pc = "unexpected"
                /\ \/ agent[c].pc = "handshake" /\ m.op \notin {"READY", "REJECT"}
                   \/ agent[c].pc = "receive" /\ m.op \notin {"MOVE", "CHAT", "END"}
                   \/ agent[c].pc = "ended" /\ m.op # "END"
FindsEnd(c) ==
    /\ pc[c] = "exit" /\ agent[c].taken = Len(out[c])
    /\ PlaysOn(c) /\ agent[c].pc \in {"handshake", "receive", "ended"}
    /\ agent'[c].pc = "eof" /\ agent'[c].taken = agent[c].taken /\ agent'[c].color = agent[c].color
    /\ ~agent'[c].remote_game_ended
GoesOn(c) ==
    /\ agent[c].pc \in Playing /\ agent'[c].pc \in Playing
    /\ agent'[c].taken = agent[c].taken /\ agent'[c].color = agent[c].color
    /\ agent'[c].remote_game_ended = agent[c].remote_game_ended

\* A program that has had the END during a move leaves its game.
Returns(c) ==
    /\ agent[c].pc = "ended" /\ agent[c].remote_game_ended
    /\ agent'[c].pc = "played" /\ agent'[c].taken = agent[c].taken
    /\ agent'[c].color = agent[c].color

\* A step of a program: it connects, takes its colour, takes another message, finds the end
\* of the connection, leaves, or goes on with its board.
LEMMA ProgramStep ==
    ASSUME TypeOK, SessionType, NEW c \in Client, Board(c), A!Play(c) \/ A!Crash(c)
    PROVE  \/ agent' = agent /\ agent[c].pc \in A!Over
           \/ /\ ~A!Play(c) /\ agent'[c].pc = "crashed"
              /\ agent'[c].taken = agent[c].taken /\ agent'[c].color = agent[c].color
              /\ agent'[c].remote_game_ended = agent[c].remote_game_ended
           \/ UNCHANGED open /\ (GoesOn(c) \/ Returns(c) \/ FindsEnd(c) \/ \E m : Reads(c, m))
<1>1. agent[c] \in ProgramType /\ agent[c].taken \in Nat
  BY BoardType
<1>12. agent[c].pc \in {"handshake", "receive"} => PlaysOn(c)
  BY DEF SessionType, ReportInv, Reporting, PlaysOn, Playing
<1>2. \A x : A!Become(c, x) => agent'[c] = x
  BY Became
<1>3. ASSUME NEW m, A!Receive(c, m), NEW E, A!Throws(c, m, E),
             agent[c].pc \in {"handshake", "receive", "ended"}, PlaysOn(c)
      PROVE  \/ FindsEnd(c)
             \/ /\ m \in Answer /\ m = out[c][agent[c].taken + 1]
                /\ agent[c].taken + 1 \in 1 .. Len(out[c])
                /\ agent'[c].taken = agent[c].taken + 1 /\ agent'[c].color = agent[c].color
                /\ agent'[c].pc = "unexpected" /\ m.op \notin E /\ ~agent'[c].remote_game_ended
  <2>1. CASE m = EOF /\ A!Become(c, [agent[c] EXCEPT !.pc = "eof"])
    <3>1. agent'[c] = [agent[c] EXCEPT !.pc = "eof"]
      BY <1>2, <2>1
    <3>2. EOF \notin Answer
      BY DEF EOF, Answer, RejectMsg, MoveMsg, ChatMsg, GameEnd
    <3>3. agent[c].taken = Len(out[c]) /\ pc[c] = "exit"
      BY <1>3, <2>1, <3>2, Delivered
    <3> QED BY <1>1, <1>3, <3>1, <3>3 DEF FindsEnd, ProgramType, PlaysOn
  <2>2. CASE m.op \notin E \cup {"EOF"} /\ A!Become(c, [A!Taken(c) EXCEPT !.pc = "unexpected"])
    <3>1. agent'[c] = [A!Taken(c) EXCEPT !.pc = "unexpected"]
      BY <1>2, <2>2
    <3>2. m # EOF
      BY <2>2 DEF EOF
    <3>3. /\ m = out[c][agent[c].taken + 1] /\ agent[c].taken + 1 \in 1 .. Len(out[c])
          /\ m \in Answer
      BY <1>3, <3>2, Delivered
    <3> QED BY <1>1, <1>3, <2>2, <3>1, <3>3 DEF A!Taken, ProgramType, PlaysOn
  <2> QED BY <1>3, <2>1, <2>2 DEF A!Throws, EOF, A!EOF
<1>4. ASSUME NEW m, A!Receive(c, m), m.op # "EOF"
      PROVE  /\ m \in Answer /\ m = out[c][agent[c].taken + 1]
             /\ agent[c].taken + 1 \in 1 .. Len(out[c])
  BY <1>4, Delivered DEF EOF
<1>5. CASE A!Connect(c) \/ A!Think(c) \/ A!SendOwnMove(c)
  <2>1. UNCHANGED open
    BY <1>5 DEF A!Connect, A!Think, A!SendOwnMove
  <2>2. GoesOn(c)
    <3>1. CASE A!Connect(c)
      BY <1>1, <1>2, <3>1 DEF A!Connect, GoesOn, Playing, ProgramType
    <3>2. CASE A!Think(c)
      <4>1. /\ agent'[c] = [A!AfterMove(agent[c], "receive") EXCEPT !.own = TRUE]
            /\ agent[c].pc = "think"
        BY <1>2, <3>2 DEF A!Think
      <4>2. /\ agent'[c].pc \in {"ended", "receive"} /\ agent'[c].taken = agent[c].taken
            /\ agent'[c].color = agent[c].color
            /\ agent'[c].remote_game_ended = agent[c].remote_game_ended
        BY <1>1, <4>1 DEF A!AfterMove, ProgramType
      <4> QED BY <4>1, <4>2 DEF GoesOn, Playing
    <3>3. CASE A!SendOwnMove(c)
      <4>1. /\ agent'[c] = [agent[c] EXCEPT !.own = FALSE]
            /\ agent[c].pc \in {"receive", "ended"}
        BY <1>2, <3>3 DEF A!SendOwnMove, A!Sends
      <4> QED BY <1>1, <4>1 DEF GoesOn, Playing, ProgramType
    <3> QED BY <1>5, <3>1, <3>2, <3>3
  <2> QED BY <2>1, <2>2
<1>6. CASE A!Handshake(c)
  <2>1. PICK m : /\ A!Receive(c, m)
                 /\ \/ m.op = "READY" /\ A!Become(c, A!Seated(A!Taken(c), m.color))
                    \/ m.op = "REJECT" /\ A!Become(c, [A!Taken(c) EXCEPT !.pc = "rejected"])
                    \/ A!Throws(c, m, {"READY", "REJECT"})
    BY <1>6 DEF A!Handshake
  <2>2. UNCHANGED open /\ agent[c].pc = "handshake" /\ PlaysOn(c)
    BY <1>6, <1>12 DEF A!Handshake
  <2>3. CASE m.op = "READY" /\ A!Become(c, A!Seated(A!Taken(c), m.color))
    <3>1. agent'[c] = A!Seated(A!Taken(c), m.color)
      BY <1>2, <2>3
    <3>2. /\ agent'[c].color = m.color /\ agent'[c].pc \in {"think", "receive"}
          /\ agent'[c].taken = agent[c].taken + 1 /\ ~agent'[c].remote_game_ended
      BY <1>1, <2>2, <3>1 DEF A!Seated, A!Taken, ProgramType, PlaysOn
    <3>3. Reads(c, m)
      BY <1>4, <2>1, <2>2, <2>3, <3>2 DEF Reads
    <3> QED BY <2>2, <3>3
  <2>4. CASE m.op = "REJECT" /\ A!Become(c, [A!Taken(c) EXCEPT !.pc = "rejected"])
    <3>1. agent'[c] = [A!Taken(c) EXCEPT !.pc = "rejected"]
      BY <1>2, <2>4
    <3>2. /\ agent'[c].color = agent[c].color /\ agent'[c].pc = "rejected"
          /\ agent'[c].taken = agent[c].taken + 1 /\ ~agent'[c].remote_game_ended
      BY <1>1, <2>2, <3>1 DEF A!Taken, ProgramType, PlaysOn
    <3>3. Reads(c, m)
      BY <1>4, <2>1, <2>2, <2>4, <3>2 DEF Reads
    <3> QED BY <2>2, <3>3
  <2>5. CASE A!Throws(c, m, {"READY", "REJECT"})
    <3>1. FindsEnd(c) \/ Reads(c, m)
      BY <1>3, <2>1, <2>2, <2>5 DEF Reads
    <3> QED BY <2>2, <3>1
  <2> QED BY <2>1, <2>3, <2>4, <2>5
<1>7. CASE A!CalculateMove(c)
  <2>1. PICK m : /\ A!Receive(c, m)
                 /\ \/ m.op = "MOVE" /\ A!Become(c, A!AfterMove(A!Taken(c), "think"))
                    \/ m.op = "END" /\ A!Become(c, A!Reported(A!Taken(c)))
                    \/ m.op = "CHAT" /\ A!Become(c, A!Taken(c))
                    \/ A!Throws(c, m, {"MOVE", "END", "CHAT"})
    BY <1>7 DEF A!CalculateMove
  <2>2. UNCHANGED open /\ agent[c].pc = "receive" /\ PlaysOn(c)
    BY <1>7, <1>12 DEF A!CalculateMove
  <2>3. CASE m.op = "MOVE" /\ A!Become(c, A!AfterMove(A!Taken(c), "think"))
    <3>1. agent'[c] = A!AfterMove(A!Taken(c), "think")
      BY <1>2, <2>3
    <3>2. /\ agent'[c].color = agent[c].color /\ agent'[c].pc \in Playing
          /\ agent'[c].taken = agent[c].taken + 1 /\ ~agent'[c].remote_game_ended
      BY <1>1, <2>2, <3>1 DEF A!AfterMove, A!Taken, ProgramType, Playing, PlaysOn
    <3>3. Reads(c, m)
      BY <1>4, <2>1, <2>2, <2>3, <3>2 DEF Reads
    <3> QED BY <2>2, <3>3
  <2>4. CASE m.op = "END" /\ A!Become(c, A!Reported(A!Taken(c)))
    <3>1. agent'[c] = A!Reported(A!Taken(c))
      BY <1>2, <2>4
    <3>2. /\ agent'[c].color = agent[c].color /\ agent'[c].pc = "ended"
          /\ agent'[c].taken = agent[c].taken + 1 /\ agent'[c].remote_game_ended
      BY <1>1, <3>1 DEF A!Reported, A!Taken, ProgramType
    <3>3. Reads(c, m)
      BY <1>4, <2>1, <2>2, <2>4, <3>2 DEF Reads
    <3> QED BY <2>2, <3>3
  <2>5. CASE m.op = "CHAT" /\ A!Become(c, A!Taken(c))
    <3>1. agent'[c] = A!Taken(c)
      BY <1>2, <2>5
    <3>2. /\ agent'[c].color = agent[c].color /\ agent'[c].pc \in Playing
          /\ agent'[c].taken = agent[c].taken + 1 /\ ~agent'[c].remote_game_ended
      BY <1>1, <2>2, <3>1 DEF A!Taken, ProgramType, Playing, PlaysOn
    <3>3. Reads(c, m)
      BY <1>4, <2>1, <2>2, <2>5, <3>2 DEF Reads
    <3> QED BY <2>2, <3>3
  <2>6. CASE A!Throws(c, m, {"MOVE", "END", "CHAT"})
    <3>1. FindsEnd(c) \/ Reads(c, m)
      BY <1>3, <2>1, <2>2, <2>6 DEF Reads
    <3> QED BY <2>2, <3>1
  <2> QED BY <2>1, <2>3, <2>4, <2>5, <2>6
<1>8. CASE A!GameEnded(c)
  <2>1. UNCHANGED open /\ agent[c].pc = "ended"
    BY <1>8 DEF A!GameEnded
  <2>2. CASE agent[c].remote_game_ended /\ A!Become(c, [agent[c] EXCEPT !.pc = "played"])
    <3>1. agent'[c] = [agent[c] EXCEPT !.pc = "played"]
      BY <1>2, <2>2
    <3>2. Returns(c)
      BY <1>1, <2>1, <2>2, <3>1 DEF Returns, ProgramType
    <3> QED BY <2>1, <3>2
  <2>3. CASE ~agent[c].remote_game_ended
    <3>1. PICK m : /\ A!Receive(c, m)
                   /\ \/ m.op = "END" /\ A!Become(c, [A!Taken(c) EXCEPT !.reports = @ + 1, !.pc = "played"])
                      \/ A!Throws(c, m, {"END"})
      BY <1>8, <2>3 DEF A!GameEnded
    <3>2. PlaysOn(c)
      BY <2>1, <2>3 DEF PlaysOn, Playing
    <3>3. CASE m.op = "END" /\ A!Become(c, [A!Taken(c) EXCEPT !.reports = @ + 1, !.pc = "played"])
      <4>1. agent'[c] = [A!Taken(c) EXCEPT !.reports = @ + 1, !.pc = "played"]
        BY <1>2, <3>3
      <4>2. /\ agent'[c].color = agent[c].color /\ agent'[c].pc = "played"
            /\ agent'[c].taken = agent[c].taken + 1 /\ ~agent'[c].remote_game_ended
        BY <1>1, <2>3, <4>1 DEF A!Taken, ProgramType
      <4>3. Reads(c, m)
        BY <1>4, <2>1, <3>1, <3>2, <3>3, <4>2 DEF Reads
      <4> QED BY <2>1, <4>3
    <3>4. CASE A!Throws(c, m, {"END"})
      <4>1. FindsEnd(c) \/ Reads(c, m)
        BY <1>3, <2>1, <3>1, <3>2, <3>4 DEF Reads
      <4> QED BY <2>1, <4>1
    <3> QED BY <3>1, <3>3, <3>4
  <2> QED BY <1>8, <2>2, <2>3 DEF A!GameEnded
<1>9. CASE A!Close(c)
  BY <1>9 DEF A!Close
<1>10. CASE A!Crash(c) /\ ~A!Play(c)
  <2>1. agent'[c] = [agent[c] EXCEPT !.pc = "crashed"]
    BY <1>2, <1>10 DEF A!Crash
  <2> QED BY <1>1, <1>10, <2>1 DEF ProgramType
<1>11. CASE A!Play(c)
  <2>1. \/ A!Connect(c) \/ A!Handshake(c) \/ A!Think(c) \/ A!SendOwnMove(c)
        \/ A!CalculateMove(c) \/ A!GameEnded(c) \/ A!Close(c)
    BY <1>11 DEF A!Play
  <2> QED BY <2>1, <1>5, <1>6, <1>7, <1>8, <1>9
<1> QED BY <1>10, <1>11

-----------------------------------------------------------------------------
(* No surprise: the steps of a session of two programs.                      *)

Served ==
    /\ [Next]_vars /\ Rules /\ \A c \in Client : Honest(c) /\ Patient(c)
    /\ UNCHANGED <<agent, posted, open, cast>>
Ran(c) ==
    /\ A!Play(c) \/ (A!Crash(c) /\ c \in cast.mortal)
    /\ UNCHANGED <<rooms, room, game, pc, frame, remained, sent, out, cast>>

\* A step of a session is one of the service, of one program, or none.
LEMMA Steps ==
    ASSUME TypeOK, TypeOK', SessionType, cast.program = Client, [SessionNext]_sessionVars
    PROVE  Served \/ (\E c \in Client : Ran(c)) \/ UNCHANGED sessionVars
<1>1. cast' = cast /\ [Next]_vars
  BY SessionStep
<1>2. CASE Serve(Next) /\ UNCHANGED <<agent, posted>>
  <2>1. \A c \in Client : open'[c] = open[c]
    BY <1>2 DEF Serve
  <2>2. open' = open
    BY <2>1 DEF TypeOK
  <2> QED BY <1>1, <1>2, <2>2 DEF Served, Serve
<1>3. ASSUME NEW c \in Client, A!Play(c) \/ (A!Crash(c) /\ c \in cast.mortal),
             UNCHANGED <<rooms, room, game, pc, frame, remained, sent>>
      PROVE  Ran(c)
  BY <1>1, <1>3, PlayEffect DEF Ran
<1> QED BY <1>2, <1>3, SessionStep

\* A program posts READY, moves and nothing else, and leaves only by closing.
LEMMA LettersKept ==
    ASSUME OneGame, Admin = {}, IndInv, TypeOK', GameInv, Letters, Served PROVE Letters'
<1>1. TypeOK /\ MeetInv /\ [Next]_vars /\ open' = open /\ \A c \in Client : Honest(c)
  BY DEF IndInv, GameInv, Served
<1> SUFFICES ASSUME NEW p \in Client
             PROVE  /\ ChatMsg \notin Got(p)'
                    /\ pc'[p] # "chat"
                    /\ pc'[p] = "move" => frame'[p].msg.op = "MOVE"
                    /\ pc'[p] = "resign" => ~open[p]
  BY <1>1 DEF Letters, ChatMsg
<1>2. \A to, m : Send(to, m) /\ m # ChatMsg => ChatMsg \notin Got(p)'
  <2> SUFFICES ASSUME NEW to, NEW m, Send(to, m), m # ChatMsg PROVE ChatMsg \notin Got(p)'
    OBVIOUS
  <2>1. CASE p \in to
    BY <1>1, <2>1, SentEffect DEF Letters
  <2>2. CASE p \notin to
    <3>1. out'[p] = out[p]
      BY <1>1, <2>2, SentEffect
    <3> QED BY <3>1 DEF Letters, Got
  <2> QED BY <2>1, <2>2
<1>3. \A k : ReadyMsg(k) # ChatMsg /\ ResignEnd(k) # ChatMsg
  BY DEF ReadyMsg, ResignEnd, ChatMsg
<1>4. RejectMsg # ChatMsg /\ MoveMsg # ChatMsg /\ GameEnd # ChatMsg
  BY DEF RejectMsg, ChatMsg, MoveMsg, GameEnd
<1>5. UNCHANGED out => ChatMsg \notin Got(p)'
  BY DEF Letters, Got, ChatMsg
<1>6. \A c \in Client : ~Chat(c)
  BY DEF Letters, Chat
<1>7. ChatMsg \notin Got(p)'
  BY <1>1, <1>2, <1>3, <1>4, <1>5, <1>6, Said
<1>8. CASE SpuriousWake(p) \/ Handler(p) \/ CleanUp(p)
  BY <1>1, <1>7, <1>8, Route, Spoken
<1>9. CASE frame'[p] = frame[p] /\ (pc'[p] = pc[p] \/ (pc[p] = "wait" /\ pc'[p] = "woken"))
  BY <1>1, <1>7, <1>9 DEF Letters
<1> QED BY <1>1, <1>8, <1>9, Alone

\* What the server sends comes after what has been read.
LEMMA ReadingServed ==
    ASSUME TypeOK, Boards, Reading, Served PROVE Reading'
<1>1. /\ [Next]_vars /\ open' = open /\ agent' = agent /\ cast' = cast /\ SessionType
  BY DEF Served, Boards
<1> SUFFICES ASSUME NEW p \in Client
             PROVE  /\ agent[p].pc \in Playing => open[p]
                    /\ PlaysOn(p) => \A i \in 1 .. agent[p].taken : out'[p][i].op # "END"
                    /\ agent[p].color # "NONE" => agent[p].taken >= 1 /\ out'[p][1] = ReadyMsg(agent[p].color)
                    /\ agent[p].pc = "played" \/ agent[p].remote_game_ended => \E m \in Got(p)' : m.op = "END"
                    /\ cast.mortal = {} /\ ~open[p] => agent[p].pc \in A!Over
  BY <1>1 DEF Reading, PlaysOn, Playing, A!Over, ReadyMsg
<1>2. Len(out[p]) \in Nat /\ agent[p].taken \in Nat /\ agent[p].taken <= Len(out[p])
  BY <1>1, BoardType DEF Boards, Board
<1>3. /\ \A i \in 1 .. agent[p].taken : out'[p][i] = out[p][i]
      /\ Got(p) \subseteq Got(p)'
  BY <1>1, <1>2, OutGrows
<1>4. agent[p].taken >= 1 => out'[p][1] = out[p][1]
  BY <1>2, <1>3
<1> QED BY <1>3, <1>4 DEF Reading

\* A program takes what is next: READY first, and END ends its game.
LEMMA ReadingRan ==
    ASSUME TypeOK, Boards, Reading, NEW c \in Client, Ran(c) PROVE Reading'
<1>1. /\ out' = out /\ cast' = cast /\ SessionType /\ Board(c)
      /\ A!Play(c) \/ A!Crash(c)
      /\ agent[c].taken \in Nat
  BY BoardType DEF Ran, Boards
<1>2. \A p \in Client \ {c} : agent'[p] = agent[p] /\ open'[p] = open[p]
  <2>1. \A p \in Client \ {c} : open'[p] = open[p]
    BY <1>1 DEF TypeOK, A!Play, A!Crash, A!Connect, A!Handshake, A!Think, A!SendOwnMove, A!CalculateMove,
                A!GameEnded, A!Close
  <2> QED BY <1>1, <2>1, PlayEffect
<1>3. \A p \in Client : Got(p)' = Got(p)
  BY <1>1 DEF Got
<1> DEFINE Line(p) ==
             /\ agent[p].pc \in Playing => open[p]
             /\ PlaysOn(p) => \A i \in 1 .. agent[p].taken : out[p][i].op # "END"
             /\ agent[p].color # "NONE" => agent[p].taken >= 1 /\ out[p][1] = ReadyMsg(agent[p].color)
             /\ agent[p].pc = "played" \/ agent[p].remote_game_ended => \E m \in Got(p) : m.op = "END"
             /\ cast.mortal = {} /\ ~open[p] => agent[p].pc \in A!Over
           After(p) ==
             /\ agent'[p].pc \in Playing => open'[p]
             /\ PlaysOn(p)' => \A i \in 1 .. agent'[p].taken : out[p][i].op # "END"
             /\ agent'[p].color # "NONE" => agent'[p].taken >= 1 /\ out[p][1] = ReadyMsg(agent'[p].color)
             /\ agent'[p].pc = "played" \/ agent'[p].remote_game_ended => \E m \in Got(p) : m.op = "END"
             /\ cast.mortal = {} /\ ~open'[p] => agent'[p].pc \in A!Over
<1> SUFFICES ASSUME NEW p \in Client PROVE After(p)
  BY <1>1, <1>3 DEF Reading, Playing, A!Over, ReadyMsg
<1>11. PlaysOn(p)' <=> agent'[p].pc \in Playing /\ ~agent'[p].remote_game_ended
  BY DEF PlaysOn, Playing
<1>4. Line(p) /\ Line(c)
  BY DEF Reading
<1>5. CASE p # c
  <2>1. agent'[p] = agent[p] /\ open'[p] = open[p]
    BY <1>2, <1>5
  <2> QED BY <1>4, <1>11, <2>1 DEF PlaysOn
<1>6. CASE agent' = agent /\ agent[c].pc \in A!Over /\ p = c
  <2>1. agent[c].pc \notin Playing
    BY <1>6 DEF Playing, A!Over, A!Failed
  <2> QED BY <1>4, <1>6, <1>11, <2>1
<1>7. CASE /\ ~A!Play(c) /\ agent'[c].pc = "crashed" /\ p = c
           /\ agent'[c].taken = agent[c].taken /\ agent'[c].color = agent[c].color
           /\ agent'[c].remote_game_ended = agent[c].remote_game_ended
  <2>1. cast.mortal # {}
    BY <1>7 DEF Ran
  <2> QED BY <1>4, <1>7, <1>11, <2>1 DEF Playing
<1>8. CASE UNCHANGED open /\ p = c /\ GoesOn(c)
  BY <1>4, <1>8, <1>11 DEF GoesOn, Playing, PlaysOn, A!Over
<1>9. CASE UNCHANGED open /\ p = c /\ FindsEnd(c)
  BY <1>4, <1>9, <1>11 DEF FindsEnd, Playing, A!Over, A!Failed
<1>12. CASE UNCHANGED open /\ p = c /\ Returns(c)
  BY <1>4, <1>11, <1>12 DEF Returns, Playing, A!Over, A!Failed
<1>10. ASSUME UNCHANGED open, p = c, NEW m, Reads(c, m) PROVE After(p)
  <2>1. m \in Got(c) /\ open'[c] /\ agent[c].pc \in Playing
    BY <1>4, <1>10 DEF Reads, Got, Playing, TypeOK
  <2>2. PlaysOn(c)' => \A i \in 1 .. agent'[c].taken : out[c][i].op # "END"
    <3> SUFFICES ASSUME agent'[c].pc \in Playing, ~agent'[c].remote_game_ended, NEW i \in 1 .. agent'[c].taken
                 PROVE  out[c][i].op # "END"
      BY <1>10, <1>11
    <3>1. m.op # "END"
      BY <1>10 DEF Reads, Playing
    <3> QED BY <1>1, <1>4, <1>10, <2>1, <3>1 DEF Reads
  <2>3. agent'[c].color # "NONE" => agent'[c].taken >= 1 /\ out[c][1] = ReadyMsg(agent'[c].color)
    <3>1. CASE agent'[c].color = agent[c].color
      BY <1>1, <1>4, <1>10, <3>1 DEF Reads
    <3>2. CASE agent[c].pc = "handshake" /\ m.op = "READY" /\ agent'[c].color = m.color
      <4>1. agent[c].taken = 0
        BY <1>1, <3>2 DEF Board
      <4>2. m = ReadyMsg(m.color)
        BY <1>10, <3>2 DEF Reads, Answer, ReadyMsg, RejectMsg, MoveMsg, ChatMsg, GameEnd
      <4> QED BY <1>10, <3>2, <4>1, <4>2 DEF Reads
    <3> QED BY <1>10, <3>1, <3>2 DEF Reads
  <2>4. agent'[c].pc = "played" \/ agent'[c].remote_game_ended => m.op = "END"
    BY <1>10 DEF Reads, Playing
  <2> QED BY <1>10, <2>1, <2>2, <2>3, <2>4
<1> QED BY <1>1, <1>5, <1>6, <1>7, <1>8, <1>9, <1>10, <1>12, ProgramStep

-----------------------------------------------------------------------------
(* No surprise: until a game is started.                                     *)

\* A REJECT is told by the last one on its way, which starts no game.
LEMMA RejectsLate ==
    ASSUME OneGame, Admin = {}, IndInv, IndInv', GameInv, Meetings, [Next]_vars,
           NEW p \in Client, RejectMsg \in Got(p)'
    PROVE  (\A q \in Client : Dismissed(q)') /\ \A r \in Room : ~Seated(r)'
<1>1. TypeOK /\ MeetInv
  BY DEF IndInv, GameInv
<1>2. ASSUME NEW t, Steady(t)
      PROVE  /\ \A q \in Client : Past(q) => Past(q)'
             /\ \A r \in Room : Seated(r)' = Seated(r)
             /\ \A q \in Client : sent[q] # 0 => sent'[q] # 0
  BY <1>1, <1>2, StaysPast, RoomsStay, Threads DEF Steady, Keeps
<1>3. CASE RejectMsg \in Got(p)
  <2>1. (\A q \in Client : Dismissed(q)) /\ \A r \in Room : ~Seated(r)
    BY <1>3 DEF Meetings
  <2>2. \E t : Steady(t)
    <3> SUFFICES ASSUME NEW c \in Client, ~Past(c),
                        \/ \E m \in Input(RoomId) : \E r \in Room : ComesIn(c, m, r)
                        \/ WaitingIfIsFirst(c)
                        \/ StartRoom(c)
                 PROVE  FALSE
      BY <1>1, Comings
    <3>1. pc[c] = "rejected"
      BY <2>1 DEF Dismissed
    <3>2. ~Fresh(c)
      BY <1>1, <3>1 DEF MeetInv, Newcomers
    <3> QED BY <3>1, <3>2 DEF ComesIn, WaitingIfIsFirst, StartRoom
  <2>3. ASSUME NEW q \in Client, pc[q] = "rejected" PROVE Dismissed(q)'
    <3>1. pc'[q] \in {"rejected", "conflict", "exit"}
      BY <1>1, <2>3, Alone, Route
    <3>2. sent[q] # 0
      BY <1>1, <2>3, HasSent
    <3> QED BY <1>2, <2>2, <3>1, <3>2 DEF Dismissed, Past, Fresh
  <2> QED BY <1>2, <2>1, <2>2, <2>3 DEF Dismissed
<1>4. CASE RejectMsg \notin Got(p)
  <2>1. PICK c \in Client : /\ SecondPlayer(c) \/ ColorConflict(c)
                            /\ \E l \in {"idle", "exit", "rejected", "conflict"} : Goto(c, l)
    <3>1. \A to, m : Send(to, m) => m = RejectMsg
      <4> SUFFICES ASSUME NEW to, NEW m, Send(to, m) PROVE m = RejectMsg
        OBVIOUS
      <4>1. CASE p \in to
        BY <1>1, <1>4, <4>1, SentEffect
      <4>2. CASE p \notin to
        <5>1. out'[p] = out[p]
          BY <1>1, <4>2, SentEffect
        <5> QED BY <1>4, <5>1 DEF Got, RejectMsg
      <4> QED BY <4>1, <4>2
    <3>2. out' # out
      BY <1>4 DEF Got, RejectMsg
    <3>3. \A k : ReadyMsg(k) # RejectMsg /\ ResignEnd(k) # RejectMsg
      BY DEF ReadyMsg, ResignEnd, RejectMsg
    <3>4. MoveMsg # RejectMsg /\ GameEnd # RejectMsg
      BY DEF RejectMsg, MoveMsg, GameEnd
    <3>5. ChatMsg # RejectMsg
      BY DEF ChatMsg, RejectMsg
    <3> QED BY <3>1, <3>2, <3>3, <3>4, <3>5, Said
  <2>2. pc[c] \in {"second", "pair", "rejected"} /\ UNCHANGED sent /\ Steady(c)
    BY <1>1, <2>1, SecondPlayerSteady, ColorConflictSteady DEF SecondPlayer, ColorConflict, Reject
  <2>3. (\A q \in Client \ {c} : Past(q)) /\ ~Past(c)
    BY <1>1, <2>2 DEF MeetInv, Waited, Past
  <2>4. \A r \in Room : ~Seated(r)
    BY <1>1, <2>3 DEF MeetInv, Waited
  <2>5. Dismissed(c)'
    <3>1. pc'[c] \in {"idle", "exit", "rejected", "conflict"}
      BY <1>1, <2>1, GotoEffect, Threads
    <3>2. sent[c] # 0
      BY <1>1, <2>2, HasSent
    <3> QED BY <2>2, <3>1, <3>2 DEF Dismissed, Past, Fresh
  <2> QED BY <1>2, <2>2, <2>3, <2>4, <2>5 DEF Dismissed
<1> QED BY <1>3, <1>4

\* Whoever sleeps in a room that stays WAITING goes on sleeping there.
LEMMA StillWaits ==
    ASSUME OneGame, Admin = {}, IndInv, MeetInv, [Next]_vars, NEW p \in Client,
           pc[p] \in {"wait", "woken"}, Status(p) = "WAITING"
    PROVE  pc'[p] \in {"wait", "woken"} /\ At(p)' = At(p)
BY Alone, Route DEF IndInv, At

\* The steps of the service before a game.
LEMMA MeetingsServed ==
    ASSUME OneGame, Admin = {}, IndInv, IndInv', GameInv, Meetings, Served PROVE Meetings'
<1>1. TypeOK /\ InRoom /\ MeetInv /\ [Next]_vars /\ agent' = agent
  BY DEF IndInv, GameInv, Served
<1>2. \A p \in Client : RejectMsg \in Got(p)' =>
          (\A q \in Client : Dismissed(q)') /\ \A r \in Room : ~Seated(r)'
  BY <1>1, RejectsLate
<1>3. ASSUME NEW r \in Room, room'[r].status = "WAITING"
      PROVE  \E p \in Client : pc'[p] \in {"wait", "woken"} /\ At(p)' = r
  <2>1. CASE room[r].status = "WAITING"
    <3>1. PICK p \in Client : pc[p] \in {"wait", "woken"} /\ At(p) = r
      BY <2>1 DEF Meetings
    <3>2. pc'[p] \in {"wait", "woken"} /\ At(p)' = r
      BY <1>1, <2>1, <3>1, StillWaits DEF Status
    <3> QED BY <3>2
  <2>2. CASE room[r].status # "WAITING"
    <3>1. PICK c \in Client : \/ \E m \in Input(RoomId) : \E q \in Room : ComesIn(c, m, q)
                              \/ WaitingIfIsFirst(c)
                              \/ StartRoom(c)
      <4>1. ~\E t : Steady(t)
        BY <1>3, <2>2 DEF Steady, Keeps
      <4> QED BY <1>1, <4>1, Comings
    <3>2. ~(\E m \in Input(RoomId) : \E q \in Room : ComesIn(c, m, q))
      <4> SUFFICES ASSUME NEW m, NEW q \in Room, GetOrCreateRoom(c, m, q) PROVE FALSE
        BY DEF ComesIn
      <4>1. NewRoom(m.id, c, m.color).status = "EMPTY"
        BY DEF NewRoom
      <4>2. room' = room \/ room' = [room EXCEPT ![q] = NewRoom(m.id, c, m.color)]
        BY DEF GetOrCreateRoom
      <4> QED BY <1>1, <1>3, <2>2, <4>1, <4>2 DEF TypeOK
    <3>3. ~StartRoom(c)
      <4> SUFFICES ASSUME StartRoom(c) PROVE FALSE
        OBVIOUS
      <4>1. PICK k : room' = [room EXCEPT ![At(c)].second = c, ![At(c)].color = k, ![At(c)].status = "PLAYING"]
        BY DEF StartRoom
      <4>2. At(c) \in Room
        BY <1>1, Threads DEF StartRoom, InRoom
      <4> QED BY <1>1, <1>3, <2>2, <4>1, <4>2 DEF TypeOK, RoomType
    <3>4. WaitingIfIsFirst(c) /\ At(c) \in Room
      BY <1>1, <3>1, <3>2, <3>3, Threads DEF WaitingIfIsFirst, InRoom
    <3>5. Goto(c, "wait") /\ SetStatus(c, "WAITING") /\ UNCHANGED frame
      BY <1>3, <2>2, <3>4 DEF WaitingIfIsFirst
    <3>6. At(c) = r
      BY <1>1, <1>3, <2>2, <3>4, <3>5 DEF SetStatus, TypeOK, RoomType
    <3>7. pc'[c] = "wait" /\ At(c)' = r
      BY <1>1, <3>5, <3>6, GotoEffect, Threads DEF At
    <3> QED BY <3>7
  <2> QED BY <2>1, <2>2
<1>4. ASSUME \A r \in Room : ~Seated(r)', NEW p \in Client, agent[p].pc \in A!Failed
      PROVE  pc'[p] = "exit" \/ RejectMsg \in Got(p)'
  <2>1. \A r \in Room : ~Seated(r)
    <3>1. ASSUME NEW r \in Room, Seated(r) PROVE FALSE
      <4>1. \A q \in Client : Past(q)
        BY <1>1, <3>1 DEF MeetInv, Waited
      <4> QED BY <1>1, <1>4, <3>1, <4>1, Settles
    <3> QED BY <3>1
  <2>2. pc[p] = "exit" \/ RejectMsg \in Got(p)
    BY <1>4, <2>1 DEF Meetings
  <2>3. pc[p] = "exit" => pc'[p] = "exit"
    BY <1>1, Alone, Route
  <2>4. Got(p) \subseteq Got(p)'
    BY <1>1, OutGrows
  <2> QED BY <2>2, <2>3, <2>4
<1> QED BY <1>1, <1>2, <1>3, <1>4 DEF Meetings, RejectMsg, A!Failed

\* The steps of a program before a game.
LEMMA MeetingsRan ==
    ASSUME TypeOK, GameInv, Boards, Meetings, NEW c \in Client, Ran(c) PROVE Meetings'
<1>1. /\ out' = out /\ SessionType /\ Board(c) /\ (A!Play(c) \/ A!Crash(c))
      /\ UNCHANGED <<rooms, room, game, pc, frame, remained, sent, out>>
  BY DEF Ran, Boards
<1>2. /\ \A p \in Client : Got(p)' = Got(p) /\ Dismissed(p)' = Dismissed(p) /\ At(p)' = At(p)
      /\ \A r \in Room : Seated(r)' = Seated(r)
  BY <1>1 DEF Got, Dismissed, Past, Fresh, Seated, At
<1>3. ASSUME \A r \in Room : ~Seated(r), NEW p \in Client, agent'[p].pc \in A!Failed
      PROVE  pc[p] = "exit" \/ RejectMsg \in Got(p)
  <2>1. CASE agent'[p] = agent[p]
    BY <1>3, <2>1 DEF Meetings
  <2>2. CASE agent'[p] # agent[p] /\ p = c
    <3>1. CASE FindsEnd(c)
      BY <2>2, <3>1 DEF FindsEnd
    <3>2. ASSUME NEW m, Reads(c, m) PROVE RejectMsg \in Got(c)
      <4>1. m \in Got(c)
        BY <3>2 DEF Reads, Got, TypeOK
      <4>2. m = RejectMsg
        BY <1>3, <4>1 DEF GameInv, ToldInv, Silence
      <4> QED BY <4>1, <4>2
    <3>3. agent'[c].pc \notin Playing /\ agent'[c].pc \notin {"crashed", "played"}
      BY <1>3, <2>2 DEF Playing, A!Failed
    <3> QED BY <1>1, <2>2, <3>1, <3>2, <3>3, ProgramStep DEF GoesOn, Returns
  <2>3. p # c => agent'[p] = agent[p]
    BY <1>1, PlayEffect
  <2> QED BY <2>1, <2>2, <2>3
<1>4. \A p \in Client : RejectMsg \in Got(p)' =>
          (\A q \in Client : Dismissed(q)') /\ \A r \in Room : ~Seated(r)'
  BY <1>2 DEF Meetings, RejectMsg
<1>5. \A r \in Room : room'[r].status = "WAITING" =>
          \E p \in Client : pc'[p] \in {"wait", "woken"} /\ At(p)' = r
  BY <1>1, <1>2 DEF Meetings
<1>6. (\A r \in Room : ~Seated(r)') => \A p \in Client :
          agent'[p].pc \in A!Failed => pc'[p] = "exit" \/ RejectMsg \in Got(p)'
  BY <1>1, <1>2, <1>3
<1> QED BY <1>4, <1>5, <1>6 DEF Meetings, RejectMsg, A!Failed

-----------------------------------------------------------------------------
(* No surprise: counting the moves.                                          *)

\* The two players of a game, and all that is known of how often they have moved.
LEMMA Sides ==
    ASSUME OneGame, IndInv, GameInv, Hands, Boards, cast.program = Client,
           NEW r \in Room, Paired(r)
    PROVE  \E b \in Client, w \in Client :
             /\ Client = {b, w} /\ Peer(r, b) = w /\ Peer(r, w) = b
             /\ Made(r) = Count(b, MoveMsg) + Count(w, MoveMsg)
             /\ \A p \in Client : /\ Own(p) \in Nat /\ Theirs(p) \in Nat /\ Count(p, MoveMsg) \in Nat
                                  /\ Theirs(p) <= Count(p, MoveMsg)
                                  /\ Count(p, MoveMsg) <= Own(Peer(r, p))
                                  /\ agent[p].moves = Own(p) + Theirs(p)
                                  /\ agent[p].moves <= cast.length
                                  /\ sent[p] \in Nat /\ sent[p] - 1 <= Own(p)
             /\ Own(b) - Theirs(b) \in {0, 1}
             /\ Own(w) - Theirs(w) \in {-1, 0}
             /\ Count(w, MoveMsg) - Count(b, MoveMsg) \in {0, 1}
             /\ cast.length \in Nat
<1>0. TypeOK /\ SessionType /\ MeetInv /\ SeatInv /\ ToldInv /\ cast.length \in Nat
  BY SessionConstants DEF IndInv, GameInv, Boards, SessionType
<1>1. \A p \in Client :
        /\ Own(p) \in Nat /\ Theirs(p) \in Nat /\ Count(p, MoveMsg) \in Nat
        /\ Theirs(p) <= Count(p, MoveMsg)
        /\ Count(p, MoveMsg) <= Own(Peer(r, p))
        /\ agent[p].moves = Own(p) + Theirs(p)
        /\ agent[p].moves <= cast.length
  BY <1>0, Relayed, Apart, Counted DEF Boards, Board
<1>2. \A p \in Client : sent[p] \in Nat /\ sent[p] - 1 <= Own(p)
  <2> SUFFICES ASSUME NEW p \in Client PROVE sent[p] \in Nat /\ sent[p] - 1 <= Own(p)
    OBVIOUS
  <2>1. sent[p] \in Nat /\ posted[p] \in Nat /\ sent[p] <= posted[p]
    BY <1>0 DEF TypeOK, Boards, SessionType
  <2>2. Bit(agent[p].own) \in {0, 1}
    BY DEF Bit
  <2>3. CASE posted[p] = 0
    BY <1>1, <2>1, <2>3
  <2>4. CASE posted[p] # 0
    <3>1. Own(p) = posted[p] - 1 + Bit(agent[p].own)
      BY <2>4 DEF Own
    <3> QED BY <2>1, <2>2, <3>1
  <2> QED BY <2>3, <2>4
<1>3. PICK b \in Client, w \in Client :
        /\ Seat(r, b) = "BLACK" /\ Seat(r, w) = "WHITE" /\ Peer(r, b) = w /\ Peer(r, w) = b
        /\ Client = {b, w}
        /\ Made(r) = Count(b, MoveMsg) + Count(w, MoveMsg)
  <2>1. /\ room[r].first \in Client /\ room[r].second \in Client
        /\ Client = {room[r].first, room[r].second}
        /\ Peer(r, room[r].first) = room[r].second /\ Peer(r, room[r].second) = room[r].first
        /\ Seat(r, room[r].first) \in Color
        /\ Seat(r, room[r].second) = Reverse(Seat(r, room[r].first))
    BY <1>0, Opponents DEF Peer
  <2>2. Count(room[r].first, MoveMsg) \in Nat /\ Count(room[r].second, MoveMsg) \in Nat
    BY <1>1, <2>1
  <2>3. CASE Seat(r, room[r].first) = "BLACK"
    BY <2>1, <2>3 DEF Made, Reverse
  <2>4. CASE Seat(r, room[r].first) = "WHITE"
    BY <2>1, <2>2, <2>4 DEF Made, Reverse
  <2> QED BY <2>1, <2>3, <2>4 DEF Color
<1>4. Own(b) - Theirs(b) \in {0, 1} /\ Own(w) - Theirs(w) \in {-1, 0}
  <2>1. LET e == Lead(Seat(r, b)) IN Own(b) - Theirs(b) \in {e, e + 1}
    BY Apart
  <2>2. LET e == Lead(Seat(r, w)) IN Own(w) - Theirs(w) \in {e, e + 1}
    BY Apart
  <2> QED BY <1>3, <2>1, <2>2, Leads
<1>5. Count(w, MoveMsg) - Count(b, MoveMsg) \in {0, 1}
  BY <1>0, <1>3 DEF ToldInv, Turns, Ahead
<1> QED BY <1>0, <1>1, <1>2, <1>3, <1>4, <1>5

\* A handler that has a move for the daemon has one that the daemon waits for: the game
\* is not over, and it has not stopped short of another move.
LEMMA MoveInHand ==
    ASSUME OneGame, IndInv, GameInv, Hands, Boards, cast.program = Client,
           NEW r \in Room, Paired(r), NEW p \in Client, pc[p] = "move"
    PROVE  Made(r) # cast.length /\ \A q \in Client : ~Untold(r, q)
<1>1. PICK b \in Client, w \in Client :
             /\ Client = {b, w} /\ Peer(r, b) = w /\ Peer(r, w) = b
             /\ Made(r) = Count(b, MoveMsg) + Count(w, MoveMsg)
             /\ \A x \in Client : /\ Own(x) \in Nat /\ Theirs(x) \in Nat /\ Count(x, MoveMsg) \in Nat
                                  /\ Theirs(x) <= Count(x, MoveMsg)
                                  /\ Count(x, MoveMsg) <= Own(Peer(r, x))
                                  /\ agent[x].moves = Own(x) + Theirs(x)
                                  /\ agent[x].moves <= cast.length
                                  /\ sent[x] \in Nat /\ sent[x] - 1 <= Own(x)
             /\ Own(b) - Theirs(b) \in {0, 1}
             /\ Own(w) - Theirs(w) \in {-1, 0}
             /\ Count(w, MoveMsg) - Count(b, MoveMsg) \in {0, 1}
             /\ cast.length \in Nat
  BY Sides
<1>2. \A x \in Client : pc[x] = "move" => Count(Peer(r, x), MoveMsg) + 1 <= Own(x)
  <2> SUFFICES ASSUME NEW x \in Client, pc[x] = "move" PROVE Count(Peer(r, x), MoveMsg) + 1 <= Own(x)
    OBVIOUS
  <2>1. InHand(r, x) <= sent[x] - 1
    BY DEF Hands
  <2>2. Bit(game[r].daemon = Moved(Seat(r, x))) \in {0, 1} /\ Bit(pc[x] = "move") = 1
    BY DEF Bit
  <2>3. Count(Peer(r, x), MoveMsg) \in Nat /\ Own(x) \in Nat /\ sent[x] \in Nat /\ sent[x] - 1 <= Own(x)
    BY <1>1
  <2> QED BY <2>1, <2>2, <2>3 DEF InHand
<1>3. \A x \in Client : Untold(r, x) =>
          Count(Peer(r, x), MoveMsg) + 1 + Bit(pc[x] = "move") <= Own(x)
  <2> SUFFICES ASSUME NEW x \in Client, Untold(r, x)
               PROVE  Count(Peer(r, x), MoveMsg) + 1 + Bit(pc[x] = "move") <= Own(x)
    OBVIOUS
  <2>1. Bit(pc[x] = "move") \in {0, 1}
    BY DEF Bit
  <2>2. Count(Peer(r, x), MoveMsg) \in Nat /\ Own(x) \in Nat /\ sent[x] \in Nat /\ sent[x] - 1 <= Own(x)
    BY <1>1
  <2> QED BY <2>1, <2>2 DEF Untold
<1>4. Bit(pc[p] = "move") = 1 /\ \A x \in Client : Bit(pc[x] = "move") \in {0, 1}
  BY DEF Bit
<1>5. Made(r) # cast.length
  <2>1. CASE p = b
    BY <1>1, <1>2, <2>1
  <2>2. CASE p = w
    BY <1>1, <1>2, <2>2
  <2> QED BY <1>1, <2>1, <2>2
<1>6. ASSUME NEW q \in Client, Untold(r, q) PROVE FALSE
  <2>1. CASE p = b /\ q = b
    BY <1>1, <1>3, <1>4, <1>6, <2>1
  <2>2. CASE p = w /\ q = w
    BY <1>1, <1>3, <1>4, <1>6, <2>2
  <2>3. CASE p = b /\ q = w
    BY <1>1, <1>2, <1>3, <1>4, <1>6, <2>3
  <2>4. CASE p = w /\ q = b
    BY <1>1, <1>2, <1>3, <1>4, <1>6, <2>4
  <2> QED BY <1>1, <2>1, <2>2, <2>3, <2>4
<1> QED BY <1>5, <1>6

\* A program whose board is full has had all the moves that it will be told.
LEMMA NoMoveLeft ==
    ASSUME OneGame, IndInv, GameInv, Hands, Boards, cast.program = Client,
           NEW r \in Room, Paired(r), NEW p \in Client, agent[p].pc = "ended",
           ~agent[p].remote_game_ended, agent[p].taken + 1 \in 1 .. Len(out[p])
    PROVE  out[p][agent[p].taken + 1] # MoveMsg
<1> SUFFICES ASSUME out[p][agent[p].taken + 1] = MoveMsg PROVE FALSE
  OBVIOUS
<1>0. /\ TypeOK /\ SessionType /\ Board(p)
      /\ agent[p].taken \in Nat /\ Heard(p) \in Nat
  BY BoardType DEF IndInv, Boards
<1>1. PICK b \in Client, w \in Client :
             /\ Client = {b, w} /\ Peer(r, b) = w /\ Peer(r, w) = b
             /\ Made(r) = Count(b, MoveMsg) + Count(w, MoveMsg)
             /\ \A x \in Client : /\ Own(x) \in Nat /\ Theirs(x) \in Nat /\ Count(x, MoveMsg) \in Nat
                                  /\ Theirs(x) <= Count(x, MoveMsg)
                                  /\ Count(x, MoveMsg) <= Own(Peer(r, x))
                                  /\ agent[x].moves = Own(x) + Theirs(x)
                                  /\ agent[x].moves <= cast.length
                                  /\ sent[x] \in Nat /\ sent[x] - 1 <= Own(x)
             /\ Own(b) - Theirs(b) \in {0, 1}
             /\ Own(w) - Theirs(w) \in {-1, 0}
             /\ Count(w, MoveMsg) - Count(b, MoveMsg) \in {0, 1}
             /\ cast.length \in Nat
  BY Sides
<1>2. Theirs(p) = Heard(p) /\ agent[p].moves = cast.length
  BY <1>0 DEF Board, Playing
<1>3. Heard(p) + 1 <= Count(p, MoveMsg)
  <2> DEFINE S == {i \in 1 .. agent[p].taken : out[p][i] = MoveMsg}
             T == {i \in DOMAIN out[p] : out[p][i] = MoveMsg}
             n == agent[p].taken + 1
  <2>1. S \cup {n} \subseteq T /\ n \notin S
    BY <1>0 DEF TypeOK
  <2>2. IsFiniteSet(T) /\ IsFiniteSet(S)
    <3>1. IsFiniteSet(T)
      BY <1>0, Counted
    <3>2. S \in SUBSET T
      BY <2>1
    <3> HIDE DEF S, T
    <3> QED BY <3>1, <3>2, FS_Subset
  <2>3. Cardinality(S \cup {n}) = Cardinality(S) + 1
    BY <2>1, <2>2, FS_AddElement
  <2>4. Cardinality(S \cup {n}) <= Cardinality(T)
    BY <2>1, <2>2, FS_Subset
  <2> QED BY <2>3, <2>4 DEF Heard, Count
<1>4. /\ Own(b) \in Nat /\ Theirs(b) \in Nat /\ Own(w) \in Nat /\ Theirs(w) \in Nat
      /\ Own(b) - Theirs(b) \in {0, 1} /\ Own(w) - Theirs(w) \in {-1, 0}
  BY <1>1
<1>5. CASE p = b
  <2>1. /\ Theirs(b) + 1 <= Own(w) /\ Own(b) + Theirs(b) = cast.length
        /\ Own(w) + Theirs(w) <= cast.length
    BY <1>0, <1>1, <1>2, <1>3, <1>5
  <2> QED BY <1>4, <2>1
<1>6. CASE p = w
  <2>1. /\ Theirs(w) + 1 <= Own(b) /\ Own(w) + Theirs(w) = cast.length
        /\ Own(b) + Theirs(b) <= cast.length
    BY <1>0, <1>1, <1>2, <1>3, <1>6
  <2> QED BY <1>4, <2>1
<1> QED BY <1>1, <1>5, <1>6

-----------------------------------------------------------------------------
(* No surprise: once a game is started.                                      *)

\* What is proved of two programs before.
Facts == IndInv /\ GameInv /\ JoinInv /\ Hands /\ Boards
Known == Facts /\ cast.program = Client

\* A game that was started stays the only one, between the same two players.
LEMMA GameStays ==
    ASSUME OneGame, Known, [Next]_vars, NEW r \in Room, Paired(r)
    PROVE  /\ Seated(r) /\ \A q \in Room : (Seated(q) \/ Paired(q)) => q = r
           /\ \A q \in Room : Paired(q)' = Paired(q)
           /\ \A p \in Client : Past(p) /\ AtOrOut(p, r)
           /\ \A p \in Client : Peer(r, p)' = Peer(r, p) /\ Seat(r, p)' = Seat(r, p)
           /\ room'[r].first = room[r].first /\ room'[r].second = room[r].second
           /\ room'[r].status = "PLAYING" => room[r].status = "PLAYING"
<1>1. MeetInv /\ SeatInv /\ IndInv
  BY DEF Known, Facts, GameInv
<1>2. Seated(r)
  BY <1>1, Opponents
<1>3. \A q \in Room : Paired(q) => Seated(q)
  BY DEF Paired, Seated
<1>4. \A q \in Room : Seated(q) => q = r
  BY <1>1, <1>2 DEF MeetInv, Single
<1>5. \A p \in Client : Past(p) /\ AtOrOut(p, r)
  BY <1>1, <1>2 DEF MeetInv, Waited
<1>6. PICK t : Steady(t)
  BY <1>1, <1>5, Settles
<1>7. Keeps(t)
  BY <1>6 DEF Steady
<1>8. /\ room'[r].first = room[r].first /\ room'[r].second = room[r].second
      /\ room'[r].status = "PLAYING" => room[r].status = "PLAYING"
  BY <1>7 DEF Keeps
<1>9. /\ \A q \in Room : Paired(q)' = Paired(q)
      /\ \A p : Peer(r, p)' = Peer(r, p) /\ Seat(r, p)' = Seat(r, p)
  BY <1>7, RoomsStay
<1> QED BY <1>2, <1>3, <1>4, <1>5, <1>8, <1>9

\* Nobody goes back to where READY is still to be told.
LEMMA UnreadyBefore ==
    ASSUME OneGame, Admin = {}, Known, [Next]_vars, SomePair, NEW p \in Client, pc'[p] \in Unready
    PROVE  pc[p] \in Unready
<1>1. IndInv /\ MeetInv /\ TypeOK /\ p \in Thread
  BY Threads DEF Known, Facts, GameInv, IndInv
<1>2. PICK t : Steady(t)
  <2>1. \A q \in Client : Past(q)
    BY GameStays DEF SomePair
  <2> QED BY <1>1, <2>1, Comings
<1>3. CASE pc'[p] \in {"wait", "woken", "seat1", "seat2"}
  <2>1. CASE p = t
    BY <1>2, <1>3, <2>1 DEF Steady, Calm, Unready
  <2>2. CASE p # t
    BY <1>1, <1>2, <1>3, <2>2 DEF Steady, Others, Unready
  <2> QED BY <2>1, <2>2
<1>4. CASE pc'[p] \in {"check", "ready"}
  BY <1>1, <1>4, Alone, Route DEF Unready, Seating
<1> QED BY <1>3, <1>4 DEF Unready

\* READY is told by SendReady, which a handler passes once.
LEMMA ReadyOnceServed ==
    ASSUME OneGame, Admin = {}, Known, TypeOK', SomePair, ReadyOnce, Letters, Served PROVE ReadyOnce'
<1>1. TypeOK /\ [Next]_vars /\ \A c \in Client : Honest(c)
  BY DEF Known, Facts, IndInv, Served
<1> SUFFICES ASSUME NEW p \in Client
             PROVE  /\ pc'[p] \in Unready => \A m \in Got(p)' : m.op # "READY"
                    /\ \A i, j \in DOMAIN out'[p] :
                          out'[p][i].op = "READY" /\ out'[p][j].op = "READY" => i = j
  BY DEF ReadyOnce, Unready
<1>2. /\ pc[p] \in Unready => \A m \in Got(p) : m.op # "READY"
      /\ \A i, j \in DOMAIN out[p] : out[p][i].op = "READY" /\ out[p][j].op = "READY" => i = j
  BY DEF ReadyOnce
<1>3. pc'[p] \in Unready => pc[p] \in Unready
  BY <1>1, UnreadyBefore
<1>4. CASE out'[p] = out[p]
  BY <1>2, <1>3, <1>4 DEF Got
<1>5. ASSUME NEW m, m.op # "READY", out'[p] = Append(out[p], m)
      PROVE  /\ \A x \in Got(p)' : x \in Got(p) \/ x = m
             /\ \A i, j \in DOMAIN out'[p] :
                          out'[p][i].op = "READY" /\ out'[p][j].op = "READY" => i = j
  BY <1>1, <1>2, <1>5 DEF TypeOK, Got
<1>6. ASSUME NEW to, NEW m, m.op # "READY", Send(to, m)
      PROVE  /\ pc'[p] \in Unready => \A x \in Got(p)' : x.op # "READY"
             /\ \A i, j \in DOMAIN out'[p] :
                          out'[p][i].op = "READY" /\ out'[p][j].op = "READY" => i = j
  <2>1. CASE p \notin to
    BY <1>4, <1>6, <2>1 DEF Send
  <2>2. CASE p \in to
    BY <1>2, <1>3, <1>5, <1>6, <2>2 DEF Send
  <2> QED BY <2>1, <2>2
<1>7. ASSUME NEW c \in Client, SendReady(c), Goto(c, "listen"), Send({c}, ReadyMsg(frame[c].color))
      PROVE  /\ pc'[p] \in Unready => \A x \in Got(p)' : x.op # "READY"
             /\ \A i, j \in DOMAIN out'[p] :
                          out'[p][i].op = "READY" /\ out'[p][j].op = "READY" => i = j
  <2>1. CASE p # c
    BY <1>4, <1>7, <2>1 DEF Send
  <2>2. CASE p = c
    <3>1. pc[p] = "ready" /\ pc'[p] = "listen"
      BY <1>1, <1>7, <2>2, GotoEffect, Threads DEF SendReady
    <3>2. \A i \in DOMAIN out[p] : out[p][i].op # "READY"
      BY <1>2, <3>1 DEF Got, Unready
    <3>3. out'[p] = Append(out[p], ReadyMsg(frame[c].color))
      BY <1>7, <2>2 DEF Send
    <3>4. \A i \in DOMAIN out'[p] : i # Len(out[p]) + 1 => out'[p][i].op # "READY"
      BY <1>1, <3>2, <3>3 DEF TypeOK
    <3> QED BY <3>1, <3>4 DEF Unready
  <2> QED BY <2>1, <2>2
<1>8. /\ RejectMsg.op # "READY" /\ MoveMsg.op # "READY" /\ GameEnd.op # "READY"
      /\ \A k : ResignEnd(k).op # "READY"
  BY DEF RejectMsg, MoveMsg, GameEnd, ResignEnd
<1>9. \A c \in Client : ~Chat(c)
  BY DEF Letters, Chat
<1> QED BY <1>1, <1>4, <1>6, <1>7, <1>8, <1>9, Said

\* The connections that a program leaves.
LEMMA Closing ==
    ASSUME TypeOK, NEW c \in Client, Ran(c) PROVE \A p \in Client : open'[p] => open[p]
BY DEF Ran, TypeOK, A!Play, A!Crash, A!Connect, A!Handshake, A!Think, A!SendOwnMove, A!CalculateMove,
   A!GameEnded, A!Close

\* The step of a program touches nothing of the service but its own connection.
LEMMA OthersRan ==
    ASSUME TypeOK, Letters, ReadyOnce, StillOn, Undisturbed, NEW c \in Client, Ran(c)
    PROVE  Letters' /\ ReadyOnce' /\ StillOn' /\ Undisturbed'
<1>1. UNCHANGED <<rooms, room, game, pc, frame, remained, sent, out, cast>>
  BY DEF Ran
<1>2. /\ \A p \in Client : Got(p)' = Got(p)
      /\ \A p, m : Count(p, m)' = Count(p, m)
      /\ \A r \in Room : /\ Paired(r)' = Paired(r) /\ Made(r)' = Made(r) /\ Decided(r)' = Decided(r)
                         /\ \A p \in Client : Untold(r, p)' = Untold(r, p)
      /\ SomePair' = SomePair
  BY <1>1 DEF Got, Count, Paired, Made, Decided, Untold, Peer, SomePair
<1>3. AllInformed => AllInformed'
  BY <1>2, Closing DEF AllInformed, Informed
<1>4. Letters'
  BY <1>1, <1>2, Closing DEF Letters, ChatMsg
<1>5. ReadyOnce'
  BY <1>1, <1>2 DEF ReadyOnce, Unready
<1>6. StillOn'
  BY <1>1, <1>2, <1>3, Closing DEF StillOn, On, Unready, Asleep
<1>7. Undisturbed'
  BY <1>1, <1>2 DEF Undisturbed
<1> QED BY <1>4, <1>5, <1>6, <1>7

-----------------------------------------------------------------------------
(* No surprise: the game goes on until the end is told.                      *)

\* The game is on in r, and somebody has yet to hear that it is not.
Midgame(r) == /\ OneGame /\ Admin = {} /\ Known /\ Letters /\ TypeOK' /\ Served
              /\ Paired(r) /\ ~AllInformed /\ On(r)

\* What every step keeps while the game is on.
LEMMA MidgameKeeps ==
    ASSUME NEW r \in Room, Midgame(r)
    PROVE  /\ TypeOK /\ InRoom /\ IndInv /\ GameInv /\ MeetInv /\ SeatInv /\ [Next]_vars
           /\ \A p \in Client : Informed(p) => Informed(p)'
           /\ \A p \in Client : pc[p] # "exit" => At(p) = r
           /\ \A p \in Client : Peer(r, p) \in Client \ {p} /\ Client = {p, Peer(r, p)}
           /\ \A p \in Client : Peer(r, p)' = Peer(r, p) /\ Seat(r, p)' = Seat(r, p)
           /\ \A p \in Client : pc[p] \in Sitting => frame[p].peer = Peer(r, p)
           /\ Awake(game[r])
           /\ room'[r].first = room[r].first /\ room'[r].second = room[r].second
<1>1. /\ OneGame /\ Known /\ Paired(r) /\ [Next]_vars /\ UNCHANGED open /\ IndInv /\ GameInv
      /\ TypeOK /\ InRoom /\ MeetInv /\ SeatInv /\ On(r)
  BY DEF Midgame, Served, Known, Facts, IndInv, GameInv
<1>2. \A p \in Client : Informed(p) => Informed(p)'
  BY <1>1, OutGrows DEF Informed
<1>3. /\ Seated(r) /\ \A p \in Client : Past(p) /\ AtOrOut(p, r)
      /\ \A p \in Client : Peer(r, p)' = Peer(r, p) /\ Seat(r, p)' = Seat(r, p)
      /\ room'[r].first = room[r].first /\ room'[r].second = room[r].second
  BY <1>1, GameStays
<1>4. \A p \in Client : pc[p] # "exit" => At(p) = r
  BY <1>1, <1>3, Threads DEF On, Unready, InRoom, AtOrOut
<1>5. \A p \in Client : Peer(r, p) \in Client \ {p} /\ Client = {p, Peer(r, p)}
  BY <1>1, Opponents DEF Peer
<1>6. \A p \in Client : pc[p] \in Sitting => frame[p].peer = Peer(r, p)
  BY <1>1 DEF SeatInv, Facing
<1>7. Awake(game[r])
  BY <1>1, <1>3 DEF SeatInv, Daemons
<1> QED BY <1>1, <1>2, <1>3, <1>4, <1>5, <1>6, <1>7

\* A program that is one move ahead of what its opponent is told stays so.
LEMMA UntoldStays ==
    ASSUME NEW r \in Room, Midgame(r), NEW p \in Client, Untold(r, p),
           Count(Peer(r, p), MoveMsg)' = Count(Peer(r, p), MoveMsg)
    PROVE  Untold(r, p)'
<1>1. TypeOK /\ [Next]_vars /\ Peer(r, p)' = Peer(r, p) /\ Peer(r, p) \in Client
  BY MidgameKeeps
<1>2. Count(Peer(r, p), MoveMsg) \in Nat
  BY <1>1, Counted
<1>3. /\ Bit(pc[p] = "move") \in {0, 1} /\ Bit(pc'[p] = "move") \in {0, 1}
      /\ pc[p] = "move" => Bit(pc[p] = "move") = 1
      /\ pc'[p] # "move" => Bit(pc'[p] = "move") = 0
  BY DEF Bit
<1>4. sent[p] \in Nat /\ sent'[p] \in Nat /\ sent[p] <= sent'[p]
  BY <1>1, SentGrows
<1>5. pc'[p] = "move" => pc[p] = "move" \/ sent'[p] = sent[p] + 1
  BY <1>1, GetsMove
<1> DEFINE n == Count(Peer(r, p), MoveMsg)
           a == Bit(pc[p] = "move")
           b == Bit(pc'[p] = "move")
<1>6. n + 1 + a <= sent[p] - 1
  BY DEF Untold
<1>7. n + 1 + b <= sent'[p] - 1
  <2>0. n \in Nat /\ a \in {0, 1} /\ b \in {0, 1}
    BY <1>2, <1>3
  <2> HIDE DEF n, a, b
  <2>1. CASE b <= a
    BY <1>4, <1>6, <2>0, <2>1
  <2>2. CASE ~(b <= a)
    <3>1. b = 1 /\ a = 0
      BY <2>0, <2>2
    <3>2. sent'[p] = sent[p] + 1
      BY <1>3, <1>5, <3>1 DEF a, b
    <3> QED BY <1>4, <1>6, <2>0, <3>1, <3>2
  <2> QED BY <2>1, <2>2
<1>8. Count(Peer(r, p), MoveMsg)' = n
  OBVIOUS
<1> QED BY <1>1, <1>7, <1>8 DEF Untold

\* What can happen while the game is on.
LEMMA MidgameSteps ==
    ASSUME NEW r \in Room, Midgame(r)
    PROVE  \/ UNCHANGED <<room, game, pc, out>>
           \/ \E p \in Client : /\ At(p) = r
                                /\ \/ SpuriousWake(p) \/ Recheck(p) \/ TakeSeat(p)
                                   \/ CheckRoomStatus(p) \/ SendReady(p) \/ Listen(p)
                                   \/ CommitMove(p) \/ Resign(p)
           \/ Daemon(r)
<1>1. /\ OneGame /\ Admin = {} /\ Thread = Client /\ On(r) /\ Paired(r)
      /\ \A p \in Client : pc[p] # "exit" => At(p) = r
      /\ [Next]_vars /\ MeetInv /\ SeatInv
  BY MidgameKeeps, NoAdmins DEF Midgame
<1>2. \A p \in Client : pc[p] \in Unready \cup {"listen", "move", "resign", "exit"}
  BY <1>1 DEF On
<1>3. ASSUME NEW p \in Client, CleanUp(p) PROVE FALSE
  BY <1>2, <1>3 DEF CleanUp, Clean, KillGame, TestJoinable, JoinDaemon, TestWaiting, StartFailed,
     EraseRoom, Unready
<1>4. ASSUME NEW p \in Client, Handler(p)
      PROVE  \/ Recheck(p) \/ TakeSeat(p) \/ CheckRoomStatus(p) \/ SendReady(p) \/ Listen(p)
             \/ CommitMove(p) \/ Resign(p)
  BY <1>2, <1>4 DEF Handler, WaitReady, WaitingIfIsFirst, SecondPlayer, ColorConflict, StartRoom,
     Chat, CloseRoom, Unready
<1>5. \A p \in Client : SpuriousWake(p) \/ Handler(p) => At(p) = r
  <2> SUFFICES ASSUME NEW p \in Client, SpuriousWake(p) \/ Handler(p) PROVE pc[p] # "exit"
    BY <1>1
  <2>1. SpuriousWake(p) => pc[p] # "exit"
    BY DEF SpuriousWake
  <2>2. ASSUME \/ Recheck(p) \/ TakeSeat(p) \/ CheckRoomStatus(p) \/ SendReady(p) \/ Listen(p)
               \/ CommitMove(p) \/ Resign(p)
        PROVE  pc[p] # "exit"
    BY <2>2 DEF Recheck, TakeSeat, CheckRoomStatus, SendReady, Listen, CommitMove, Resign
  <2> QED BY <1>4, <2>1, <2>2
<1>6. ASSUME NEW q \in Room, Daemon(q) PROVE q = r
  <2>1. game[q].daemon # "none"
    BY <1>1, <1>6, DaemonEffect DEF Midgame, Known, Facts
  <2>2. Seated(q) /\ Seated(r)
    BY <1>1, <2>1, HasDaemon DEF Paired, Seated
  <2> QED BY <1>1, <2>2 DEF MeetInv, Single
<1>7. \A c \in Client : Disconnect(c) => UNCHANGED <<room, game, pc, out>>
  BY DEF Disconnect
<1>8. UNCHANGED vars => UNCHANGED <<room, game, pc, out>>
  BY DEF vars, connVars
<1> QED BY <1>1, <1>3, <1>4, <1>5, <1>6, <1>7, <1>8 DEF Next

\* A step that leaves the status, tells no move, and decides nothing.
LEMMA StaysOn ==
    ASSUME NEW r \in Room, Midgame(r), room'[r].status = "PLAYING",
           game'[r].attached = game[r].attached, Decided(r)' => Decided(r),
           game[r].daemon \in Asleep => game'[r].daemon \in Asleep \/ game'[r].attached,
           \A p \in Client : Count(p, MoveMsg)' = Count(p, MoveMsg),
           \A p \in Client : \/ pc'[p] = pc[p]
                             \/ pc'[p] \in Unready \cup {"listen", "move", "resign"}
                             \/ pc'[p] = "exit" /\ ~open[p]
    PROVE  On(r)'
<1>1. /\ On(r) /\ UNCHANGED <<open, cast>>
      /\ room'[r].first = room[r].first /\ room'[r].second = room[r].second
      /\ room[r].first \in Client /\ room[r].second \in Client
  <2>1. OneGame /\ IndInv /\ MeetInv /\ SeatInv /\ Paired(r)
    BY MidgameKeeps DEF Midgame
  <2> QED BY <2>1, MidgameKeeps, Opponents DEF Midgame, Served
<1>2. game'[r].attached \/ game'[r].daemon \in Asleep
  BY <1>1 DEF On
<1>3. \A p \in Client :
          pc'[p] \in Unready \cup {"listen", "move", "resign"} \/ (pc'[p] = "exit" /\ ~open'[p])
  BY <1>1 DEF On
<1>4. Made(r)' = Made(r)
  BY <1>1 DEF Made
<1>5. \A p \in Client : Untold(r, p) => Untold(r, p)'
  BY MidgameKeeps, UntoldStays
<1>6. Decided(r)' => Made(r)' = cast'.length \/ \E p \in Client : Untold(r, p)'
  BY <1>1, <1>4, <1>5 DEF On
<1> QED BY <1>2, <1>3, <1>6 DEF On, Asleep, Unready

\* The steps of the handlers.
LEMMA HandlerOn ==
    ASSUME NEW r \in Room, Midgame(r), NEW p \in Client, At(p) = r,
           \/ SpuriousWake(p) \/ Recheck(p) \/ TakeSeat(p) \/ CheckRoomStatus(p)
           \/ SendReady(p) \/ Listen(p)
    PROVE  On(r)'
<1>1. /\ TypeOK /\ p \in Thread /\ Status(p) = "PLAYING" /\ Honest(p) /\ [Next]_vars
  BY MidgameKeeps, Threads DEF Midgame, On, Served, Status
<1>2. ASSUME NEW l, Goto(p, l), l \in Unready \cup {"listen", "move", "resign"} \/ (l = "exit" /\ ~open[p])
      PROVE  \A q \in Client : \/ pc'[q] = pc[q]
                               \/ pc'[q] \in Unready \cup {"listen", "move", "resign"}
                               \/ pc'[q] = "exit" /\ ~open[q]
  BY <1>1, <1>2, GotoEffect, Threads
<1>3. UNCHANGED out => \A q \in Client : Count(q, MoveMsg)' = Count(q, MoveMsg)
  BY DEF Count
<1>4. CASE SpuriousWake(p) \/ Recheck(p) \/ TakeSeat(p) \/ CheckRoomStatus(p)
  <2>1. UNCHANGED <<room, out>>
    BY <1>1, <1>4 DEF SpuriousWake, Recheck, TakeSeat, CheckRoomStatus, CleanEnded, connVars
  <2>2. game'[r].attached = game[r].attached /\ game'[r].daemon = game[r].daemon
    BY <1>1, <1>4 DEF SpuriousWake, Recheck, TakeSeat, CheckRoomStatus, TypeOK, GameType
  <2>3. \E l \in Unready : Goto(p, l)
    BY <1>1, <1>4 DEF SpuriousWake, Recheck, TakeSeat, CheckRoomStatus, CleanEnded, Unready
  <2> QED BY <1>1, <1>2, <1>3, <2>1, <2>2, <2>3, StaysOn DEF Decided, Status
<1>5. CASE SendReady(p)
  <2>1. UNCHANGED room
    BY <1>5 DEF SendReady
  <2>2. game'[r].attached = game[r].attached /\ game'[r].daemon = game[r].daemon
    BY <1>1, <1>5 DEF SendReady, TypeOK, GameType
  <2>3. Goto(p, "listen") \/ (Goto(p, "exit") /\ ~open[p])
    BY <1>5 DEF SendReady, Exit, NotSent, Throws
  <2>4. \A q \in Client : Count(q, MoveMsg)' = Count(q, MoveMsg)
    <3>1. UNCHANGED out \/ Send({p}, ReadyMsg(frame[p].color))
      BY <1>5 DEF SendReady, NotSent
    <3>2. ReadyMsg(frame[p].color) # MoveMsg
      BY DEF ReadyMsg, MoveMsg
    <3>3. CASE Send({p}, ReadyMsg(frame[p].color))
      <4> SUFFICES ASSUME NEW q \in Client PROVE Count(q, MoveMsg)' = Count(q, MoveMsg)
        OBVIOUS
      <4>1. CASE q = p
        BY <1>1, <3>2, <3>3, <4>1, SentEffect
      <4>2. CASE q # p
        <5>1. out'[q] = out[q]
          BY <1>1, <3>3, <4>2, SentEffect
        <5> QED BY <5>1 DEF Count
      <4> QED BY <4>1, <4>2
    <3> QED BY <1>3, <3>1, <3>3
  <2> QED BY <1>1, <1>2, <2>1, <2>2, <2>3, <2>4, StaysOn DEF Decided, Status
<1>6. CASE Listen(p)
  <2>1. UNCHANGED <<room, game, out>> /\ pc'[p] \in {"listen", "move", "resign"}
    BY <1>1, <1>6, Spoken
  <2>2. \A q \in Client \ {p} : pc'[q] = pc[q] \/ pc'[q] \in Unready
    <3>1. Steady(p)
      BY <1>6, MidgameKeeps, ListenSteady DEF Midgame
    <3> QED BY <3>1, Threads DEF Steady, Others, Unready
  <2> QED BY <1>1, <1>3, <2>1, <2>2, StaysOn DEF Decided, Status
<1> QED BY <1>4, <1>5, <1>6

\* A move that a handler has in hand is the daemon's to get.
LEMMA CommitMoveOn ==
    ASSUME NEW r \in Room, Midgame(r), NEW p \in Client, At(p) = r, CommitMove(p)
    PROVE  On(r)'
<1>1. /\ TypeOK /\ p \in Thread /\ Patient(p) /\ frame[p].msg.op = "MOVE" /\ pc[p] = "move"
      /\ Awake(game[r]) /\ On(r)
  BY MidgameKeeps, Threads DEF Midgame, Served, Letters, CommitMove
<1>2. ~Decided(r)
  <2>1. Made(r) # cast.length /\ \A q \in Client : ~Untold(r, q)
    BY <1>1, MoveInHand DEF Midgame, Known, Facts
  <2> QED BY <1>1, <2>1 DEF On
<1>3. game[r].daemon = frame[p].color
  <2> SUFFICES ASSUME game[r].daemon # frame[p].color PROVE FALSE
    OBVIOUS
  <2>1. pc'[p] \in {"listen", "oops"}
    BY <1>1, GotoEffect DEF CommitMove
  <2>2. game[r].daemon \notin Pending
    BY <1>1, <2>1 DEF Patient
  <2> QED BY <1>1, <1>2, <2>2 DEF Decided, Awake, Asleep, Pending
<1>4. /\ Goto(p, "listen") /\ UNCHANGED <<room, out>>
      /\ game' = [game EXCEPT ![r].daemon = Moved(@)]
  BY <1>1, <1>3 DEF CommitMove, connVars
<1>5. game'[r].attached = game[r].attached /\ game'[r].daemon \in {"BLACK moved", "WHITE moved"}
  BY <1>1, <1>4 DEF TypeOK, GameType, Moved
<1>6. ~Decided(r)'
  BY <1>5 DEF Decided, Pending
<1>7. game[r].daemon \notin Asleep
  <2>1. frame[p].color \in Color
    <3>1. OneGame /\ IndInv /\ MeetInv /\ SeatInv /\ Paired(r)
      BY MidgameKeeps DEF Midgame
    <3> QED BY <1>1, <3>1, Opponents DEF SeatInv, Facing, Sitting, InGame
  <2> QED BY <1>3, <2>1 DEF Asleep, Color
<1>8. \A q \in Client : \/ pc'[q] = pc[q] \/ pc'[q] = "listen"
  BY <1>1, <1>4, GotoEffect, Threads
<1>9. \A q \in Client : Count(q, MoveMsg)' = Count(q, MoveMsg)
  BY <1>4 DEF Count
<1> QED BY <1>1, <1>4, <1>5, <1>6, <1>7, <1>8, <1>9, StaysOn DEF On

\* The peer of a program that has left is told so, or has left too.
LEMMA ResignInforms ==
    ASSUME NEW r \in Room, Midgame(r), NEW p \in Client, Resign(p)
    PROVE  AllInformed'
<1>1. PICK q \in Client : q = frame[p].peer /\ Client = {p, q}
  BY MidgameKeeps DEF Resign, Sitting, InGame
<1>2. TypeOK /\ ~open[p] /\ UNCHANGED open /\ ~AllInformed
  BY MidgameKeeps DEF Midgame, Served, Letters, Resign, Sitting, InGame
<1>3. CASE Send({frame[p].peer}, ResignEnd(Winner(p)))
  <2>1. ResignEnd(Winner(p)) \in Got(q)'
    BY <1>1, <1>3, <1>2, SentEffect
  <2>2. ResignEnd(Winner(p)).op = "END"
    BY DEF ResignEnd
  <2> QED BY <1>1, <1>2, <2>1, <2>2 DEF AllInformed, Informed
<1>4. CASE NotSent(frame[p].peer)
  BY <1>1, <1>4, <1>2 DEF AllInformed, Informed, NotSent, Throws
<1> QED BY <1>3, <1>4 DEF Resign, ResignTo

\* The daemon starts: it waits for BLACK.
LEMMA CreateAgentsOn ==
    ASSUME NEW r \in Room, Midgame(r), CreateAgents(r)
    PROVE  On(r)'
<1>1. TypeOK /\ On(r) /\ UNCHANGED <<room, pc, open>>
  BY MidgameKeeps DEF Midgame, CreateAgents, Served
<1>2. game'[r].daemon = "BLACK" /\ game'[r].attached
  BY <1>1 DEF CreateAgents, TypeOK, GameType
<1> QED BY <1>1, <1>2 DEF On, Decided, Pending

\* Between the two listeners nothing is decided anew.
LEMMA NextListenerOn ==
    ASSUME NEW r \in Room, Midgame(r), NextListener(r)
    PROVE  On(r)'
<1>1. TypeOK /\ On(r) /\ UNCHANGED <<room, pc, out>>
  BY MidgameKeeps DEF Midgame, NextListener, connVars
<1>2. game'[r].attached = game[r].attached /\ game[r].daemon = "over"
  BY <1>1 DEF NextListener, TypeOK, GameType
<1>3. \A q \in Client : Count(q, MoveMsg)' = Count(q, MoveMsg)
  BY <1>1 DEF Count
<1> QED BY <1>1, <1>2, <1>3, StaysOn DEF On, Decided, Asleep, Pending

\* The daemon relays a move and goes on, or ends the game after the last one, or stops
\* because it cannot tell the opponent, which has left.
LEMMA MakeMoveOn ==
    ASSUME NEW r \in Room, Midgame(r), MakeMove(r)
    PROVE  On(r)'
<1>1. /\ TypeOK /\ On(r) /\ UNCHANGED <<room, pc, open, sent, cast>> /\ OneGame /\ IndInv /\ MeetInv
      /\ SeatInv /\ Paired(r) /\ Rules /\ cast.program = Client /\ Hands
  BY MidgameKeeps DEF Midgame, MakeMove, Served, Known, Facts
<1>2. PICK k \in Color :
         /\ game[r].daemon = Moved(k)
         /\ \/ GameOver(r) /\ UNCHANGED out
            \/ Send(Relay(r, k), MoveMsg) /\ GameOver(r)
            \/ Send(Relay(r, k), MoveMsg) /\ game' = [game EXCEPT ![r].daemon = Reverse(k)]
            \/ (\E c \in Relay(r, k) : NotSent(c)) /\ game' = [game EXCEPT ![r].daemon = "done"]
  BY DEF MakeMove
<1>3. game[r].attached /\ game'[r].attached
  BY <1>1, <1>2 DEF On, Asleep, Moved, GameOver, TypeOK, GameType
<1>4. PICK p \in Client : Seat(r, p) = k
  <2>1. /\ room[r].first \in Client /\ Peer(r, room[r].first) \in Client
        /\ Seat(r, room[r].first) \in Color
        /\ Seat(r, Peer(r, room[r].first)) = Reverse(Seat(r, room[r].first))
    BY <1>1, Opponents
  <2> QED BY <2>1 DEF Color, Reverse
<1>5. \/ /\ game'[r].daemon = Reverse(k)
      \/ /\ game'[r].daemon = "over" /\ Send(Relay(r, k), MoveMsg)
         /\ Made(r) + 1 = cast.length
      \/ game'[r].daemon = "done" /\ UNCHANGED out
  <2>1. /\ GameOver(r) => game'[r].daemon = "over"
        /\ \A d : game' = [game EXCEPT ![r].daemon = d] => game'[r].daemon = d
    BY <1>1 DEF GameOver, TypeOK, GameType
  <2>2. Reverse(k) # Moved(k) /\ Moved(k) \notin {"over", "done"}
    BY DEF Reverse, Moved, Color
  <2>3. game'[r].daemon # Moved(k)
    BY <1>2, <2>1, <2>2
  <2>4. Movers(r, k) \cap cast.program # {}
    <3>2. game[r].unblocked = Color
      BY <1>1, <1>2, RelayedTo
    <3>3. Ears(r, p) \in game[r].heard
      BY <1>1, <1>4, <3>2 DEF SeatInv, Facing
    <3>4. p \in Movers(r, k)
      BY <1>4, <3>3 DEF Movers, Ears
    <3> QED BY <1>1, <3>4
  <2>5. \/ out' # out /\ (game'[r].daemon = "over" <=> Made(r) + 1 = cast.length)
        \/ out' = out /\ game'[r].daemon = "done"
    BY <1>1, <1>2, <1>3, <2>3, <2>4 DEF Rules
  <2> QED BY <1>2, <2>1, <2>5 DEF NotSent
<1>6. CASE game'[r].daemon = Reverse(k)
  BY <1>1, <1>3, <1>6 DEF On, Decided, Pending, Reverse
<1>7. CASE /\ game'[r].daemon = "over" /\ Send(Relay(r, k), MoveMsg)
           /\ Made(r) + 1 = cast.length
  <2>1. Made(r)' = Made(r) + 1
    <3>1. /\ room[r].first \in Client /\ room[r].second \in Client
          /\ Seat(r, room[r].first) \in Color
          /\ Seat(r, room[r].second) = Reverse(Seat(r, room[r].first))
      BY <1>1, Opponents DEF Peer
    <3>2. Count(room[r].first, MoveMsg) \in Nat /\ Count(room[r].second, MoveMsg) \in Nat
      BY <1>1, <3>1, Counted
    <3>3. CASE Seat(r, room[r].first) = k
      <4>1. /\ Count(room[r].first, MoveMsg)' = Count(room[r].first, MoveMsg)
            /\ Count(room[r].second, MoveMsg)' = Count(room[r].second, MoveMsg) + 1
        BY <1>1, <1>2, <1>3, <1>7, <3>1, <3>3, RelayedCount
      <4> QED BY <1>1, <3>2, <4>1 DEF Made
    <3>4. CASE Seat(r, room[r].first) = Reverse(k)
      <4>1. Seat(r, room[r].second) = k
        BY <3>1, <3>4, Reverses
      <4>2. /\ Count(room[r].first, MoveMsg)' = Count(room[r].first, MoveMsg) + 1
            /\ Count(room[r].second, MoveMsg)' = Count(room[r].second, MoveMsg)
        BY <1>1, <1>2, <1>3, <1>7, <3>1, <3>4, <4>1, RelayedCount
      <4> QED BY <1>1, <3>2, <4>2 DEF Made
    <3> QED BY <3>1, <3>3, <3>4 DEF Color, Reverse
  <2> QED BY <1>1, <1>3, <1>7, <2>1 DEF On
<1>8. CASE game'[r].daemon = "done" /\ UNCHANGED out
  <2>1. Peer(r, p)' = Peer(r, p)
    BY MidgameKeeps
  <2>2. Untold(r, p)
    <3>1. Bit(game[r].daemon = Moved(Seat(r, p))) = 1
      BY <1>2, <1>4 DEF Bit
    <3>2. Count(Peer(r, p), MoveMsg) + 1 + Bit(pc[p] = "move") <= sent[p] - 1
      BY <1>1, <3>1 DEF Hands, InHand
    <3> QED BY <3>2 DEF Untold
  <2>3. Untold(r, p)'
    BY <1>8, <2>1, <2>2, UntoldStays DEF Count
  <2> QED BY <1>1, <1>3, <2>3 DEF On
<1> QED BY <1>5, <1>6, <1>7, <1>8

\* The listener tells both players, unless one of them has left.
LEMMA OnGameEndedOn ==
    ASSUME NEW r \in Room, Midgame(r), OnGameEnded(r)
    PROVE  AllInformed' \/ On(r)'
<1>1. /\ TypeOK /\ On(r) /\ UNCHANGED <<pc, open>> /\ game[r].daemon = "listener" /\ NotEnded(r)
      /\ SeatInv /\ Paired(r)
  BY MidgameKeeps DEF Midgame, OnGameEnded, Served, On, NotEnded
<1>2. PICK l \in game[r].pending :
         \/ Send({l.sock, l.peer}, GameEnd)
         \/ /\ NotSent(l.sock) \/ (Throws(l.peer) /\ Send({l.sock}, GameEnd))
            /\ game' = [game EXCEPT ![r].daemon = "done"]
            /\ UNCHANGED room
  BY <1>1 DEF OnGameEnded
<1>3. l.sock \in Client /\ l.peer \in Client /\ Client = {l.sock, l.peer}
  <2>1. PICK p \in Client : l = Ears(r, p)
    BY <1>1 DEF SeatInv, Listeners
  <2> QED BY <2>1, MidgameKeeps DEF Ears
<1>4. ASSUME NEW to, Send(to, GameEnd), NEW p \in Client, p \in to PROVE Informed(p)'
  <2>1. GameEnd \in Got(p)' /\ GameEnd.op = "END"
    BY <1>1, <1>4, SentEffect DEF GameEnd
  <2> QED BY <2>1 DEF Informed
<1>5. CASE Send({l.sock, l.peer}, GameEnd)
  <2>1. Informed(l.sock)' /\ Informed(l.peer)'
    BY <1>3, <1>4, <1>5
  <2> QED BY <1>3, <2>1 DEF AllInformed
<1>6. CASE Throws(l.peer) /\ Send({l.sock}, GameEnd)
  <2>1. Informed(l.sock)' /\ Informed(l.peer)'
    BY <1>1, <1>3, <1>4, <1>6 DEF Throws, Informed
  <2> QED BY <1>3, <2>1 DEF AllInformed
<1>7. CASE NotSent(l.sock) /\ game' = [game EXCEPT ![r].daemon = "done"] /\ UNCHANGED room
  <2>1. \A q \in Client : Count(q, MoveMsg)' = Count(q, MoveMsg)
    BY <1>7 DEF NotSent, Count
  <2>2. game'[r].attached = game[r].attached /\ Decided(r) /\ game[r].daemon \notin Asleep
    BY <1>1, <1>7 DEF TypeOK, GameType, Decided, Asleep, Pending
  <2> QED BY <1>1, <1>7, <2>1, <2>2, StaysOn DEF On
<1> QED BY <1>2, <1>5, <1>6, <1>7

\* Every step of the service leaves the game on, or informs the last one of its end.
LEMMA MidgameOn ==
    ASSUME NEW r \in Room, Midgame(r)
    PROVE  AllInformed' \/ On(r)'
<1>1. CASE UNCHANGED <<room, game, pc, out>>
  <2>1. On(r) /\ \A q \in Client : Count(q, MoveMsg)' = Count(q, MoveMsg)
    BY <1>1 DEF Count, Midgame
  <2>2. Decided(r)' = Decided(r)
    BY <1>1 DEF Decided
  <2> QED BY <1>1, <2>1, <2>2, StaysOn DEF On
<1>2. CASE Daemon(r)
  BY <1>2, CreateAgentsOn, MakeMoveOn, NextListenerOn, OnGameEndedOn DEF Daemon
<1> QED BY <1>1, <1>2, MidgameSteps, HandlerOn, CommitMoveOn, ResignInforms

\* The same of the invariant.
LEMMA StillOnServed ==
    ASSUME OneGame, Admin = {}, Known, Letters, TypeOK', SomePair, StillOn, Served
    PROVE  StillOn'
<1> SUFFICES ASSUME NEW r \in Room, Paired(r)', ~AllInformed' PROVE On(r)'
  BY DEF StillOn
<1>1. Paired(r) /\ [Next]_vars /\ UNCHANGED open /\ TypeOK
  BY GameStays DEF SomePair, Served, Known, Facts, IndInv
<1>2. ~AllInformed
  <2>1. \A p \in Client : Informed(p) => Informed(p)'
    BY <1>1, OutGrows DEF Informed
  <2> QED BY <2>1 DEF AllInformed
<1> QED BY <1>1, <1>2, MidgameOn DEF Midgame, StillOn

-----------------------------------------------------------------------------
(* No surprise: when nobody may be killed.                                   *)

\* With nobody killed every program hears READY first, and END only from the listeners, so
\* that no handler finds a closed connection before it.
LEMMA UndisturbedServed ==
    ASSUME OneGame, Admin = {}, Known, Known', Letters, Reading, SomePair, NoSurprise,
           Undisturbed, Served
    PROVE  Undisturbed'
<1> SUFFICES ASSUME cast.mortal = {}, NEW r \in Room, Paired(r)'
             PROVE  /\ \A p \in Client : pc'[p] # "resign" /\ (out'[p] # <<>> => out'[p][1].op = "READY")
                    /\ room'[r].status = "PLAYING" => \A p \in Client : \A m \in Got(p)' : m.op # "END"
  BY DEF Undisturbed, Served
<1>1. /\ Paired(r) /\ [Next]_vars /\ UNCHANGED open /\ TypeOK /\ TypeOK' /\ IndInv /\ GameInv /\ GameInv'
      /\ MeetInv /\ SeatInv /\ ToldInv /\ cast.program = Client /\ \A p \in Client : Honest(p)
      /\ \A p \in Client : Past(p) /\ AtOrOut(p, r)
      /\ room'[r].status = "PLAYING" => room[r].status = "PLAYING"
  <2>1. Paired(r)
    BY GameStays DEF SomePair, Served
  <2> QED BY <2>1, GameStays DEF Served, Known, Facts, IndInv, GameInv
<1>2. /\ \A p \in Client : pc[p] # "resign" /\ (out[p] # <<>> => out[p][1].op = "READY")
      /\ room[r].status = "PLAYING" => \A p \in Client : \A m \in Got(p) : m.op # "END"
  BY <1>1 DEF Undisturbed
\* Whoever leaves has heard the END.
<1>3. \A p \in Client : ~open[p] => \E m \in Got(p) : m.op = "END"
  BY <1>1 DEF Reading, NoSurprise, Programs, A!Over
\* The END is told by the listeners only, to both players.
<1>4. room'[r].status = "PLAYING" => \A p \in Client : \A m \in Got(p)' : m.op # "END"
  <2> SUFFICES ASSUME room[r].status = "PLAYING", room'[r].status = "PLAYING",
                      NEW p \in Client, NEW m \in Got(p)', m.op = "END"
               PROVE  FALSE
    BY <1>1
  <2>1. \A q \in Client : open[q]
    BY <1>2, <1>3
  <2>2. m \notin Got(p)
    BY <1>2
  <2>3. ASSUME NEW to, NEW x, Send(to, x) PROVE x = m
    <3>1. CASE p \in to
      BY <1>1, <2>2, <2>3, <3>1, SentEffect
    <3>2. CASE p \notin to
      <4>1. out'[p] = out[p]
        BY <1>1, <2>3, <3>2, SentEffect
      <4> QED BY <2>2, <4>1 DEF Got
    <3> QED BY <3>1, <3>2
  <2>4. out' # out
    BY <2>2 DEF Got
  <2>5. /\ RejectMsg.op # "END" /\ MoveMsg.op # "END" /\ \A k : ReadyMsg(k).op # "END"
    BY DEF RejectMsg, MoveMsg, ReadyMsg
  <2>6. ASSUME NEW q \in Room, OnGameEnded(q) PROVE FALSE
    <3>1. q = r
      <4>1. Seated(q) /\ Seated(r)
        BY <1>1, <2>6, HasDaemon DEF OnGameEnded, Paired, Seated
      <4> QED BY <1>1, <4>1 DEF MeetInv, Single
    <3>2. PICK l \in game[r].pending :
             \/ room' = [room EXCEPT ![r].status = "ENDED"]
             \/ NotSent(l.sock) \/ Throws(l.peer)
      BY <2>4, <2>6, <3>1 DEF OnGameEnded, NotEnded
    <3>3. l.sock \in Client /\ l.peer \in Client
      <4>1. PICK x \in Client : l = Ears(r, x)
        BY <1>1 DEF SeatInv, Listeners
      <4>2. Peer(r, x) \in Client
        BY <1>1, Opponents
      <4> QED BY <4>1, <4>2 DEF Ears
    <3> QED BY <1>1, <2>1, <3>2, <3>3 DEF NotSent, Throws, TypeOK, RoomType
  <2>7. \A c \in Client : ~Chat(c) /\ ~Resign(c)
    BY <1>2 DEF Letters, Chat, Resign
  <2> QED BY <1>1, <2>3, <2>4, <2>5, <2>6, <2>7, Said
<1>5. ASSUME NEW p \in Client, pc'[p] = "resign" PROVE FALSE
  <2>1. Listen(p)
    BY <1>1, <1>2, <1>5, Alone, Route
  <2>2. ~open[p] /\ At(p) \in Room
    BY <1>1, <1>5, <2>1, Spoken, Threads DEF Listen, IndInv, InRoom
  <2>3. At(p) = r /\ Status(p) # "PLAYING"
    BY <1>1, <1>2, <1>3, <2>2, Threads DEF AtOrOut, Status
  <2>4. pc'[p] \in {"clean", "idle"}
    <3>1. \A l : Goto(p, l) => pc'[p] = l
      BY <1>1, GotoEffect, Threads
    <3> QED BY <2>1, <2>3, <3>1 DEF Listen, CleanEnded, NextIteration, Status
  <2> QED BY <1>5, <2>4
<1>6. ASSUME NEW p \in Client, out'[p] # <<>> PROVE out'[p][1].op = "READY"
  <2>1. CASE out[p] # <<>>
    <3>1. Len(out[p]) \in Nat /\ Len(out[p]) >= 1
      BY <1>1, <2>1 DEF TypeOK
    <3>2. out'[p][1] = out[p][1]
      BY <1>1, <3>1, OutGrows
    <3> QED BY <1>2, <2>1, <3>2
  <2>2. CASE out[p] = <<>>
    <3>1. Got(p) = {} /\ out' # out
      BY <1>6, <2>2 DEF Got
    <3>2. ASSUME NEW to, NEW x, Send(to, x) PROVE out'[p][1] = x
      <4>1. p \in to
        BY <1>1, <1>6, <2>2, <3>2, SentEffect
      <4>2. out'[p] = Append(out[p], x)
        BY <3>2, <4>1 DEF Send
      <4> QED BY <2>2, <4>2
    <3>3. ASSUME NEW q \in Room, MakeMove(q) \/ OnGameEnded(q) PROVE FALSE
      <4>1. game[q].daemon \notin Asleep /\ game[q].daemon # "none"
        BY <3>3 DEF MakeMove, OnGameEnded, Moved, Asleep
      <4>2. Seated(q) /\ Seated(r) /\ Awake(game[q])
        BY <1>1, <4>1, HasDaemon DEF Paired, Seated
      <4>3. game[r].unblocked = Color
        BY <1>1, <4>1, <4>2 DEF Awake, MeetInv, Single
      <4>4. Seat(r, p) \in Color
        BY <1>1, Opponents
      <4>5. ReadyMsg(Seat(r, p)) \in Got(p)
        BY <1>1, <4>3, <4>4 DEF ToldInv, Colours
      <4> QED BY <3>1, <4>5
    <3>4. \A c \in Client : ~SecondPlayer(c) /\ ~ColorConflict(c)
      BY <1>1 DEF Past, SecondPlayer, ColorConflict
    <3>5. \A c \in Client : ~Chat(c)
      BY DEF Letters, Chat
    <3>6. \A c \in Client : ~Resign(c)
      BY <1>2 DEF Resign
    <3>7. \A k : ReadyMsg(k).op = "READY"
      BY DEF ReadyMsg
    <3> QED BY <1>1, <3>1, <3>2, <3>3, <3>4, <3>5, <3>6, <3>7, Said
  <2> QED BY <2>1, <2>2
<1> QED BY <1>4, <1>5, <1>6

-----------------------------------------------------------------------------
(* No surprise: the step of a program.                                       *)

\* A program fails in this step for a message or an EOF that the other parts exclude.
LEMMA NoSurpriseRan ==
    ASSUME OneGame, Known, Letters, Meetings, Reading, ReadyOnce, StillOn, Undisturbed, NoSurprise,
           NEW c \in Client, Ran(c)
    PROVE  NoSurprise'
<1>1. /\ UNCHANGED <<room, out, cast>> /\ (A!Play(c) \/ A!Crash(c)) /\ TypeOK /\ SessionType /\ Board(c)
      /\ cast.program = Client /\ agent[c].taken \in Nat
  BY BoardType DEF Ran, Known, Facts, IndInv, Boards
<1> SUFFICES ASSUME NEW r \in Room, Paired(r), NEW p \in Client, agent'[p].pc \in A!Failed
             PROVE  agent'[p].color = "NONE" /\ cast.mortal # {}
  BY <1>1 DEF NoSurprise, Programs, SomePair, Paired, A!Failed
<1>2. Programs
  BY <1>1 DEF Programs, SomePair
<1>3. CASE agent'[p] = agent[p]
  BY <1>2, <1>3 DEF NoSurprise
<1>4. CASE FindsEnd(c)
  <2>1. open[c] /\ pc[c] = "exit"
    BY <1>4 DEF FindsEnd, PlaysOn, Reading
  <2>2. \A m \in Got(c) : m.op # "END"
    <3>1. DOMAIN out[c] = 1 .. agent[c].taken
      BY <1>1, <1>4 DEF FindsEnd, TypeOK
    <3>2. \A i \in 1 .. agent[c].taken : out[c][i].op # "END"
      BY <1>4 DEF FindsEnd, Reading
    <3> QED BY <3>1, <3>2 DEF Got
  <2>3. ~AllInformed
    BY <2>1, <2>2 DEF AllInformed, Informed
  <2> QED BY <2>1, <2>3 DEF StillOn, On, Unready
<1>5. ASSUME NEW m, Reads(c, m), agent'[c].pc \in A!Failed
      PROVE  agent'[c].color = "NONE" /\ cast.mortal # {}
  <2> DEFINE i == agent[c].taken + 1
  <2>1. m = out[c][i] /\ i \in DOMAIN out[c] /\ m \in Got(c) /\ m \in Answer
    BY <1>1, <1>5 DEF Reads, Got, TypeOK
  <2>2. m.op # "REJECT"
    <3>1. RejectMsg \notin Got(c)
      BY DEF Meetings, Paired, Seated
    <3>2. m.op = "REJECT" => m = RejectMsg
      BY <2>1 DEF Answer, MoveMsg, ChatMsg, GameEnd, RejectMsg
    <3> QED BY <2>1, <3>1, <3>2
  <2>3. agent[c].pc \in {"receive", "ended"} => m.op # "READY"
    <3> SUFFICES ASSUME agent[c].pc \in {"receive", "ended"}, m.op = "READY" PROVE FALSE
      OBVIOUS
    <3>1. agent[c].color # "NONE"
      BY <1>1 DEF Board
    <3>2. agent[c].taken >= 1 /\ out[c][1].op = "READY"
      <4>1. agent[c].taken >= 1 /\ out[c][1] = ReadyMsg(agent[c].color)
        BY <3>1 DEF Reading
      <4>2. \A k : ReadyMsg(k).op = "READY"
        BY DEF ReadyMsg
      <4> QED BY <4>1, <4>2
    <3>3. 1 \in DOMAIN out[c] /\ i # 1
      BY <1>1, <2>1, <3>2 DEF TypeOK
    <3> QED BY <2>1, <3>2, <3>3 DEF ReadyOnce, SomePair
  <2>4. m.op # "CHAT"
    <3>1. m.op = "CHAT" => m = ChatMsg
      BY <2>1 DEF Answer, MoveMsg, ChatMsg, GameEnd, RejectMsg
    <3> QED BY <2>1, <3>1 DEF Letters
  <2>5. agent[c].pc = "ended" => m.op # "MOVE"
    <3>1. m.op = "MOVE" => m = MoveMsg
      BY <2>1 DEF Answer, MoveMsg, ChatMsg, GameEnd, RejectMsg
    <3>2. agent[c].pc = "ended" => m # MoveMsg
      BY <1>1, <1>5, <2>1, NoMoveLeft DEF Known, Facts, Reads, PlaysOn
    <3> QED BY <3>1, <3>2
  <2>6. m.op \in {"READY", "REJECT", "MOVE", "CHAT", "END"}
    BY <2>1 DEF Answer, MoveMsg, ChatMsg, GameEnd, RejectMsg
  <2>7. agent[c].pc = "handshake" /\ m.op # "READY" /\ agent'[c].color = agent[c].color
    BY <1>5, <2>2, <2>3, <2>4, <2>5, <2>6 DEF Reads, Playing, A!Failed
  <2>8. agent[c].color = "NONE" /\ agent[c].taken = 0
    BY <1>1, <2>7 DEF Board
  <2>9. cast.mortal # {}
    BY <1>1, <2>1, <2>7, <2>8 DEF Undisturbed
  <2> QED BY <2>7, <2>8, <2>9
<1>6. CASE GoesOn(c) \/ Returns(c) \/ agent'[c].pc = "crashed"
  BY <1>1, <1>3, <1>6, PlayEffect DEF GoesOn, Returns, Playing, A!Failed
<1> QED BY <1>1, <1>3, <1>4, <1>5, <1>6, ProgramStep, PlayEffect

-----------------------------------------------------------------------------
(* No surprise: the start of the game.                                       *)

\* The step that pairs two clients is a StartRoom.
LEMMA Pairing ==
    ASSUME OneGame, Admin = {}, IndInv, IndInv', GameInv, GameInv', JoinInv, Meetings, [Next]_vars,
           ~SomePair, SomePair'
    PROVE  \E c \in Client :
             /\ StartRoom(c) /\ At(c) \in Room /\ UNCHANGED <<out, open>>
             /\ \A p \in Client : /\ Got(p) = {} /\ out[p] = <<>>
                                  /\ pc'[p] \in {"seat2", "woken"}
                                  /\ agent[p].pc \notin A!Failed
             /\ \A r \in Room : Paired(r)' => r = At(c)
             /\ room'[At(c)].status = "PLAYING"
             /\ game'[At(c)].daemon = "setup"
<1>1. /\ TypeOK /\ InRoom /\ MeetInv /\ SeatInv /\ ToldInv /\ MeetInv' /\ SeatInv'
      /\ \A r \in Room : ~Paired(r)
  BY DEF IndInv, GameInv, SomePair
<1>2. PICK q \in Room : Paired(q)'
  BY DEF SomePair
<1>3. ~\E t : Steady(t)
  BY <1>1, <1>2, RoomsStay DEF Steady
<1>4. PICK c \in Client :
         /\ ~Past(c) /\ UNCHANGED <<out, open>>
         /\ \/ \E m \in Input(RoomId) : \E r \in Room : ComesIn(c, m, r)
            \/ WaitingIfIsFirst(c)
            \/ StartRoom(c)
  BY <1>1, <1>3, Comings
<1>5. \A r \in Room : ~Seated(r) /\ game[r] = NewGame("none")
  BY <1>1, <1>4, NoGameYet
<1>6. ASSUME NEW m, NEW r \in Room, ComesIn(c, m, r) PROVE FALSE
  <2>1. NewRoom(m.id, c, m.color).second = None
    BY DEF NewRoom
  <2>2. \A x \in Room : room'[x] = room[x] \/ room'[x] = NewRoom(m.id, c, m.color)
    BY <1>1, <1>6 DEF ComesIn, GetOrCreateRoom, TypeOK
  <2> QED BY <1>2, <1>5, <2>1, <2>2 DEF Paired, Seated
<1>7. ASSUME WaitingIfIsFirst(c) PROVE FALSE
  <2>1. \A x \in Room : room'[x].second = room[x].second
    BY <1>1, <1>7 DEF WaitingIfIsFirst, SetStatus, TypeOK, RoomType
  <2> QED BY <1>2, <1>5, <2>1 DEF Paired, Seated
<1>8. StartRoom(c) /\ pc[c] = "pair" /\ At(c) \in Room /\ c \in Thread
  BY <1>1, <1>4, <1>6, <1>7, Threads DEF StartRoom, InRoom
<1>9. \A p \in Client : Got(p) = {} /\ out[p] = <<>>
  <2> SUFFICES ASSUME NEW p \in Client PROVE Got(p) = {} /\ out[p] = <<>>
    OBVIOUS
  <2>1. Got(p) \subseteq {RejectMsg}
    BY <1>1, <1>4, SilentYet
  <2>2. RejectMsg \notin Got(p)
    BY <1>4, <1>8 DEF Meetings, Dismissed
  <2>3. Got(p) = {}
    BY <2>1, <2>2
  <2>4. out[p] # <<>> => Len(out[p]) \in Nat /\ Len(out[p]) >= 1 /\ DOMAIN out[p] = 1 .. Len(out[p])
    BY <1>1 DEF TypeOK
  <2>5. 1 \notin DOMAIN out[p]
    BY <2>3 DEF Got
  <2> QED BY <2>3, <2>4, <2>5
<1>10. room[At(c)].status = "WAITING"
  BY <1>4, <1>8 DEF JoinInv, Meeting
<1>11. PICK w \in Client : pc[w] \in {"wait", "woken"} /\ At(w) = At(c)
  BY <1>8, <1>10 DEF Meetings
<1>12. \A p \in Client : p = c \/ p = w
  BY <1>8, <1>11, TwoClients
<1>13. pc'[c] = "seat2" /\ pc'[w] = "woken"
  BY <1>1, <1>8, <1>11, Threads DEF StartRoom, NotifyAll
<1>14. \A p \in Client : agent[p].pc \notin A!Failed
  BY <1>5, <1>8, <1>9, <1>11, <1>12 DEF Meetings
<1>15. \A r \in Room : Paired(r)' => r = At(c)
  <2>1. PICK k : room' = [room EXCEPT ![At(c)].second = c, ![At(c)].color = k, ![At(c)].status = "PLAYING"]
    BY <1>8 DEF StartRoom
  <2>2. \A r \in Room : r # At(c) => room'[r] = room[r]
    BY <1>1, <2>1 DEF TypeOK
  <2> QED BY <1>1, <2>2 DEF Paired
<1>16. room'[At(c)].status = "PLAYING"
  <2>1. PICK k : room' = [room EXCEPT ![At(c)].second = c, ![At(c)].color = k, ![At(c)].status = "PLAYING"]
    BY <1>8 DEF StartRoom
  <2> QED BY <1>1, <1>8, <2>1 DEF TypeOK, RoomType
<1>17. game'[At(c)].daemon = "setup"
  <2>1. game[At(c)].daemon = "none"
    BY <1>5, <1>8 DEF NewGame
  <2> QED BY <1>1, <1>8, <2>1 DEF StartRoom, NewGame, TypeOK
<1> QED BY <1>4, <1>8, <1>9, <1>12, <1>13, <1>14, <1>15, <1>16, <1>17

\* In the step that starts the game nothing has been told, nobody has failed, and both
\* handlers are in its room.
LEMMA PairingServed ==
    ASSUME OneGame, Admin = {}, IndInv, IndInv', GameInv, GameInv', JoinInv, Meetings, Served,
           ~SomePair
    PROVE  ReadyOnce' /\ StillOn' /\ Undisturbed' /\ NoSurprise'
<1>1. [Next]_vars /\ UNCHANGED <<agent, open, cast>>
  BY DEF Served
<1>2. CASE ~SomePair'
  BY <1>2 DEF ReadyOnce, StillOn, Undisturbed, NoSurprise, Programs, SomePair
<1>3. CASE SomePair'
  <2>1. PICK c \in Client :
             /\ At(c) \in Room /\ UNCHANGED <<out, open>>
             /\ \A p \in Client : /\ Got(p) = {} /\ out[p] = <<>>
                                  /\ pc'[p] \in {"seat2", "woken"}
                                  /\ agent[p].pc \notin A!Failed
             /\ \A r \in Room : Paired(r)' => r = At(c)
             /\ room'[At(c)].status = "PLAYING"
             /\ game'[At(c)].daemon = "setup"
    BY <1>1, <1>3, Pairing
  <2>2. \A p \in Client : Got(p)' = {} /\ out'[p] = <<>>
    BY <2>1 DEF Got
  <2>3. ReadyOnce'
    BY <2>2 DEF ReadyOnce
  <2>4. StillOn'
    BY <2>1 DEF StillOn, On, Unready, Decided, Asleep
  <2>5. Undisturbed'
    BY <2>1, <2>2 DEF Undisturbed
  <2>6. NoSurprise'
    BY <1>1, <2>1 DEF NoSurprise, A!Failed
  <2> QED BY <2>3, <2>4, <2>5, <2>6
<1> QED BY <1>2, <1>3

-----------------------------------------------------------------------------
(* No surprise.                                                              *)

\* The steps of the service.
LEMMA CandidServed ==
    ASSUME OneGame, Admin = {}, Known, Known', Candid, Served
    PROVE  Candid'
<1>1. /\ IndInv /\ IndInv' /\ GameInv /\ GameInv' /\ JoinInv /\ Boards
      /\ TypeOK /\ TypeOK' /\ cast'.program = Client /\ agent' = agent /\ cast' = cast
      /\ Letters /\ Meetings /\ Reading /\ ReadyOnce /\ StillOn /\ Undisturbed /\ NoSurprise
  BY DEF Known, Facts, IndInv, Candid, Served
<1>2. Letters' /\ Meetings' /\ Reading'
  BY <1>1, LettersKept, MeetingsServed, ReadingServed
<1>3. CASE SomePair
  <2>1. ReadyOnce' /\ StillOn' /\ Undisturbed'
    BY <1>1, <1>3, ReadyOnceServed, StillOnServed, UndisturbedServed
  <2>2. NoSurprise'
    BY <1>1, <1>3 DEF NoSurprise, Programs, A!Failed
  <2> QED BY <1>2, <2>1, <2>2 DEF Candid
<1>4. CASE ~SomePair
  BY <1>1, <1>2, <1>4, PairingServed DEF Candid
<1> QED BY <1>3, <1>4

\* The steps of a program.
LEMMA CandidRan ==
    ASSUME OneGame, Known, Candid, NEW c \in Client, Ran(c)
    PROVE  Candid'
<1>1. /\ TypeOK /\ GameInv /\ Boards
      /\ Letters /\ Meetings /\ Reading /\ ReadyOnce /\ StillOn /\ Undisturbed /\ NoSurprise
  BY DEF Known, Facts, IndInv, Candid
<1>2. Letters' /\ ReadyOnce' /\ StillOn' /\ Undisturbed'
  BY <1>1, OthersRan
<1>3. Meetings' /\ Reading'
  BY <1>1, MeetingsRan, ReadingRan
<1>4. NoSurprise'
  BY <1>1, NoSurpriseRan
<1> QED BY <1>2, <1>3, <1>4 DEF Candid

\* A step that changes nothing.
LEMMA CandidStutter ==
    ASSUME Candid, UNCHANGED sessionVars PROVE Candid'
<1>1. UNCHANGED <<rooms, room, game, pc, frame, remained, open, sent, out, agent, posted, cast>>
  BY DEF sessionVars, vars, connVars, agentVars
<1>2. /\ \A p \in Client : /\ Got(p)' = Got(p) /\ Dismissed(p)' = Dismissed(p) /\ At(p)' = At(p)
                            /\ Informed(p)' = Informed(p)
      /\ \A r \in Room : /\ Seated(r)' = Seated(r) /\ Paired(r)' = Paired(r)
                          /\ On(r)' = On(r)
  BY <1>1 DEF Got, Dismissed, Past, Fresh, At, Informed, Seated, Paired, On, Decided, Made, Untold, Peer, Count,
     Unready, Asleep, Pending
<1>3. SomePair' = SomePair /\ AllInformed' = AllInformed
  BY <1>2 DEF SomePair, AllInformed
<1>4. Letters' = Letters /\ Meetings' = Meetings
  BY <1>1, <1>2 DEF Letters, Meetings, ChatMsg, RejectMsg, A!Failed
<1>5. Reading' = Reading
  BY <1>1, <1>2 DEF Reading, PlaysOn, Playing, ReadyMsg, A!Over, A!Failed
<1>6. ReadyOnce' = ReadyOnce
  BY <1>1, <1>2, <1>3 DEF ReadyOnce, Unready
<1>7. StillOn' = StillOn
  BY <1>2, <1>3 DEF StillOn
<1>8. Undisturbed' = Undisturbed
  BY <1>1, <1>2 DEF Undisturbed
<1>9. NoSurprise' = NoSurprise
  BY <1>1, <1>3 DEF NoSurprise, Programs, A!Failed
<1> QED BY <1>1, <1>4, <1>5, <1>6, <1>7, <1>8, <1>9 DEF Candid

\* Every step of a session.
LEMMA CandidKept ==
    ASSUME OneGame, Admin = {}, Facts, Facts', Candid, [SessionNext]_sessionVars
    PROVE  Candid'
<1>1. cast' = cast /\ TypeOK /\ TypeOK' /\ SessionType
  BY SessionStep DEF Facts, IndInv, Boards
<1>2. CASE cast.program = Client
  BY <1>1, <1>2, Steps, CandidServed, CandidRan, CandidStutter DEF Known
<1>3. CASE cast.program # Client
  BY <1>1, <1>3 DEF Candid
<1> QED BY <1>2, <1>3

\* The initial states.
LEMMA InitCandid == SessionInit => Candid
<1> SUFFICES ASSUME SessionInit PROVE Candid
  OBVIOUS
<1>1. /\ pc = [t \in Thread |-> "idle"] /\ out = [c \in Client |-> <<>>]
      /\ open = [c \in Client |-> TRUE] /\ agent = [c \in Client |-> A!NewProgram]
      /\ room = [r \in Room |-> NewRoom(None, None, "NONE")]
  BY DEF SessionInit, Init
<1>2. \A p \in Client : Got(p) = {} /\ out[p] = <<>> /\ pc[p] = "idle" /\ open[p]
  BY <1>1, Threads DEF Got
<1>3. \A p \in Client : /\ agent[p].pc = "connect" /\ agent[p].color = "NONE" /\ agent[p].taken = 0
                        /\ agent[p].pc \notin A!Failed /\ ~agent[p].remote_game_ended
  BY <1>1 DEF A!NewProgram, A!Failed
<1>4. \A r \in Room : room[r].status = "EMPTY" /\ ~Seated(r) /\ ~Paired(r)
  BY <1>1 DEF NewRoom, Seated, Paired
<1>5. Letters /\ Meetings
  BY <1>2, <1>3, <1>4 DEF Letters, Meetings
<1>6. Reading
  BY <1>2, <1>3 DEF Reading, PlaysOn
<1>7. ReadyOnce /\ StillOn /\ Undisturbed /\ NoSurprise
  BY <1>4 DEF ReadyOnce, StillOn, Undisturbed, NoSurprise, Programs, SomePair
<1> QED BY <1>5, <1>6, <1>7 DEF Candid

\* Two programs neither chat nor leave before the end, one of them sleeps in a room that
\* is WAITING, each reads its READY first and no END while it plays, and until both have
\* heard of the end nobody cleans their room.  Each part holds because of the others.
THEOREM CandidInductive == ASSUME OneGame, Admin = {} PROVE SessionSpec => []Candid
<1>1. SessionInit => Candid
  BY InitCandid
<1>2. Facts /\ Facts' /\ Candid /\ [SessionNext]_sessionVars => Candid'
  BY CandidKept
<1>3. SessionSpec => []Facts
  <2>1. SessionSpec => []IndInv /\ []GameInv /\ []JoinInv /\ []Hands
    BY SessionIsService, Inductive, GameInductive, JoinInductive, MovesComeFromPlayers, PTL
  <2>2. IndInv /\ GameInv /\ JoinInv /\ Hands /\ Boards => Facts
    BY DEF Facts
  <2> QED BY <2>1, <2>2, BoardsInductive, PTL
<1> QED BY <1>1, <1>2, <1>3, PTL DEF SessionSpec

\* A program that plays another one never throws for a message that it does not expect
\* or for the end of the connection (surakarta_agent_remote.cpp:60-63, 101-106, 151-154),
\* unless one of them is killed and it has no colour yet.
THEOREM ProgramsNotSurprised == ASSUME OneGame, Admin = {} PROVE SessionSpec => []NoSurprise
<1>1. Candid => NoSurprise
  BY DEF Candid, NoSurprise, Programs
<1> QED BY <1>1, CandidInductive, PTL
=============================================================================
