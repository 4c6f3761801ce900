-------------------------- MODULE RoomServiceTypes --------------------------
(***************************************************************************)
(* Every step of RoomService keeps the types, for any sets of clients,      *)
(* threads and rooms and any traffic.                                       *)
(*                                                                          *)
(* The helpers that an action is built from stay folded in the proofs about *)
(* actions; what each of them does to the state is a lemma of its own.      *)
(***************************************************************************)
EXTENDS RoomProperties, TLAPS

LEMMA Threads ==
    /\ Client \subseteq Thread /\ Admin \subseteq Thread
    /\ None \notin Thread /\ None \notin Room
BY ConstantsOK DEF Thread

-----------------------------------------------------------------------------
(* Types: the helpers.                                                       *)

LEMMA GotoType ==
    ASSUME pc \in [Thread -> Label], NEW t \in Thread, NEW l \in Label, Goto(t, l)
    PROVE  pc' \in [Thread -> Label]
BY DEF Goto

LEMMA NotifyAllType ==
    ASSUME pc \in [Thread -> Label], NEW t \in Thread, NEW l \in Label, NotifyAll(t, l)
    PROVE  pc' \in [Thread -> Label]
BY DEF NotifyAll, Label

LEMMA EOFType == EOF \in Input(RoomId)
BY DEF EOF, Input

LEMMA NoFrameType == NoFrame \in FrameType
BY EOFType DEF NoFrame, FrameType, Request

LEMMA DropLocalsType ==
    ASSUME frame \in [Thread -> FrameType], NEW t \in Thread, DropLocals(t)
    PROVE  frame' \in [Thread -> FrameType]
BY NoFrameType DEF DropLocals

\* NextIteration and Exit.
LEMMA LeaveType ==
    ASSUME TypeOK, NEW t \in Thread, NextIteration(t) \/ Exit(t)
    PROVE  pc' \in [Thread -> Label] /\ frame' \in [Thread -> FrameType]
BY GotoType, DropLocalsType DEF NextIteration, Exit, Label, TypeOK

LEMMA SendType ==
    ASSUME out \in [Client -> Seq(Answer)], NEW to, NEW m \in Answer, Send(to, m)
    PROVE  out' \in [Client -> Seq(Answer)]
<1>1. \A c \in Client : out[c] \in Seq(Answer) /\ Append(out[c], m) \in Seq(Answer)
  OBVIOUS
<1> QED BY <1>1 DEF Send

LEMMA ReceiveType ==
    ASSUME sent \in [Client -> Nat], NEW c \in Client, NEW m, Receive(c, m)
    PROVE  sent' \in [Client -> Nat]
BY DEF Receive

LEMMA SetStatusType ==
    ASSUME room \in [Room -> RoomType], NEW t, At(t) \in Room,
           NEW s \in RoomStatus, SetStatus(t, s)
    PROVE  room' \in [Room -> RoomType]
BY DEF SetStatus, RoomType

LEMMA StatusLockType ==
    ASSUME room \in [Room -> RoomType], NEW r \in Room, NEW s \in RoomStatus,
           NEW x \in Thread \cup {None},
           room' = [room EXCEPT ![r].status = s, ![r].lock = x]
    PROVE  room' \in [Room -> RoomType]
BY DEF RoomType

LEMMA GameOverType ==
    ASSUME game \in [Room -> GameType], NEW r \in Room, GameOver(r)
    PROVE  game' \in [Room -> GameType]
BY DEF GameOver, GameType, DaemonStatus

\* Updates of some fields of game[r].
LEMMA GameUpdateType ==
    ASSUME game \in [Room -> GameType], NEW r \in Room, NEW d \in DaemonStatus,
           NEW u \in SUBSET Request, NEW p \in SUBSET Listener,
           \/ game' = [game EXCEPT ![r].daemon = d]
           \/ game' = [game EXCEPT ![r].unblocked = u]
           \/ game' = [game EXCEPT ![r].daemon = d, ![r].pending = p]
    PROVE  game' \in [Room -> GameType]
BY DEF GameType

LEMMA NewRoomType ==
    ASSUME NEW i \in RoomId \cup {None}, NEW c \in Client \cup {None}, NEW k \in Request
    PROVE  NewRoom(i, c, k) \in RoomType
BY DEF NewRoom, RoomType, RoomStatus, Request

LEMMA NewGameType ==
    ASSUME NEW d \in DaemonStatus
    PROVE  NewGame(d) \in GameType
BY DEF NewGame, GameType

LEMMA AnswerType ==
    /\ \A k \in Color : ReadyMsg(k) \in Answer /\ ResignEnd(k) \in Answer
    /\ {RejectMsg, MoveMsg, ChatMsg, GameEnd} \subseteq Answer
BY DEF Answer, ReadyMsg, ResignEnd

LEMMA ReverseType == \A k : Reverse(k) \in Color
BY DEF Reverse, Color

LEMMA ReleasedType ==
    ASSUME TypeOK, NEW t \in Thread, At(t) \in Room
    PROVE  Released(t) \in Thread \cup {None} /\ Released(t) # t
BY Threads DEF Released, Holds, TypeOK, RoomType

LEMMA ReturnType ==
    ASSUME TypeOK, NEW t \in Thread, Return(t)
    PROVE  /\ pc' \in [Thread -> Label] /\ frame' \in [Thread -> FrameType]
           /\ remained' \in [Thread -> Input(RoomId)]
<1>1. frame[t].msg \in Input(RoomId)
  BY DEF TypeOK, FrameType
<1> QED BY <1>1, LeaveType DEF Return, TypeOK

LEMMA CleanEndedType ==
    ASSUME TypeOK, NEW t \in Thread, At(t) \in Room, NEW x \in {"exit", "oops", "abort"},
           NEW m \in Input(RoomId), CleanEnded(t, x, m)
    PROVE  /\ room' \in [Room -> RoomType] /\ frame' \in [Thread -> FrameType]
           /\ pc' \in [Thread -> Label]
<1>1. room' \in [Room -> RoomType]
  BY Threads, StatusLockType DEF CleanEnded, TypeOK, RoomStatus
<1>2. frame' \in [Thread -> FrameType]
  BY DEF CleanEnded, TypeOK, FrameType
<1>3. pc' \in [Thread -> Label]
  BY GotoType DEF CleanEnded, TypeOK, Label
<1> QED BY <1>1, <1>2, <1>3

-----------------------------------------------------------------------------
(* Types: the actions.                                                       *)

LEMMA DisconnectType ==
    ASSUME TypeOK, NEW c \in Client, Disconnect(c)
    PROVE  TypeOK'
BY DEF Disconnect, TypeOK

LEMMA SpuriousWakeType ==
    ASSUME TypeOK, NEW c \in Client, SpuriousWake(c)
    PROVE  TypeOK'
BY Threads, GotoType DEF SpuriousWake, TypeOK, connVars, Label

LEMMA GetOrCreateRoomType ==
    ASSUME TypeOK, NEW c \in Client, NEW m \in ReadyOp(RoomId), NEW r \in Room,
           GetOrCreateRoom(c, m, r)
    PROVE  /\ rooms' \subseteq Room /\ room' \in [Room -> RoomType]
           /\ game' \in [Room -> GameType]
<1>1. NewRoom(m.id, c, m.color) \in RoomType
  BY NewRoomType DEF ReadyOp
<1>2. NewGame("none") \in GameType
  BY NewGameType DEF DaemonStatus
<1> QED BY <1>1, <1>2 DEF GetOrCreateRoom, TypeOK

LEMMA WaitReadyType ==
    ASSUME TypeOK, NEW c \in Client, WaitReady(c)
    PROVE  TypeOK'
<1>1. PICK m \in Input(RoomId) :
        /\ IF remained[c] = EOF THEN Receive(c, m) ELSE m = remained[c] /\ UNCHANGED sent
        /\ \/ m.op \in {"EOF", "BADREADY"} /\ Exit(c) /\ UNCHANGED <<rooms, room, game>>
           \/ /\ m.op = "READY"
              /\ \E r \in Room :
                   /\ GetOrCreateRoom(c, m, r)
                   /\ frame' = [frame EXCEPT ![c].at = r, ![c].msg = m]
              /\ Goto(c, "joined")
           \/ /\ m.op \notin {"EOF", "READY", "BADREADY"}
              /\ Goto(c, "spin")
              /\ UNCHANGED <<rooms, room, game, frame>>
  BY DEF WaitReady
<1>2. UNCHANGED <<remained, open, out>>
  BY DEF WaitReady
<1>3. sent' \in [Client -> Nat]
  BY <1>1, ReceiveType DEF TypeOK
<1>4. CASE m.op = "READY"
  <2>1. m \in ReadyOp(RoomId)
    BY <1>4 DEF Input, GameOp, MoveOp, EOF
  <2>2. PICK r \in Room : GetOrCreateRoom(c, m, r) /\ frame' = [frame EXCEPT ![c].at = r, ![c].msg = m]
    BY <1>1, <1>4
  <2>3. frame' \in [Thread -> FrameType]
    <3>1. c \in Thread /\ frame \in [Thread -> FrameType]
      BY Threads DEF TypeOK
    <3>2. frame' = [frame EXCEPT ![c].at = r, ![c].msg = m]
      BY <2>2
    <3> QED BY <3>1, <3>2 DEF FrameType
  <2>4. pc' \in [Thread -> Label]
    BY <1>1, <1>4, Threads, GotoType DEF TypeOK, Label
  <2> QED BY <1>2, <1>3, <2>1, <2>2, <2>3, <2>4, GetOrCreateRoomType DEF TypeOK
<1>5. CASE m.op # "READY"
  BY <1>1, <1>2, <1>3, <1>5, Threads, GotoType, LeaveType DEF TypeOK, Label
<1> QED BY <1>4, <1>5

LEMMA WaitingIfIsFirstType ==
    ASSUME TypeOK, InRoom, NEW c \in Client, WaitingIfIsFirst(c)
    PROVE  TypeOK'
<1>1. At(c) \in Room
  BY Threads DEF InRoom, WaitingIfIsFirst
<1> QED BY <1>1, Threads, GotoType, SetStatusType
        DEF WaitingIfIsFirst, TypeOK, connVars, Label, RoomStatus

LEMMA RecheckType ==
    ASSUME TypeOK, NEW c \in Client, Recheck(c)
    PROVE  TypeOK'
BY Threads, GotoType DEF Recheck, TypeOK, connVars, Label

LEMMA SecondPlayerType ==
    ASSUME TypeOK, NEW c \in Client, SecondPlayer(c)
    PROVE  TypeOK'
BY Threads, GotoType, LeaveType, SendType, AnswerType
   DEF SecondPlayer, NotSent, TypeOK, connVars, Label

LEMMA ColorConflictType ==
    ASSUME TypeOK, NEW c \in Client, ColorConflict(c)
    PROVE  TypeOK'
BY Threads, GotoType, LeaveType, SendType, AnswerType
   DEF ColorConflict, Reject, NotSent, TypeOK, connVars, Label

LEMMA StartFailedType ==
    ASSUME TypeOK, InRoom, NEW t \in Thread, StartFailed(t)
    PROVE  TypeOK'
<1>1. At(t) \in Room
  BY DEF InRoom, StartFailed
<1> QED BY <1>1, NotifyAllType, DropLocalsType, SetStatusType
        DEF StartFailed, TypeOK, connVars, Label, RoomStatus

LEMMA StartRoomType ==
    ASSUME TypeOK, InRoom, NEW c \in Client, StartRoom(c)
    PROVE  TypeOK'
<1> DEFINE r == At(c)
<1>1. r \in Room
  BY Threads DEF InRoom, StartRoom
<1>2. room' \in [Room -> RoomType]
  <2>1. PICK k \in Resolved(c) :
          room' = [room EXCEPT ![r].second = c, ![r].color = k, ![r].status = "PLAYING"]
    BY DEF StartRoom
  <2>2. k \in Request
    BY DEF Resolved, ResolveColor, Request
  <2>3. room \in [Room -> RoomType] /\ "PLAYING" \in RoomStatus
    BY DEF TypeOK, RoomStatus
  <2> HIDE DEF r
  <2> QED BY <1>1, <2>1, <2>2, <2>3 DEF RoomType
<1>3. game' \in [Room -> GameType]
  <2>1. PICK d \in {"setup", "lost"} : game' = [game EXCEPT ![r] = NewGame(d)]
    BY <1>1 DEF StartRoom, TypeOK
  <2>2. NewGame(d) \in GameType
    BY NewGameType DEF DaemonStatus
  <2> QED BY <1>1, <2>1, <2>2 DEF TypeOK
<1>4. pc' \in [Thread -> Label]
  BY Threads, NotifyAllType DEF StartRoom, TypeOK, Label
<1> QED BY <1>2, <1>3, <1>4 DEF StartRoom, TypeOK, connVars

LEMMA TakeSeatType ==
    ASSUME TypeOK, InRoom, NEW c \in Client, TakeSeat(c)
    PROVE  TypeOK'
<1> DEFINE R == room[At(c)]
           color == IF pc[c] = "seat1" THEN R.color ELSE Reverse(R.color)
           peer == IF pc[c] = "seat1" THEN R.second ELSE R.first
           l == [sock |-> c, color |-> color, peer |-> peer]
<1>1. At(c) \in Room
  BY Threads DEF InRoom, TakeSeat
<1>2. color \in Request /\ peer \in Client \cup {None}
  BY <1>1, ReverseType DEF TypeOK, RoomType, Request
<1>3. /\ frame' = [frame EXCEPT ![c].color = color, ![c].peer = peer]
      /\ game' = [game EXCEPT ![At(c)].heard = @ \cup {l}]
  BY DEF TakeSeat
<1>4. frame' \in [Thread -> FrameType]
  <2>1. frame \in [Thread -> FrameType]
    BY DEF TypeOK
  <2> HIDE DEF color, peer
  <2> QED BY <1>2, <1>3, <2>1, Threads DEF FrameType
<1>5. game' \in [Room -> GameType]
  <2>1. game \in [Room -> GameType]
    BY DEF TypeOK
  <2>2. l \in Listener
    BY <1>2 DEF Listener
  <2> HIDE DEF l
  <2> QED BY <1>1, <1>3, <2>1, <2>2 DEF GameType
<1>6. pc' \in [Thread -> Label]
  BY Threads, GotoType DEF TakeSeat, TypeOK, Label
<1> QED BY <1>4, <1>5, <1>6 DEF TakeSeat, TypeOK, connVars

LEMMA CheckRoomStatusType ==
    ASSUME TypeOK, InRoom, NEW c \in Client, CheckRoomStatus(c)
    PROVE  TypeOK'
<1>1. At(c) \in Room
  BY Threads DEF InRoom, CheckRoomStatus
<1>2. frame[c].msg \in Input(RoomId)
  BY Threads DEF TypeOK, FrameType
<1> QED BY <1>1, <1>2, Threads, GotoType, LeaveType, CleanEndedType
        DEF CheckRoomStatus, TypeOK, connVars, Label

LEMMA SendReadyType ==
    ASSUME TypeOK, InRoom, Colored, NEW c \in Client, SendReady(c)
    PROVE  TypeOK'
<1>1. At(c) \in Room /\ frame[c].color \in Color
  BY Threads DEF InRoom, Colored, SendReady
<1>2. game' \in [Room -> GameType]
  <2>1. CASE game' = [game EXCEPT ![At(c)].unblocked = @ \cup {frame[c].color}]
    <3>1. game[At(c)].unblocked \cup {frame[c].color} \in SUBSET Request
      BY <1>1 DEF TypeOK, GameType, Request
    <3> QED BY <1>1, <2>1, <3>1 DEF TypeOK, GameType
  <2>2. CASE UNCHANGED game
    BY <2>2 DEF TypeOK
  <2> QED BY <2>1, <2>2 DEF SendReady
<1>3. pc' \in [Thread -> Label] /\ frame' \in [Thread -> FrameType]
  BY Threads, GotoType, LeaveType DEF SendReady, TypeOK, Label
<1>4. out' \in [Client -> Seq(Answer)]
  BY <1>1, SendType, AnswerType DEF SendReady, NotSent, TypeOK
<1> QED BY <1>2, <1>3, <1>4 DEF SendReady, TypeOK

LEMMA ListenType ==
    ASSUME TypeOK, InRoom, NEW c \in Client, Listen(c)
    PROVE  TypeOK'
<1>1. At(c) \in Room
  BY Threads DEF InRoom, Listen
<1>2. PICK m \in Input(RoomId) :
        /\ Receive(c, m)
        /\ \/ /\ Dispatch(c, m)
              /\ frame' = [frame EXCEPT ![c].msg = m]
              /\ UNCHANGED <<room, remained>>
           \/ CleanEnded(c, "oops", m) /\ UNCHANGED remained
           \/ /\ remained' = [remained EXCEPT ![c] = m]
              /\ NextIteration(c)
              /\ UNCHANGED room
  BY DEF Listen
<1>3. sent' \in [Client -> Nat]
  BY <1>2, ReceiveType DEF TypeOK
<1>4. UNCHANGED <<rooms, game, open, out>>
  BY DEF Listen
<1>5. CASE Dispatch(c, m) /\ frame' = [frame EXCEPT ![c].msg = m] /\ UNCHANGED <<room, remained>>
  <2>1. frame' \in [Thread -> FrameType]
    BY <1>5, Threads DEF TypeOK, FrameType
  <2>2. pc' \in [Thread -> Label]
    BY <1>5, Threads, GotoType DEF Dispatch, TypeOK, Label
  <2> QED BY <1>3, <1>4, <1>5, <2>1, <2>2 DEF TypeOK
<1>6. CASE CleanEnded(c, "oops", m) /\ UNCHANGED remained
  BY <1>1, <1>3, <1>4, <1>6, Threads, CleanEndedType DEF TypeOK
<1>7. CASE remained' = [remained EXCEPT ![c] = m] /\ NextIteration(c) /\ UNCHANGED room
  BY <1>3, <1>4, <1>7, Threads, LeaveType DEF TypeOK
<1> QED BY <1>2, <1>5, <1>6, <1>7

LEMMA CommitMoveType ==
    ASSUME TypeOK, InRoom, NEW c \in Client, CommitMove(c)
    PROVE  TypeOK'
<1>1. At(c) \in Room
  BY Threads DEF InRoom, CommitMove
<1>2. game' \in [Room -> GameType]
  <2>1. \A k : Moved(k) \in DaemonStatus
    BY DEF Moved, DaemonStatus
  <2>2. \/ UNCHANGED game
        \/ \E d \in DaemonStatus : game' = [game EXCEPT ![At(c)].daemon = d]
    BY <2>1 DEF CommitMove
  <2> QED BY <1>1, <2>2, GameUpdateType DEF TypeOK
<1>3. pc' \in [Thread -> Label]
  BY Threads, GotoType DEF CommitMove, TypeOK, Label
<1> QED BY <1>2, <1>3 DEF CommitMove, TypeOK, connVars

LEMMA ChatType ==
    ASSUME TypeOK, NEW c \in Client, Chat(c)
    PROVE  TypeOK'
BY Threads, GotoType, SendType, AnswerType DEF Chat, NotSent, TypeOK, Label

LEMMA ResignType ==
    ASSUME TypeOK, NEW c \in Client, Resign(c)
    PROVE  TypeOK'
<1>1. ResignEnd(Winner(c)) \in Answer
  BY ReverseType, AnswerType DEF Winner
<1> QED BY <1>1, Threads, GotoType, SendType DEF Resign, NotSent, TypeOK, Label

LEMMA CloseRoomType ==
    ASSUME TypeOK, InRoom, NEW c \in Client, CloseRoom(c)
    PROVE  TypeOK'
<1>1. At(c) \in Room
  BY Threads DEF InRoom, CloseRoom
<1>2. frame' \in [Thread -> FrameType]
  <2>1. PICK x \in {"oops", "exit"} : frame' = [frame EXCEPT ![c].trap = x]
    BY DEF CloseRoom
  <2> QED BY <2>1, Threads DEF TypeOK, FrameType
<1>3. pc' \in [Thread -> Label] /\ room' \in [Room -> RoomType]
  BY <1>1, Threads, GotoType, SetStatusType DEF CloseRoom, TypeOK, Label, RoomStatus
<1> QED BY <1>2, <1>3 DEF CloseRoom, TypeOK, connVars

LEMMA CreateAgentsType ==
    ASSUME TypeOK, NEW r \in Room, CreateAgents(r)
    PROVE  TypeOK'
<1>1. game' \in [Room -> GameType]
  <2>1. game \in [Room -> GameType] /\ "BLACK" \in DaemonStatus
    BY DEF TypeOK, DaemonStatus
  <2>2. game' = [game EXCEPT ![r].daemon = "BLACK", ![r].attached = TRUE]
    BY DEF CreateAgents
  <2> QED BY <2>1, <2>2 DEF GameType
<1> QED BY <1>1 DEF CreateAgents, TypeOK, connVars

LEMMA MakeMoveType ==
    ASSUME TypeOK, NEW r \in Room, MakeMove(r)
    PROVE  TypeOK'
<1>1. game' \in [Room -> GameType]
  <2>1. CASE GameOver(r)
    BY <2>1, GameOverType DEF TypeOK
  <2>2. CASE \E d \in DaemonStatus : game' = [game EXCEPT ![r].daemon = d]
    BY <2>2, GameUpdateType DEF TypeOK
  <2>3. \A k : Reverse(k) \in DaemonStatus
    BY DEF Reverse, DaemonStatus
  <2> QED BY <2>1, <2>2, <2>3 DEF MakeMove, DaemonStatus
<1>2. out' \in [Client -> Seq(Answer)]
  BY SendType, AnswerType DEF MakeMove, NotSent, TypeOK
<1> QED BY <1>1, <1>2 DEF MakeMove, TypeOK

LEMMA NextListenerType ==
    ASSUME TypeOK, NEW r \in Room, NextListener(r)
    PROVE  TypeOK'
<1>1. game' \in [Room -> GameType]
  <2>1. PICK d \in {"listener", "done"} : game' = [game EXCEPT ![r].daemon = d]
    BY DEF NextListener
  <2>2. d \in DaemonStatus
    BY DEF DaemonStatus
  <2> QED BY <2>1, <2>2, GameUpdateType DEF TypeOK
<1> QED BY <1>1 DEF NextListener, TypeOK, connVars

LEMMA OnGameEndedType ==
    ASSUME TypeOK, NEW r \in Room, OnGameEnded(r)
    PROVE  TypeOK'
<1>1. PICK l \in game[r].pending :
        \/ /\ IF NotEnded(r)
                THEN Send({l.sock, l.peer}, GameEnd) /\ room' = [room EXCEPT ![r].status = "ENDED"]
                ELSE UNCHANGED <<room, out>>
           /\ game' = [game EXCEPT ![r].daemon = "over", ![r].pending = @ \ {l}]
        \/ /\ NotSent(l.sock) \/ (Throws(l.peer) /\ Send({l.sock}, GameEnd))
           /\ game' = [game EXCEPT ![r].daemon = "done"]
           /\ UNCHANGED room
  BY DEF OnGameEnded
<1>2. game' \in [Room -> GameType]
  <2>1. game \in [Room -> GameType] /\ game[r].pending \ {l} \in SUBSET Listener
    BY DEF TypeOK, GameType
  <2>2. {"over", "done"} \subseteq DaemonStatus
    BY DEF DaemonStatus
  <2>3. CASE game' = [game EXCEPT ![r].daemon = "over", ![r].pending = @ \ {l}]
    BY <2>1, <2>2, <2>3 DEF GameType
  <2>4. CASE game' = [game EXCEPT ![r].daemon = "done"]
    BY <2>1, <2>2, <2>4, GameUpdateType
  <2> QED BY <1>1, <2>3, <2>4
<1>3. room' \in [Room -> RoomType]
  <2>1. \/ UNCHANGED room
        \/ room' = [room EXCEPT ![r].status = "ENDED"]
    BY <1>1
  <2>2. room \in [Room -> RoomType] /\ "ENDED" \in RoomStatus
    BY DEF TypeOK, RoomStatus
  <2> QED BY <2>1, <2>2 DEF RoomType
<1>4. out' \in [Client -> Seq(Answer)]
  BY <1>1, SendType, AnswerType DEF NotSent, TypeOK
<1> QED BY <1>2, <1>3, <1>4 DEF OnGameEnded, TypeOK

LEMMA CleanType ==
    ASSUME TypeOK, InRoom, NEW t \in Thread, Clean(t)
    PROVE  TypeOK'
<1>1. At(t) \in Room
  BY DEF InRoom, Clean
<1>2. CASE Status(t) = "REMOVED"
  <2>1. /\ room' = [room EXCEPT ![At(t)].lock = Released(t)]
        /\ Return(t)
        /\ UNCHANGED <<rooms, game, connVars>>
    BY <1>2 DEF Clean
  <2>2. room' \in [Room -> RoomType]
    BY <1>1, <2>1, ReleasedType DEF TypeOK, RoomType
  <2> QED BY <2>1, <2>2, ReturnType DEF TypeOK, connVars
<1>3. CASE Status(t) # "REMOVED"
  <2>1. /\ \/ UNCHANGED game
           \/ game' = [game EXCEPT ![At(t)].attached = FALSE, ![At(t)].killers = @ \cup {t}]
        /\ Goto(t, "join") \/ Goto(t, "kill")
        /\ UNCHANGED <<rooms, room, frame, remained, connVars>>
    BY <1>3 DEF Clean
  <2>2. game' \in [Room -> GameType]
    <3>1. game \in [Room -> GameType] /\ game[At(t)].killers \cup {t} \in SUBSET Thread
      BY <1>1 DEF TypeOK, GameType
    <3> QED BY <1>1, <2>1, <3>1 DEF GameType
  <2>3. pc' \in [Thread -> Label]
    BY <2>1, GotoType DEF TypeOK, Label
  <2> QED BY <2>1, <2>2, <2>3 DEF TypeOK, connVars
<1> QED BY <1>2, <1>3

LEMMA KillGameType ==
    ASSUME TypeOK, InRoom, NEW t \in Thread, KillGame(t)
    PROVE  TypeOK'
<1>1. At(t) \in Room
  BY DEF InRoom, KillGame
<1> QED BY <1>1, GotoType, GameOverType DEF KillGame, TypeOK, connVars, Label

LEMMA TestJoinableType ==
    ASSUME TypeOK, NEW t \in Thread, TestJoinable(t)
    PROVE  TypeOK'
BY GotoType DEF TestJoinable, TypeOK, connVars, Label

LEMMA JoinDaemonType ==
    ASSUME TypeOK, InRoom, NEW t \in Thread, JoinDaemon(t)
    PROVE  TypeOK'
<1>1. At(t) \in Room
  BY DEF InRoom, JoinDaemon
<1>2. game' \in [Room -> GameType]
  <2>1. UNCHANGED game \/ game' = [game EXCEPT ![At(t)].daemon = "joined"]
    BY DEF JoinDaemon
  <2>2. "joined" \in DaemonStatus
    BY DEF DaemonStatus
  <2> QED BY <1>1, <2>1, <2>2, GameUpdateType DEF TypeOK
<1>3. room' \in [Room -> RoomType]
  <2>1. UNCHANGED room \/ room' = [room EXCEPT ![At(t)].lock = Released(t)]
    BY DEF JoinDaemon
  <2>2. room \in [Room -> RoomType] /\ Released(t) \in Thread \cup {None}
    BY <1>1, ReleasedType DEF TypeOK
  <2> QED BY <1>1, <2>1, <2>2 DEF RoomType
<1>4. pc' \in [Thread -> Label]
  <2>1. {"test", frame[t].trap} \subseteq Label
    BY DEF TypeOK, FrameType, Label
  <2> QED BY <2>1, GotoType DEF JoinDaemon, TypeOK
<1>5. frame' \in [Thread -> FrameType]
  BY DropLocalsType DEF JoinDaemon, TypeOK
<1> QED BY <1>2, <1>3, <1>4, <1>5 DEF JoinDaemon, TypeOK, connVars

LEMMA TestWaitingType ==
    ASSUME TypeOK, NEW t \in Thread, TestWaiting(t)
    PROVE  TypeOK'
BY GotoType DEF TestWaiting, TypeOK, connVars, Label

LEMMA EraseRoomType ==
    ASSUME TypeOK, InRoom, NEW t \in Thread, EraseRoom(t)
    PROVE  TypeOK'
<1>1. At(t) \in Room
  BY DEF InRoom, EraseRoom
<1>2. room' \in [Room -> RoomType]
  BY <1>1, ReleasedType, StatusLockType DEF EraseRoom, TypeOK, RoomStatus
<1> QED BY <1>2, ReturnType DEF EraseRoom, TypeOK, connVars

LEMMA ShutdownServiceType ==
    ASSUME TypeOK, NEW t \in Admin, ShutdownService(t)
    PROVE  TypeOK'
BY Threads, GotoType DEF ShutdownService, TypeOK, connVars, Label

LEMMA PickRoomType ==
    ASSUME TypeOK, NEW t \in Admin, PickRoom(t)
    PROVE  TypeOK'
<1>1. frame' \in [Thread -> FrameType]
  <2>1. frame \in [Thread -> FrameType] /\ rooms \subseteq Room
    BY DEF TypeOK
  <2>2. CASE \E r \in rooms : frame' = [frame EXCEPT ![t].at = r, ![t].trap = "abort"]
    BY <2>1, <2>2, Threads DEF FrameType
  <2> QED BY <2>1, <2>2 DEF PickRoom
<1> QED BY <1>1, Threads, GotoType DEF PickRoom, TypeOK, connVars, Label

-----------------------------------------------------------------------------
(* The type invariant.                                                       *)

LEMMA InitInv == Init => IndInv
<1> SUFFICES ASSUME Init PROVE IndInv
  OBVIOUS
<1>1. TypeOK
  <2>1. room \in [Room -> RoomType]
    BY NewRoomType DEF Init, Request
  <2>2. game \in [Room -> GameType]
    BY NewGameType DEF Init, DaemonStatus
  <2>3. pc \in [Thread -> Label] /\ frame \in [Thread -> FrameType]
    BY NoFrameType DEF Init, Label
  <2>4. remained \in [Thread -> Input(RoomId)]
    BY EOFType DEF Init
  <2>5. out \in [Client -> Seq(Answer)]
    BY DEF Init
  <2> QED BY <2>1, <2>2, <2>3, <2>4, <2>5 DEF Init, TypeOK
<1>2. UniqueIds /\ RemovedUnregistered
  BY DEF Init, UniqueIds, RemovedUnregistered
<1>3. LockDiscipline
  BY Threads DEF Init, LockDiscipline, NewRoom
<1>4. InRoom
  BY DEF Init, InRoom
<1>5. Colored
  BY DEF Init, Colored, NewRoom
<1> QED BY <1>1, <1>2, <1>3, <1>4, <1>5 DEF IndInv

LEMMA NextType == ASSUME TypeOK, InRoom, Colored, Next PROVE TypeOK'
<1>1. CASE \E c \in Client : Disconnect(c) \/ SpuriousWake(c)
  BY <1>1, DisconnectType, SpuriousWakeType
<1>2. CASE \E c \in Client : Handler(c)
  BY <1>2, WaitReadyType, WaitingIfIsFirstType, RecheckType, SecondPlayerType,
     ColorConflictType, StartRoomType, TakeSeatType, CheckRoomStatusType, SendReadyType,
     ListenType, CommitMoveType, ChatType, ResignType, CloseRoomType DEF Handler
<1>3. CASE \E t \in Thread : CleanUp(t)
  BY <1>3, CleanType, KillGameType, TestJoinableType, JoinDaemonType, TestWaitingType,
     StartFailedType, EraseRoomType DEF CleanUp
<1>4. CASE \E t \in Admin : ShutdownService(t) \/ PickRoom(t)
  BY <1>4, ShutdownServiceType, PickRoomType
<1>5. CASE \E r \in Room : Daemon(r)
  BY <1>5, CreateAgentsType, MakeMoveType, NextListenerType, OnGameEndedType DEF Daemon
<1> QED BY <1>1, <1>2, <1>3, <1>4, <1>5 DEF Next
=============================================================================
