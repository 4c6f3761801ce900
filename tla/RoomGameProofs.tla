--------------------------- MODULE RoomGameProofs ---------------------------
(***************************************************************************)
(* Proofs about the game of two clients: ToldInv is kept by every step, so  *)
(* that GameInv is an invariant and what RoomProperties promises the        *)
(* players follows; the service implements Match; and, when nobody calls    *)
(* ShutdownService, JoinInv is an invariant: every daemon is joined.        *)
(***************************************************************************)
EXTENDS RoomMeetProofs

-----------------------------------------------------------------------------
(* Being told: what sending a message does.                                  *)

\* The messages differ in their operation, their reason or their colour.
LEMMA Messages ==
    /\ \A k, j \in Color : /\ ReadyMsg(k) = ReadyMsg(j) => k = j
                           /\ ResignEnd(k) = ResignEnd(j) => k = j
                           /\ ReadyMsg(k) # ResignEnd(j)
    /\ \A k \in Color : \A m \in {RejectMsg, MoveMsg, ChatMsg, GameEnd} :
           ReadyMsg(k) # m /\ ResignEnd(k) # m
    /\ RejectMsg # MoveMsg /\ RejectMsg # GameEnd
    /\ ChatMsg # MoveMsg /\ ChatMsg # GameEnd /\ MoveMsg # GameEnd
<1>1. /\ \A k : ReadyMsg(k).op = "READY" /\ ReadyMsg(k).color = k
      /\ \A k : ResignEnd(k).op = "END" /\ ResignEnd(k).reason = "RESIGN" /\ ResignEnd(k).winner = k
      /\ RejectMsg.op = "REJECT" /\ MoveMsg.op = "MOVE" /\ ChatMsg.op = "CHAT"
      /\ GameEnd.op = "END" /\ GameEnd.reason = "GAME"
  BY DEF ReadyMsg, ResignEnd, RejectMsg, MoveMsg, ChatMsg, GameEnd
<1> QED BY <1>1

LEMMA Counted ==
    ASSUME TypeOK, NEW p \in Client, NEW m
    PROVE  /\ IsFiniteSet({i \in DOMAIN out[p] : out[p][i] = m})
           /\ Count(p, m) \in Nat
           /\ Count(p, m) = 0 <=> m \notin Got(p)
<1> DEFINE S == {i \in DOMAIN out[p] : out[p][i] = m}
<1>1. out[p] \in Seq(Answer)
  BY DEF TypeOK
<1>2. IsFiniteSet(1 .. Len(out[p])) /\ S \subseteq 1 .. Len(out[p])
  BY <1>1, FS_Interval
<1>3. IsFiniteSet(S)
  BY <1>2, FS_Subset
<1>4. Cardinality(S) \in Nat /\ (Cardinality(S) = 0 <=> S = {})
  BY <1>3, FS_CardinalityType, FS_EmptySet
<1>5. S = {} <=> m \notin Got(p)
  BY DEF Got
<1> QED BY <1>3, <1>4, <1>5 DEF Count

LEMMA SentEffect ==
    ASSUME TypeOK, NEW to, NEW m, Send(to, m), NEW p \in Client
    PROVE  /\ p \notin to => out'[p] = out[p]
           /\ p \in to => /\ Got(p)' = Got(p) \cup {m}
                          /\ Count(p, m)' = Count(p, m) + 1
                          /\ \A x : x # m => Count(p, x)' = Count(p, x)
<1>1. out[p] \in Seq(Answer) /\ out'[p] = IF p \in to THEN Append(out[p], m) ELSE out[p]
  BY DEF TypeOK, Send
<1> SUFFICES ASSUME p \in to
             PROVE  /\ Got(p)' = Got(p) \cup {m}
                    /\ Count(p, m)' = Count(p, m) + 1
                    /\ \A x : x # m => Count(p, x)' = Count(p, x)
  BY <1>1
<1> DEFINE n == Len(out[p]) + 1
           At1(x) == {i \in DOMAIN out[p] : out[p][i] = x}
           At2(x) == {i \in DOMAIN out'[p] : out'[p][i] = x}
<1>2. /\ n \in Nat /\ DOMAIN out[p] = 1 .. (n - 1) /\ DOMAIN out'[p] = 1 .. n
      /\ out'[p][n] = m /\ \A i \in 1 .. (n - 1) : out'[p][i] = out[p][i]
  BY <1>1
<1>3. At2(m) = At1(m) \cup {n} /\ n \notin At1(m) /\ \A x : x # m => At2(x) = At1(x)
  BY <1>2
<1>4. Got(p)' = Got(p) \cup {m}
  BY <1>2 DEF Got
<1>5. IsFiniteSet(At1(m))
  BY Counted
<1>6. Cardinality(At2(m)) = Cardinality(At1(m)) + 1
  BY <1>3, <1>5, FS_AddElement
<1> QED BY <1>3, <1>4, <1>6 DEF Count

-----------------------------------------------------------------------------
(* Being told: what a step has to respect.                                   *)

\* A player is told no colour but its own, and before it is unblocked or listens.
Tells ==
    \A p \in Client :
        /\ Got(p) \subseteq Got(p)'
        /\ (\A r \in Room : ~Seated(r)) => Got(p)' \subseteq Got(p) \cup {RejectMsg}
        /\ \A r \in Room : Paired(r) =>
              /\ \A k \in Color : {ReadyMsg(k), ResignEnd(k)} \cap Got(p)' \subseteq Got(p) \/ k = Seat(r, p)
              /\ pc'[p] \in InGame => pc[p] \in InGame \/ ReadyMsg(Seat(r, p)) \in Got(p)'
              /\ Seat(r, p) \in game'[r].unblocked =>
                    Seat(r, p) \in game[r].unblocked \/ ReadyMsg(Seat(r, p)) \in Got(p)'

LEMMA TellsStep ==
    ASSUME ToldInv, NEW t, Steady(t), Tells
    PROVE  Silence' /\ Colours'
<1>1. \A r \in Room : /\ Seated(r)' = Seated(r) /\ Paired(r)' = Paired(r)
                      /\ \A p : Seat(r, p)' = Seat(r, p)
  BY RoomsStay DEF Steady
<1>2. Silence'
  BY <1>1 DEF ToldInv, Silence, Tells
<1>3. Colours'
  <2> SUFFICES ASSUME NEW r \in Room, Paired(r), NEW p \in Client
               PROVE  /\ \A k \in Color : ReadyMsg(k) \in Got(p)' \/ ResignEnd(k) \in Got(p)' => k = Seat(r, p)
                      /\ pc'[p] \in InGame => ReadyMsg(Seat(r, p)) \in Got(p)'
                      /\ Seat(r, p) \in game'[r].unblocked => ReadyMsg(Seat(r, p)) \in Got(p)'
    BY <1>1 DEF Colours, InGame, ReadyMsg, ResignEnd
  <2> QED BY DEF ToldInv, Colours, Tells
<1> QED BY <1>2, <1>3

\* No move is told, and the turn does not pass.
MovesOn ==
    \A r \in Room : Paired(r) =>
        /\ \A p \in Client : Count(p, MoveMsg)' = Count(p, MoveMsg)
        /\ game'[r].daemon \in Asleep => game[r].daemon \in Asleep
        /\ \A k \in Color : game'[r].attached /\ game'[r].daemon \in {k, Moved(k)} =>
              \/ game[r].attached /\ game[r].daemon \in {k, Moved(k)}
              \/ game[r].daemon \in Asleep /\ k = "BLACK"

LEMMA MovesStep ==
    ASSUME IndInv, ToldInv, NEW t, Steady(t), MovesOn
    PROVE  Turns'
<1>1. \A r \in Room : Paired(r)' = Paired(r) /\ \A p : Seat(r, p)' = Seat(r, p)
  BY RoomsStay DEF Steady
<1> SUFFICES ASSUME NEW r \in Room, Paired(r), NEW p \in Client, NEW q \in Client,
                    Seat(r, p) = "WHITE", Seat(r, q) = "BLACK"
             PROVE  /\ Ahead(p, q)' \in {0, 1}
                    /\ game'[r].attached /\ game'[r].daemon \in {"BLACK", "BLACK moved"} => Ahead(p, q)' = 0
                    /\ game'[r].attached /\ game'[r].daemon \in {"WHITE", "WHITE moved"} => Ahead(p, q)' = 1
                    /\ game'[r].daemon \in Asleep => Count(p, MoveMsg)' = 0 /\ Count(q, MoveMsg)' = 0
  BY <1>1 DEF Turns, Asleep
<1>2. Count(p, MoveMsg)' = Count(p, MoveMsg) /\ Count(q, MoveMsg)' = Count(q, MoveMsg)
  BY DEF MovesOn
<1>3. Ahead(p, q)' = Ahead(p, q)
  BY <1>2 DEF Ahead
<1>4. /\ Ahead(p, q) \in {0, 1}
      /\ game[r].attached /\ game[r].daemon \in {"BLACK", "BLACK moved"} => Ahead(p, q) = 0
      /\ game[r].attached /\ game[r].daemon \in {"WHITE", "WHITE moved"} => Ahead(p, q) = 1
      /\ game[r].daemon \in Asleep => Count(p, MoveMsg) = 0 /\ Count(q, MoveMsg) = 0
  BY DEF ToldInv, Turns
<1>5. game[r].daemon \in Asleep => Ahead(p, q) = 0
  <2>1. ASSUME Count(p, MoveMsg) = 0, Count(q, MoveMsg) = 0 PROVE Ahead(p, q) = 0
    BY <2>1 DEF Ahead
  <2> QED BY <1>4, <2>1
<1>6. /\ game'[r].attached /\ game'[r].daemon \in {"BLACK", "BLACK moved"} =>
            \/ game[r].attached /\ game[r].daemon \in {"BLACK", "BLACK moved"}
            \/ game[r].daemon \in Asleep
      /\ game'[r].attached /\ game'[r].daemon \in {"WHITE", "WHITE moved"} =>
            game[r].attached /\ game[r].daemon \in {"WHITE", "WHITE moved"}
      /\ game'[r].daemon \in Asleep => game[r].daemon \in Asleep
  BY DEF MovesOn, Moved, Color
<1> QED BY <1>2, <1>3, <1>4, <1>5, <1>6

\* No end is told, and a game that has ended stays so.
EndsOn ==
    \A r \in Room : Paired(r) =>
        /\ \A p \in Client : Count(p, GameEnd)' = Count(p, GameEnd) /\ (open'[p] => open[p])
        /\ InPlay(r)' => InPlay(r)

LEMMA EndsStep ==
    ASSUME OneGame, ToldInv, NEW t, Steady(t), EndsOn
    PROVE  Endings'
<1>1. \A r \in Room : Paired(r)' = Paired(r)
  BY RoomsStay DEF Steady
<1> SUFFICES ASSUME NEW r \in Room, Paired(r)
             PROVE  /\ InPlay(r)' => \A p \in Client : Count(p, GameEnd)' = 0
                    /\ \A p \in Client : Count(p, GameEnd)' \in {0, 1}
                    /\ (\A p \in Client : open'[p]) => Count(One, GameEnd)' = Count(Other, GameEnd)'
  BY <1>1 DEF Endings
<1> QED BY TwoClients DEF ToldInv, Endings, EndsOn

\* A step that tells nobody anything.
LEMMA QuietTells ==
    ASSUME UNCHANGED out, NEW t, Steady(t), t \in Client => pc[t] # "ready",
           \A r \in Room : game'[r].unblocked = game[r].unblocked
    PROVE  Tells
<1>1. \A p \in Client : pc'[p] \in InGame => pc[p] \in InGame
  BY Threads DEF Steady, Calm, Others, InGame
<1>2. \A p \in Client : Got(p)' = Got(p)
  BY DEF Got
<1> QED BY <1>1, <1>2 DEF Tells

LEMMA QuietCounts ==
    ASSUME UNCHANGED out
    PROVE  \A p, m : Count(p, m)' = Count(p, m)
BY DEF Count

\* A step that leaves every daemon alone.
LEMMA RoomsAsleep ==
    ASSUME NEW t, Steady(t), \A r \in Room : game'[r] = game[r]
    PROVE  \A r \in Room : InPlay(r)' => InPlay(r)
BY DEF Steady, Keeps, InPlay, Asleep, Color, Moved

LEMMA ToldQuiet ==
    ASSUME OneGame, IndInv, ToldInv, NEW t, Steady(t), UNCHANGED out,
           \A r \in Room : game'[r] = game[r],
           t \in Client => pc[t] # "ready",
           \A p \in Client : open'[p] => open[p]
    PROVE  ToldInv'
<1>1. Tells
  BY QuietTells
<1>2. MovesOn
  BY QuietCounts DEF MovesOn
<1>3. EndsOn
  BY QuietCounts, RoomsAsleep DEF EndsOn
<1> QED BY <1>1, <1>2, <1>3, TellsStep, MovesStep, EndsStep DEF ToldInv

\* Before a game is started only a REJECT can be told.
LEMMA ToldIdle ==
    ASSUME \A r \in Room : ~Seated(r)', \A p \in Client : Got(p)' \subseteq {RejectMsg}
    PROVE  ToldInv'
<1>1. \A r \in Room : ~Paired(r)'
  BY DEF Paired, Seated
<1> QED BY <1>1 DEF ToldInv, Silence, Colours, Turns, Endings

\* A step that tells nobody anything and changes one daemon.
LEMMA ToldDaemon ==
    ASSUME OneGame, IndInv, ToldInv, NEW t, Steady(t), UNCHANGED <<out, open>>,
           t \in Client => pc[t] # "ready",
           NEW r \in Room, \A q \in Room \ {r} : game'[q] = game[q],
           game'[r].unblocked = game[r].unblocked,
           game'[r].daemon \in Asleep => game[r].daemon \in Asleep,
           \A k \in Color : game'[r].attached /\ game'[r].daemon \in {k, Moved(k)} =>
              \/ game[r].attached /\ game[r].daemon \in {k, Moved(k)}
              \/ game[r].daemon \in Asleep /\ k = "BLACK",
           InPlay(r)' => InPlay(r)
    PROVE  ToldInv'
<1>1. Tells
  BY QuietTells
<1>2. MovesOn
  BY QuietCounts DEF MovesOn
<1>3. EndsOn
  <2>1. \A q \in Room : InPlay(q)' => InPlay(q)
    BY DEF Steady, Keeps, InPlay, Asleep, Color, Moved
  <2> QED BY <2>1, QuietCounts DEF EndsOn
<1> QED BY <1>1, <1>2, <1>3, TellsStep, MovesStep, EndsStep DEF ToldInv

\* Players are told something that is neither a move nor the end of the game.
LEMMA ToldOther ==
    ASSUME OneGame, IndInv, ToldInv, NEW t, Steady(t), UNCHANGED open,
           NEW r \in Room, Seated(r),
           NEW to, NEW m, Send(to, m), m \notin {MoveMsg, GameEnd},
           \A q \in Room : \A p \in to \cap Client : \A k \in Color :
               Paired(q) /\ m \in {ReadyMsg(k), ResignEnd(k)} => k = Seat(q, p),
           \A p \in Client : pc'[p] \in InGame /\ pc[p] \notin InGame =>
               \A q \in Room : Paired(q) => p \in to /\ m = ReadyMsg(Seat(q, p)),
           \A q \in Room : /\ game'[q].daemon = game[q].daemon
                           /\ game'[q].attached = game[q].attached
                           /\ \A p \in Client : Paired(q) /\ Seat(q, p) \in game'[q].unblocked =>
                                 \/ Seat(q, p) \in game[q].unblocked
                                 \/ p \in to /\ m = ReadyMsg(Seat(q, p))
    PROVE  ToldInv'
<1>1. \A p \in Client : /\ p \notin to => out'[p] = out[p]
                        /\ p \in to => Got(p)' = Got(p) \cup {m}
  BY SentEffect DEF IndInv
<1>2. \A p \in Client : /\ Count(p, MoveMsg)' = Count(p, MoveMsg)
                        /\ Count(p, GameEnd)' = Count(p, GameEnd)
  <2> SUFFICES ASSUME NEW p \in Client
               PROVE  /\ Count(p, MoveMsg)' = Count(p, MoveMsg)
                      /\ Count(p, GameEnd)' = Count(p, GameEnd)
    OBVIOUS
  <2>1. CASE p \in to
    BY <2>1, SentEffect DEF IndInv
  <2>2. CASE p \notin to
    BY <1>1, <2>2 DEF Count
  <2> QED BY <2>1, <2>2
<1>3. \A p \in Client : p \notin to => Got(p)' = Got(p)
  BY <1>1 DEF Got
<1>4. Tells
  <2> SUFFICES ASSUME NEW p \in Client, NEW q \in Room, Paired(q)
               PROVE  /\ \A k \in Color : {ReadyMsg(k), ResignEnd(k)} \cap Got(p)' \subseteq Got(p)
                                             \/ k = Seat(q, p)
                      /\ pc'[p] \in InGame => pc[p] \in InGame \/ ReadyMsg(Seat(q, p)) \in Got(p)'
                      /\ Seat(q, p) \in game'[q].unblocked =>
                            Seat(q, p) \in game[q].unblocked \/ ReadyMsg(Seat(q, p)) \in Got(p)'
    BY <1>1, <1>3 DEF Tells
  <2>1. CASE p \in to
    BY <1>1, <2>1
  <2>2. CASE p \notin to
    BY <1>3, <2>2
  <2> QED BY <2>1, <2>2
<1>5. MovesOn
  BY <1>2 DEF MovesOn
<1>6. EndsOn
  <2>1. \A q \in Room : InPlay(q)' => InPlay(q)
    BY DEF Steady, Keeps, InPlay, Asleep, Color, Moved
  <2> QED BY <1>2, <2>1 DEF EndsOn
<1> QED BY <1>4, <1>5, <1>6, TellsStep, MovesStep, EndsStep DEF ToldInv

-----------------------------------------------------------------------------
(* Being told: the actions.                                                  *)

LEMMA QuietHandlerTold ==
    ASSUME OneGame, IndInv, MeetInv, ToldInv, NEW c \in Client,
           SpuriousWake(c) \/ Recheck(c) \/ CheckRoomStatus(c) \/ Listen(c) \/ CloseRoom(c)
    PROVE  ToldInv'
<1>1. Steady(c)
  BY SpuriousWakeSteady, RecheckSteady, CheckRoomStatusSteady, ListenSteady, CloseRoomSteady
<1>2. UNCHANGED <<game, out, open>>
  BY DEF SpuriousWake, Recheck, CheckRoomStatus, Listen, CloseRoom, connVars
<1>3. pc[c] # "ready"
  BY DEF SpuriousWake, Recheck, CheckRoomStatus, Listen, CloseRoom
<1> QED BY <1>1, <1>2, <1>3, ToldQuiet

LEMMA QuietCleanUpTold ==
    ASSUME OneGame, IndInv, MeetInv, ToldInv, NEW t \in Thread,
           TestJoinable(t) \/ TestWaiting(t) \/ StartFailed(t) \/ EraseRoom(t)
    PROVE  ToldInv'
<1>1. Steady(t)
  BY TestSteady, StartFailedSteady, EraseRoomSteady
<1>2. UNCHANGED <<game, out, open>>
  BY DEF TestJoinable, TestWaiting, StartFailed, EraseRoom, connVars
<1>3. pc[t] # "ready"
  BY DEF TestJoinable, TestWaiting, StartFailed, EraseRoom
<1> QED BY <1>1, <1>2, <1>3, ToldQuiet

LEMMA AdminTold ==
    ASSUME OneGame, IndInv, MeetInv, ToldInv, NEW t \in Admin, ShutdownService(t) \/ PickRoom(t)
    PROVE  ToldInv'
<1>1. Steady(t) /\ t \notin Client
  BY AdminSteady, ConstantsOK
<1>2. UNCHANGED <<game, out, open>>
  BY DEF ShutdownService, PickRoom, connVars
<1> QED BY <1>1, <1>2, ToldQuiet

\* Whoever is on its way into a room has seen nothing told but a REJECT.
LEMMA SilentYet ==
    ASSUME MeetInv, ToldInv, NEW c \in Client, ~Past(c)
    PROVE  \A p \in Client : Got(p) \subseteq {RejectMsg}
BY DEF MeetInv, Waited, ToldInv, Silence

LEMMA WaitReadyTold ==
    ASSUME OneGame, IndInv, MeetInv, SeatInv, ToldInv, NEW c \in Client, WaitReady(c)
    PROVE  ToldInv'
<1>1. UNCHANGED <<out, open>> /\ pc[c] = "idle"
  BY DEF WaitReady
<1>2. ASSUME NEW m \in Input(RoomId), NEW r \in Room, ComesIn(c, m, r) PROVE ToldInv'
  <2>1. ~Past(c) /\ (UNCHANGED room \/ room' = [room EXCEPT ![r] = NewRoom(m.id, c, m.color)])
    BY <1>2 DEF ComesIn, Past, GetOrCreateRoom
  <2>2. \A q \in Room : ~Seated(q)'
    <3>1. \A q \in Room : ~Seated(q)
      BY <2>1, NoGameYet
    <3>2. CASE UNCHANGED room
      BY <3>1, <3>2 DEF Seated
    <3>3. CASE room' = [room EXCEPT ![r] = NewRoom(m.id, c, m.color)]
      BY <3>1, <3>3 DEF Seated, NewRoom, IndInv, TypeOK
    <3> QED BY <2>1, <3>2, <3>3
  <2>3. \A p \in Client : Got(p)' \subseteq {RejectMsg}
    BY <1>1, <2>1, SilentYet DEF Got
  <2> QED BY <2>2, <2>3, ToldIdle
<1>3. CASE Steady(c) /\ UNCHANGED <<rooms, room, game, out, open>>
  BY <1>1, <1>3, ToldQuiet
<1> QED BY <1>2, <1>3, WaitReadyCases

LEMMA WaitingIfIsFirstTold ==
    ASSUME OneGame, IndInv, MeetInv, SeatInv, ToldInv, NEW c \in Client, WaitingIfIsFirst(c)
    PROVE  ToldInv'
<1>1. ~Past(c) /\ UNCHANGED out
  BY DEF WaitingIfIsFirst, Past, connVars
<1>2. \A r \in Room : room'[r].second = room[r].second
  <2>1. room \in [Room -> RoomType] /\ At(c) \in Room
    BY Threads, InAction DEF WaitingIfIsFirst, TypeOK
  <2>2. UNCHANGED room \/ room' = [room EXCEPT ![At(c)].status = "WAITING"]
    BY DEF WaitingIfIsFirst, SetStatus
  <2> QED BY <2>1, <2>2 DEF RoomType
<1>3. \A r \in Room : ~Seated(r)'
  BY <1>1, <1>2, NoGameYet DEF Seated
<1>4. \A p \in Client : Got(p)' \subseteq {RejectMsg}
  BY <1>1, SilentYet DEF Got
<1> QED BY <1>3, <1>4, ToldIdle

\* The second player may be turned away, and both when their colours conflict.
LEMMA RejectTold ==
    ASSUME OneGame, IndInv, MeetInv, SeatInv, ToldInv, NEW c \in Client,
           SecondPlayer(c) \/ ColorConflict(c)
    PROVE  ToldInv'
<1>1. ~Past(c) /\ UNCHANGED room
  BY DEF SecondPlayer, ColorConflict, Reject, Past
<1>2. \A r \in Room : ~Seated(r)'
  BY <1>1, NoGameYet DEF Seated
<1>3. UNCHANGED out \/ \E to : Send(to, RejectMsg)
  BY DEF SecondPlayer, ColorConflict, Reject, NotSent
<1>4. \A p \in Client : Got(p)' \subseteq {RejectMsg}
  <2> SUFFICES ASSUME NEW p \in Client PROVE Got(p)' \subseteq {RejectMsg}
    OBVIOUS
  <2>1. out'[p] = out[p] \/ Got(p)' = Got(p) \cup {RejectMsg}
    BY <1>3, SentEffect DEF IndInv
  <2>2. Got(p) \subseteq {RejectMsg}
    BY <1>1, SilentYet
  <2> QED BY <2>1, <2>2 DEF Got
<1> QED BY <1>2, <1>4, ToldIdle

LEMMA StartRoomTold ==
    ASSUME OneGame, IndInv, MeetInv, SeatInv, ToldInv, NEW c \in Client, StartRoom(c)
    PROVE  ToldInv'
<1>0. PICK r \in Room : r = At(c)
  BY Threads, InAction DEF StartRoom
<1>1. ~Past(c) /\ c \in Thread /\ UNCHANGED out /\ TypeOK
  BY Threads DEF StartRoom, Past, connVars, IndInv
<1>2. PICK k : room' = [room EXCEPT ![r].second = c, ![r].color = k, ![r].status = "PLAYING"]
  BY <1>0 DEF StartRoom
<1>3. game' = [game EXCEPT ![r] = NewGame("setup")]
  <2>1. game[r].daemon = "none"
    BY <1>1, NoGameYet DEF NewGame
  <2> QED BY <1>0, <2>1 DEF StartRoom
<1>4. \A q \in Room : Paired(q)' => q = r
  <2>1. \A q \in Room \ {r} : room'[q] = room[q]
    BY <1>1, <1>2 DEF TypeOK
  <2> QED BY <1>1, <2>1, NoGameYet DEF Paired
<1>5. Seated(r)' /\ game'[r] = NewGame("setup")
  BY <1>0, <1>1, <1>2, <1>3, Threads DEF Seated, TypeOK, RoomType
<1>6. \A p \in Client : /\ Got(p)' \subseteq {RejectMsg}
                        /\ Count(p, MoveMsg)' = 0 /\ Count(p, GameEnd)' = 0
  <2> SUFFICES ASSUME NEW p \in Client
               PROVE  /\ Got(p) \subseteq {RejectMsg}
                      /\ Count(p, MoveMsg) = 0 /\ Count(p, GameEnd) = 0
    BY <1>1 DEF Got, Count
  <2>1. Got(p) \subseteq {RejectMsg}
    BY <1>1, SilentYet
  <2> QED BY <1>1, <2>1, Counted, Messages
<1>7. \A p \in Client : pc'[p] \notin InGame
  <2>1. \A u \in Thread : pc'[u] \in {pc[u], "woken", "seat2"}
    BY <1>1, NotifyAllEffect DEF StartRoom
  <2>2. \A p \in Client : pc[p] \notin Sitting
    BY <1>1, NoGameYet DEF MeetInv, Single
  <2> QED BY <2>1, <2>2, Threads DEF Sitting, InGame
<1>8. Silence'
  BY <1>5 DEF Silence
<1>9. Colours'
  BY <1>4, <1>5, <1>6, <1>7, Messages DEF Colours, NewGame
<1>10. Turns'
  <2>1. \A p, q \in Client : Ahead(p, q)' = 0
    BY <1>6 DEF Ahead
  <2>2. game'[r].attached = FALSE
    BY <1>5 DEF NewGame
  <2> QED BY <1>4, <1>6, <2>1, <2>2 DEF Turns
<1>11. Endings'
  BY <1>6, TwoClients DEF Endings
<1> QED BY <1>8, <1>9, <1>10, <1>11 DEF ToldInv

LEMMA TakeSeatTold ==
    ASSUME OneGame, IndInv, MeetInv, ToldInv, NEW c \in Client, TakeSeat(c)
    PROVE  ToldInv'
<1>1. Steady(c) /\ UNCHANGED <<out, open, room>> /\ pc[c] # "ready"
  BY TakeSeatSteady DEF TakeSeat, connVars
<1>2. PICK r \in Room : r = At(c)
  BY HasSent DEF TakeSeat, Seating
<1>3. PICK l : game' = [game EXCEPT ![r].heard = @ \cup {l}]
  BY <1>2 DEF TakeSeat
<1>4. /\ \A q \in Room \ {r} : game'[q] = game[q]
      /\ game'[r].unblocked = game[r].unblocked /\ game'[r].attached = game[r].attached
      /\ game'[r].daemon = game[r].daemon
  BY <1>3 DEF IndInv, TypeOK, GameType
<1> QED BY <1>1, <1>4, ToldDaemon DEF InPlay

LEMMA SendReadyTold ==
    ASSUME OneGame, IndInv, MeetInv, SeatInv, ToldInv, NEW c \in Client, SendReady(c)
    PROVE  ToldInv'
<1>1. Steady(c) /\ UNCHANGED open /\ pc[c] = "ready" /\ TypeOK
  BY SendReadySteady DEF SendReady, IndInv
<1>2. PICK r \in Room : r = At(c) /\ Seated(r)
  BY HasSent DEF SendReady, Sitting
<1>3. \A q \in Room : Paired(q) => q = r /\ frame[c].color = Seat(q, c)
  BY <1>1, <1>2, Opponents DEF MeetInv, Single, SeatInv, Facing, Sitting
<1>4. CASE /\ Send({c}, ReadyMsg(frame[c].color))
           /\ game' = [game EXCEPT ![At(c)].unblocked = @ \cup {frame[c].color}]
  <2>1. /\ \A q \in Room \ {r} : game'[q] = game[q]
        /\ game'[r].unblocked = game[r].unblocked \cup {frame[c].color}
        /\ game'[r].attached = game[r].attached
        /\ game'[r].daemon = game[r].daemon
    BY <1>1, <1>2, <1>4 DEF TypeOK, GameType
  <2>2. frame[c].color \in Color
    BY <1>1, Threads, InAction
  <2>3. ReadyMsg(frame[c].color) \notin {MoveMsg, GameEnd}
    BY <2>2, Messages
  <2>4. \A q \in Room : \A p \in {c} \cap Client : \A k \in Color :
            Paired(q) /\ ReadyMsg(frame[c].color) \in {ReadyMsg(k), ResignEnd(k)} => k = Seat(q, p)
    BY <1>3, <2>2, Messages
  <2>5. \A p \in Client : pc'[p] \in InGame /\ pc[p] \notin InGame => p = c
    BY <1>1, Threads DEF Steady, Others, InGame
  <2>6. \A q \in Room : /\ game'[q].daemon = game[q].daemon
                        /\ game'[q].attached = game[q].attached
                        /\ \A p \in Client : Paired(q) /\ Seat(q, p) \in game'[q].unblocked =>
                              Seat(q, p) \in game[q].unblocked \/ p = c
    BY <1>3, <2>1, OneSide
  <2> QED BY <1>1, <1>2, <1>3, <1>4, <2>3, <2>4, <2>5, <2>6, ToldOther
<1>5. CASE NotSent(c) /\ Exit(c) /\ UNCHANGED game
  <2>1. pc'[c] \notin InGame
    BY <1>1, <1>5, Threads, LeaveEffect DEF InGame
  <2>2. \A p \in Client : pc'[p] \in InGame => pc[p] \in InGame
    BY <1>1, <2>1, Threads DEF Steady, Others, InGame
  <2>3. \A p \in Client : Got(p)' = Got(p)
    BY <1>5 DEF NotSent, Got
  <2>4. Tells
    BY <1>5, <2>2, <2>3 DEF Tells
  <2>5. MovesOn
    BY <1>5, QuietCounts DEF NotSent, MovesOn
  <2>6. EndsOn
    BY <1>1, <1>5, QuietCounts, RoomsAsleep DEF NotSent, EndsOn
  <2> QED BY <1>1, <2>4, <2>5, <2>6, TellsStep, MovesStep, EndsStep DEF ToldInv
<1> QED BY <1>4, <1>5 DEF SendReady

\* A CHAT is none of the messages that the game is made of.
LEMMA ChatTold ==
    ASSUME OneGame, IndInv, MeetInv, ToldInv, NEW c \in Client, Chat(c)
    PROVE  ToldInv'
<1>1. Steady(c) /\ UNCHANGED <<open, game>> /\ pc[c] = "chat"
  BY ChatSteady DEF Chat
<1>2. CASE UNCHANGED out
  BY <1>1, <1>2, ToldQuiet
<1>3. CASE Send({frame[c].peer}, ChatMsg)
  <2>1. PICK r \in Room : r = At(c) /\ Seated(r)
    BY <1>1, HasSent DEF Sitting, InGame
  <2>2. \A p \in Client : pc'[p] \in InGame => pc[p] \in InGame
    BY <1>1, Threads DEF Steady, Others, InGame
  <2> QED BY <1>1, <1>3, <2>1, <2>2, Messages, ToldOther
<1> QED BY <1>2, <1>3 DEF Chat, NotSent

\* The peer is told the colour that it plays with.
LEMMA ResignTold ==
    ASSUME OneGame, IndInv, MeetInv, SeatInv, ToldInv, NEW c \in Client, Resign(c)
    PROVE  ToldInv'
<1>1. Steady(c) /\ UNCHANGED <<open, game>> /\ pc[c] = "resign"
  BY ResignSteady DEF Resign
<1>2. CASE UNCHANGED out
  BY <1>1, <1>2, ToldQuiet
<1>3. CASE Send({frame[c].peer}, ResignEnd(Winner(c)))
  <2>1. PICK r \in Room : r = At(c) /\ Seated(r)
    BY <1>1, HasSent DEF Sitting, InGame
  <2>2. \A p \in Client : pc'[p] \in InGame => pc[p] \in InGame
    BY <1>1, Threads DEF Steady, Others, InGame
  <2>3. Winner(c) \in Color
    BY ReverseType DEF Winner
  <2>4. \A q \in Room : Paired(q) => Seat(q, frame[c].peer) = Winner(c)
    <3> SUFFICES ASSUME NEW q \in Room, Paired(q) PROVE Seat(q, frame[c].peer) = Winner(c)
      OBVIOUS
    <3>1. frame[c].color = Seat(q, c) /\ frame[c].peer = Peer(q, c)
      BY <1>1 DEF SeatInv, Facing, Sitting, InGame
    <3> QED BY <3>1, Opponents DEF Winner
  <2>5. ResignEnd(Winner(c)) \notin {MoveMsg, GameEnd}
    BY <2>3, Messages
  <2>6. \A q \in Room : \A p \in {frame[c].peer} \cap Client : \A k \in Color :
            Paired(q) /\ ResignEnd(Winner(c)) \in {ReadyMsg(k), ResignEnd(k)} => k = Seat(q, p)
    BY <2>3, <2>4, Messages
  <2> QED BY <1>1, <1>3, <2>1, <2>2, <2>5, <2>6, ToldOther
<1> QED BY <1>2, <1>3 DEF Resign, ResignTo, NotSent

LEMMA CommitMoveTold ==
    ASSUME OneGame, IndInv, MeetInv, ToldInv, NEW c \in Client, CommitMove(c)
    PROVE  ToldInv'
<1>1. Steady(c) /\ UNCHANGED <<out, open, room>> /\ pc[c] = "move"
  BY CommitMoveSteady DEF CommitMove, connVars
<1>2. CASE UNCHANGED game
  BY <1>1, <1>2, ToldQuiet
<1>3. CASE game' = [game EXCEPT ![At(c)].daemon = Moved(@)] /\ game[At(c)].daemon = frame[c].color
  <2>1. PICK r \in Room : r = At(c) /\ Seated(r)
    BY HasSent DEF CommitMove, Sitting, InGame
  <2>2. frame[c].color \in Request
    BY Threads DEF IndInv, TypeOK, FrameType
  <2>3. /\ \A q \in Room \ {r} : game'[q] = game[q]
        /\ game'[r].unblocked = game[r].unblocked /\ game'[r].attached = game[r].attached
        /\ game'[r].daemon = Moved(game[r].daemon)
    BY <1>3, <2>1 DEF IndInv, TypeOK, GameType
  <2>4. game[r].daemon \in DaemonStatus
    BY DEF IndInv, TypeOK, GameType
  <2>5. PICK j \in Color : game[r].daemon = j
    BY <1>3, <2>1, <2>2, <2>4 DEF Request, Color, DaemonStatus
  <2>6. /\ game'[r].daemon = Moved(j) /\ Moved(j) \notin Asleep
        /\ \A k \in Color : Moved(j) \in {k, Moved(k)} => k = j
    BY <2>3, <2>5 DEF Moved, Color, Asleep
  <2>7. InPlay(r)
    BY <2>5 DEF InPlay
  <2> QED BY <1>1, <2>3, <2>5, <2>6, <2>7, ToldDaemon
<1> QED BY <1>2, <1>3 DEF CommitMove

LEMMA CleanTold ==
    ASSUME OneGame, IndInv, MeetInv, ToldInv, NEW t \in Thread, Clean(t)
    PROVE  ToldInv'
<1>1. Steady(t) /\ UNCHANGED <<out, open>> /\ pc[t] # "ready"
  BY CleanSteady DEF Clean, connVars
<1>2. CASE UNCHANGED game
  BY <1>1, <1>2, ToldQuiet
<1>3. CASE /\ game' = [game EXCEPT ![At(t)].attached = FALSE, ![At(t)].killers = @ \cup {t}]
           /\ UNCHANGED room
  <2>1. PICK r \in Room : r = At(t)
    BY InAction DEF Clean
  <2>2. /\ \A q \in Room \ {r} : game'[q] = game[q]
        /\ game'[r].unblocked = game[r].unblocked /\ game'[r].attached = FALSE
        /\ game'[r].daemon = game[r].daemon
    BY <1>3, <2>1 DEF IndInv, TypeOK, GameType
  <2> QED BY <1>1, <1>3, <2>2, ToldDaemon DEF InPlay
<1> QED BY <1>2, <1>3 DEF Clean

LEMMA KillGameTold ==
    ASSUME OneGame, IndInv, MeetInv, ToldInv, NEW t \in Thread, KillGame(t)
    PROVE  ToldInv'
<1>1. Steady(t) /\ UNCHANGED <<out, open, room>> /\ pc[t] # "ready"
  BY KillGameSteady DEF KillGame, connVars
<1>2. CASE UNCHANGED game
  BY <1>1, <1>2, ToldQuiet
<1>3. CASE CanKill(At(t)) /\ GameOver(At(t))
  <2>1. PICK r \in Room : r = At(t)
    BY InAction DEF KillGame
  <2>2. /\ \A q \in Room \ {r} : game'[q] = game[q]
        /\ game'[r].unblocked = game[r].unblocked /\ game'[r].daemon = "over"
    BY <1>3, <2>1 DEF GameOver, IndInv, TypeOK, GameType
  <2>3. InPlay(r)
    BY <1>3, <2>1 DEF CanKill, InPlay
  <2> QED BY <1>1, <2>2, <2>3, ToldDaemon DEF Asleep, Moved, Color
<1> QED BY <1>2, <1>3 DEF KillGame

LEMMA JoinDaemonTold ==
    ASSUME OneGame, IndInv, MeetInv, ToldInv, NEW t \in Thread, JoinDaemon(t)
    PROVE  ToldInv'
<1>1. Steady(t) /\ UNCHANGED <<out, open>> /\ pc[t] # "ready"
  BY JoinDaemonSteady DEF JoinDaemon, connVars
<1>2. CASE UNCHANGED game
  BY <1>1, <1>2, ToldQuiet
<1>3. CASE game' = [game EXCEPT ![At(t)].daemon = "joined"]
  <2>1. PICK r \in Room : r = At(t)
    BY InAction DEF JoinDaemon
  <2>2. /\ \A q \in Room \ {r} : game'[q] = game[q]
        /\ game'[r].unblocked = game[r].unblocked /\ game'[r].daemon = "joined"
    BY <1>3, <2>1 DEF IndInv, TypeOK, GameType
  <2>3. ~InPlay(r)'
    BY <2>2 DEF InPlay, Asleep, Moved, Color
  <2> QED BY <1>1, <2>2, <2>3, ToldDaemon DEF Asleep, Moved, Color
<1> QED BY <1>2, <1>3 DEF JoinDaemon

LEMMA QuietDaemonTold ==
    ASSUME OneGame, IndInv, MeetInv, ToldInv, NEW r \in Room, CreateAgents(r) \/ NextListener(r)
    PROVE  ToldInv'
<1>1. Steady(None) /\ UNCHANGED <<out, open, room>> /\ None \notin Client
  BY DaemonSteady, Threads DEF Daemon, CreateAgents, NextListener, connVars
<1>2. CASE CreateAgents(r)
  <2>1. /\ \A q \in Room \ {r} : game'[q] = game[q]
        /\ game'[r].unblocked = game[r].unblocked /\ game'[r].daemon = "BLACK"
        /\ game[r].daemon = "setup"
    BY <1>2 DEF CreateAgents, IndInv, TypeOK, GameType
  <2>2. InPlay(r)
    BY <2>1 DEF InPlay, Asleep
  <2> QED BY <1>1, <2>1, <2>2, ToldDaemon DEF Asleep, Moved, Color
<1>3. CASE NextListener(r)
  <2>1. PICK d \in {"listener", "done"} :
          game[r].daemon = "over" /\ game' = [game EXCEPT ![r].daemon = d]
    BY <1>3 DEF NextListener
  <2>2. /\ \A q \in Room \ {r} : game'[q] = game[q]
        /\ game'[r].unblocked = game[r].unblocked /\ game'[r].daemon = d
    BY <2>1 DEF IndInv, TypeOK, GameType
  <2>3. InPlay(r)' => room'[r].status = "PLAYING"
    BY <2>2 DEF InPlay, Asleep, Moved, Color
  <2>4. InPlay(r)' => InPlay(r)
    BY <1>1, <2>1, <2>3 DEF InPlay
  <2> QED BY <1>1, <2>2, <2>4, ToldDaemon DEF Asleep, Moved, Color
<1> QED BY <1>2, <1>3

\* Whoever plays with the daemon has both agents, so the move is relayed to the opponent.
LEMMA RelayedTo ==
    ASSUME OneGame, IndInv, MeetInv, SeatInv, NEW r \in Room, Paired(r),
           NEW k \in Color, game[r].daemon = Moved(k)
    PROVE  /\ game[r].unblocked = Color
           /\ game[r].attached => Relay(r, k) = {p \in Client : Seat(r, p) = Reverse(k)}
           /\ ~game[r].attached => Relay(r, k) = {}
<1>1. Awake(game[r]) /\ game[r].daemon \notin Asleep
  BY HasDaemon DEF Moved, Asleep
<1>2. game[r].unblocked = Color
  BY <1>1 DEF Awake, Asleep
<1>3. \A p \in Client : Ears(r, p) \in game[r].heard
  BY <1>2, Opponents DEF SeatInv, Facing
<1>4. game[r].heard \subseteq {Ears(r, p) : p \in Client}
  BY DEF SeatInv, Listeners
<1>5. \A p : Ears(r, p).sock = p /\ Ears(r, p).color = Seat(r, p)
  BY DEF Ears
<1>6. game[r].attached => Relay(r, k) = {p \in Client : Seat(r, p) = Reverse(k)}
  BY <1>3, <1>4, <1>5 DEF Relay
<1>7. ~game[r].attached => Relay(r, k) = {}
  BY DEF Relay
<1> QED BY <1>2, <1>6, <1>7

\* What the counts of the two sides become when the move is relayed.
LEMMA RelayedCount ==
    ASSUME OneGame, IndInv, MeetInv, SeatInv, NEW r \in Room, Paired(r), game[r].attached,
           NEW k \in Color, game[r].daemon = Moved(k), Send(Relay(r, k), MoveMsg), NEW p \in Client
    PROVE  /\ Seat(r, p) = Reverse(k) => Count(p, MoveMsg)' = Count(p, MoveMsg) + 1
           /\ Seat(r, p) = k => Count(p, MoveMsg)' = Count(p, MoveMsg)
<1>1. Relay(r, k) = {c \in Client : Seat(r, c) = Reverse(k)}
  BY RelayedTo
<1>2. CASE Seat(r, p) = Reverse(k)
  BY <1>1, <1>2, SentEffect, Reverses DEF IndInv
<1>3. CASE Seat(r, p) = k
  <2>1. out'[p] = out[p]
    BY <1>1, <1>3, SentEffect, Reverses DEF IndInv
  <2> QED BY <2>1, <1>3, Reverses DEF Count
<1> QED BY <1>2, <1>3

LEMMA MakeMoveTold ==
    ASSUME OneGame, IndInv, MeetInv, SeatInv, ToldInv, NEW r \in Room, MakeMove(r)
    PROVE  ToldInv'
<1>1. Steady(None) /\ None \notin Client /\ UNCHANGED <<open, room, pc>> /\ TypeOK
  BY DaemonSteady, Threads DEF Daemon, MakeMove, IndInv
<1>2. PICK k \in Color :
        /\ game[r].daemon = Moved(k)
        /\ \/ GameOver(r) /\ UNCHANGED out
           \/ Send(Relay(r, k), MoveMsg) /\ GameOver(r)
           \/ Send(Relay(r, k), MoveMsg) /\ game' = [game EXCEPT ![r].daemon = Reverse(k)]
           \/ UNCHANGED out /\ game' = [game EXCEPT ![r].daemon = "done"]
  BY DEF MakeMove, NotSent
<1>3. /\ \A q \in Room \ {r} : game'[q] = game[q]
      /\ game'[r].unblocked = game[r].unblocked /\ game'[r].attached = game[r].attached
      /\ game'[r].daemon \in {"over", "done", Reverse(k)}
      /\ \/ Send(Relay(r, k), MoveMsg)
         \/ UNCHANGED out /\ game'[r].daemon \in {"over", "done"}
  BY <1>1, <1>2 DEF GameOver, TypeOK, GameType
<1>4. InPlay(r)
  BY <1>2 DEF InPlay
<1>5. CASE ~Send(Relay(r, k), MoveMsg)
  <2> QED BY <1>1, <1>3, <1>4, <1>5, ToldDaemon DEF Asleep, Moved, Color
<1>6. CASE Send(Relay(r, k), MoveMsg)
  <2>0. Seated(r) /\ \A q \in Room : Paired(q) => q = r
    BY <1>2, HasDaemon, Opponents DEF Moved, MeetInv, Single
  <2>1. \A p \in Client : /\ Got(p)' \subseteq Got(p) \cup {MoveMsg} /\ Got(p) \subseteq Got(p)'
                          /\ Count(p, GameEnd)' = Count(p, GameEnd)
    <3> SUFFICES ASSUME NEW p \in Client
                 PROVE  /\ Got(p)' \subseteq Got(p) \cup {MoveMsg} /\ Got(p) \subseteq Got(p)'
                        /\ Count(p, GameEnd)' = Count(p, GameEnd)
      OBVIOUS
    <3>1. CASE p \in Relay(r, k)
      BY <1>1, <1>6, <3>1, SentEffect, Messages
    <3>2. CASE p \notin Relay(r, k)
      BY <1>1, <1>6, <3>2, SentEffect DEF Got, Count
    <3> QED BY <3>1, <3>2
  <2>2. Tells
    BY <1>1, <1>3, <2>0, <2>1, Messages DEF Tells
  <2>3. EndsOn
    <3>1. \A q \in Room : InPlay(q)' => InPlay(q)
      BY <1>3, <1>4, <1>1 DEF InPlay, Asleep, Color, Moved
    <3> QED BY <1>1, <2>1, <3>1 DEF EndsOn
  <2>4. Turns'
    <3>1. \A p \in Client : Seat(r, p)' = Seat(r, p) /\ Paired(r)' = Paired(r)
      BY <1>1 DEF Seat, Paired
    <3> SUFFICES ASSUME Paired(r), NEW p \in Client, NEW q \in Client,
                        Seat(r, p) = "WHITE", Seat(r, q) = "BLACK"
                 PROVE  /\ Ahead(p, q)' \in {0, 1}
                        /\ game'[r].attached /\ game'[r].daemon = "BLACK" => Ahead(p, q)' = 0
                        /\ game'[r].attached /\ game'[r].daemon = "WHITE" => Ahead(p, q)' = 1
      <4>1. \A q1 \in Room : Paired(q1)' => q1 = r /\ Paired(r)
        BY <1>1, <2>0 DEF Paired
      <4>2. game'[r].daemon \notin Asleep \cup {"BLACK moved", "WHITE moved"}
        BY <1>3, Reverses DEF Asleep, Color
      <4> QED BY <1>1, <4>1, <4>2 DEF Turns, Seat, Asleep
    <3>2. Count(p, MoveMsg) \in Nat /\ Count(q, MoveMsg) \in Nat
      BY <1>1, Counted
    <3>3. CASE ~game[r].attached
      <4>1. Relay(r, k) = {}
        BY <1>2, <3>3, RelayedTo
      <4>2. out'[p] = out[p] /\ out'[q] = out[q]
        BY <1>1, <1>6, <4>1, SentEffect
      <4>3. Ahead(p, q)' = Ahead(p, q)
        BY <4>2 DEF Ahead, Count
      <4> QED BY <1>3, <3>3, <4>3 DEF ToldInv, Turns
    <3>4. CASE game[r].attached /\ k = "BLACK"
      <4>1. Count(p, MoveMsg)' = Count(p, MoveMsg) + 1 /\ Count(q, MoveMsg)' = Count(q, MoveMsg)
        BY <1>2, <1>6, <3>4, RelayedCount DEF Reverse
      <4>2. Ahead(p, q) = 0
        BY <1>2, <3>4 DEF ToldInv, Turns, Moved
      <4>3. Ahead(p, q)' = 1
        BY <3>2, <4>1, <4>2 DEF Ahead
      <4> QED BY <1>3, <3>4, <4>3 DEF Reverse
    <3>5. CASE game[r].attached /\ k = "WHITE"
      <4>1. Count(p, MoveMsg)' = Count(p, MoveMsg) /\ Count(q, MoveMsg)' = Count(q, MoveMsg) + 1
        BY <1>2, <1>6, <3>5, RelayedCount DEF Reverse
      <4>2. Ahead(p, q) = 1
        BY <1>2, <3>5 DEF ToldInv, Turns, Moved
      <4>3. Ahead(p, q)' = 0
        BY <3>2, <4>1, <4>2 DEF Ahead
      <4> QED BY <1>3, <3>5, <4>3 DEF Reverse
    <3> QED BY <3>3, <3>4, <3>5 DEF Color
  <2> QED BY <1>1, <2>2, <2>3, <2>4, TellsStep, EndsStep DEF ToldInv
<1> QED BY <1>5, <1>6

\* A listener tells the end to both players, or to one of them when the other has left.
LEMMA OnGameEndedTold ==
    ASSUME OneGame, IndInv, MeetInv, SeatInv, ToldInv, NEW r \in Room, OnGameEnded(r)
    PROVE  ToldInv'
<1>1. Steady(None) /\ None \notin Client /\ UNCHANGED <<open, pc>> /\ TypeOK
  BY DaemonSteady, Threads DEF Daemon, OnGameEnded, IndInv
<1>2. PICK l \in game[r].pending :
        \/ /\ UNCHANGED <<room, out>> /\ room[r].status # "PLAYING"
           /\ game' = [game EXCEPT ![r].daemon = "over", ![r].pending = @ \ {l}]
        \/ /\ Send({l.sock, l.peer}, GameEnd) /\ room' = [room EXCEPT ![r].status = "ENDED"]
           /\ game' = [game EXCEPT ![r].daemon = "over", ![r].pending = @ \ {l}]
           /\ room[r].status = "PLAYING"
        \/ /\ UNCHANGED room /\ room[r].status = "PLAYING"
           /\ game' = [game EXCEPT ![r].daemon = "done"]
           /\ UNCHANGED out \/ (~open[l.peer] /\ Send({l.sock}, GameEnd))
  BY DEF OnGameEnded, NotEnded, NotSent, Throws
<1>3. /\ game[r].daemon = "listener" /\ Seated(r)
      /\ \A q \in Room \ {r} : game'[q] = game[q]
      /\ game'[r].unblocked = game[r].unblocked /\ game'[r].daemon \in {"over", "done"}
  BY <1>1, <1>2, HasDaemon DEF OnGameEnded, TypeOK, GameType
<1>4. ~InPlay(r)'
  <2>1. room'[r].status # "PLAYING" \/ game'[r].daemon = "done"
    BY <1>1, <1>2 DEF TypeOK, RoomType, GameType
  <2> QED BY <1>3, <2>1 DEF InPlay, Asleep, Color, Moved
<1>5. CASE UNCHANGED out
  BY <1>1, <1>3, <1>4, <1>5, ToldDaemon DEF Asleep, Moved, Color
<1>6. ASSUME NEW to, Send(to, GameEnd), room[r].status = "PLAYING",
             to = {l.sock, l.peer} \/ (to = {l.sock} /\ ~open[l.peer])
      PROVE  ToldInv'
  <2>1. \A p \in Client : /\ Got(p)' \subseteq Got(p) \cup {GameEnd} /\ Got(p) \subseteq Got(p)'
                          /\ Count(p, MoveMsg)' = Count(p, MoveMsg)
                          /\ Count(p, GameEnd)' = IF p \in to THEN Count(p, GameEnd) + 1
                                                              ELSE Count(p, GameEnd)
    <3> SUFFICES ASSUME NEW p \in Client
                 PROVE  /\ Got(p)' \subseteq Got(p) \cup {GameEnd} /\ Got(p) \subseteq Got(p)'
                        /\ Count(p, MoveMsg)' = Count(p, MoveMsg)
                        /\ Count(p, GameEnd)' = IF p \in to THEN Count(p, GameEnd) + 1
                                                            ELSE Count(p, GameEnd)
      OBVIOUS
    <3>1. CASE p \in to
      BY <1>1, <1>6, <3>1, SentEffect, Messages
    <3>2. CASE p \notin to
      BY <1>1, <1>6, <3>2, SentEffect DEF Got, Count
    <3> QED BY <3>1, <3>2
  <2>2. Tells
    BY <1>1, <1>3, <2>1, Messages DEF Tells
  <2>3. MovesOn
    <3>1. game'[r].daemon \notin Asleep /\ \A k \in Color : game'[r].daemon \notin {k, Moved(k)}
      BY <1>3 DEF Asleep, Color, Moved
    <3> QED BY <1>3, <2>1, <3>1 DEF MovesOn
  <2>4. \A q \in Room : Paired(q) => q = r
    BY <1>3, Opponents DEF MeetInv, Single
  <2>5. \A q \in Room : Paired(q)' = Paired(q)
    BY <1>1, RoomsStay DEF Steady
  <2>6. Endings'
    <3> SUFFICES ASSUME Paired(r)
                 PROVE  /\ \A p \in Client : Count(p, GameEnd)' \in {0, 1}
                        /\ (\A p \in Client : open'[p]) => Count(One, GameEnd)' = Count(Other, GameEnd)'
      BY <1>4, <2>4, <2>5 DEF Endings
    <3>1. \A p \in Client : Count(p, GameEnd) = 0
      BY <1>3, <1>6 DEF ToldInv, Endings, InPlay
    <3>2. PICK p \in Client : l.sock = p /\ l.peer = Peer(r, p)
      BY DEF SeatInv, Listeners, Ears
    <3>3. /\ l.peer \in Client
          /\ \A q \in Client : q \in {l.sock, l.peer}
      BY <3>2, Opponents DEF Peer
    <3> QED BY <1>1, <1>6, <2>1, <3>1, <3>3, TwoClients
  <2> QED BY <1>1, <2>2, <2>3, <2>6, TellsStep, MovesStep DEF ToldInv
<1> QED BY <1>2, <1>5, <1>6

\* The players are told no more than their game gives them.
LEMMA NextTold == ASSUME OneGame, IndInv, MeetInv, SeatInv, ToldInv, [Next]_vars PROVE ToldInv'
<1>1. ASSUME NEW c \in Client, Disconnect(c) \/ UNCHANGED vars PROVE ToldInv'
  <2>1. /\ UNCHANGED <<rooms, room, game, pc, frame, remained, sent, out>>
        /\ \A p \in Client : open'[p] => open[p]
    BY <1>1 DEF Disconnect, vars, connVars, IndInv, TypeOK
  <2> QED BY <2>1, StillSteady, ToldQuiet, Threads
<1>2. CASE \E c \in Client : SpuriousWake(c) \/ Handler(c)
  BY <1>2, QuietHandlerTold, WaitReadyTold, WaitingIfIsFirstTold, RejectTold, StartRoomTold,
     TakeSeatTold, SendReadyTold, ChatTold, ResignTold, CommitMoveTold DEF Handler
<1>3. CASE \E t \in Thread : CleanUp(t)
  BY <1>3, QuietCleanUpTold, CleanTold, KillGameTold, JoinDaemonTold DEF CleanUp
<1>4. CASE \E t \in Admin : ShutdownService(t) \/ PickRoom(t)
  BY <1>4, AdminTold
<1>5. CASE \E r \in Room : Daemon(r)
  BY <1>5, QuietDaemonTold, MakeMoveTold, OnGameEndedTold DEF Daemon
<1> QED BY <1>1, <1>2, <1>3, <1>4, <1>5, TwoClients DEF Next

LEMMA InitTold == Init => ToldInv
<1> SUFFICES ASSUME Init PROVE ToldInv
  OBVIOUS
<1>1. \A r \in Room : ~Paired(r)
  BY DEF Init, Paired, NewRoom
<1>2. \A p \in Client : Got(p) = {}
  BY DEF Init, Got
<1> QED BY <1>1, <1>2 DEF ToldInv, Silence, Colours, Turns, Endings

-----------------------------------------------------------------------------
(* One game of two clients: the invariant and what it says to the players.   *)

\* In a service of two clients that each send READY first or never, they come
\* together, sit down and are told of their game as GameInv says, whatever the colours
\* asked for, the rooms, the traffic, the disconnections and the calls of ShutdownService.
THEOREM GameInductive == ASSUME OneGame PROVE Spec => []GameInv
<1>1. Init => GameInv
  BY InitMeet, InitSeat, InitTold DEF GameInv
<1>2. IndInv /\ GameInv /\ [Next]_vars => GameInv'
  BY NextMeet, NextSeat, NextTold DEF GameInv
<1> QED BY <1>1, <1>2, Inductive, PTL DEF Spec

\* The players of the two properties that speak of them are the two clients.
LEMMA PlayersAreClients ==
    ASSUME OneGame, IndInv, GameInv, NEW r \in Room, Paired(r)
    PROVE  Players(r) = Client
BY Opponents, Threads DEF GameInv, Players

\* Once anybody has been told a move, both have been told their colour.
LEMMA MovesAreLate ==
    ASSUME OneGame, IndInv, GameInv, NEW r \in Room, Paired(r), NEW c \in Client,
           Count(c, MoveMsg) # 0, NEW d \in Client
    PROVE  ReadyMsg(Seat(r, d)) \in Got(d)
<1>1. PICK p \in Client, q \in Client :
        Seat(r, p) = "WHITE" /\ Seat(r, q) = "BLACK" /\ c \in {p, q}
  <2>1. Seat(r, c) \in Color /\ Peer(r, c) \in Client /\ Seat(r, Peer(r, c)) = Reverse(Seat(r, c))
    BY Opponents DEF GameInv
  <2> QED BY <2>1 DEF Color, Reverse
<1>2. game[r].daemon \notin Asleep
  BY <1>1 DEF GameInv, ToldInv, Turns
<1>3. Awake(game[r])
  BY <1>2, HasDaemon DEF GameInv, Asleep
<1>4. Seat(r, d) \in game[r].unblocked
  BY <1>2, <1>3, Opponents DEF GameInv, Awake
<1> QED BY <1>4 DEF GameInv, ToldInv, Colours

\* Two clients that are matched are given opposite colours, and each the one that its
\* READY asked for if it asked for one, though the second player decides it in its own
\* thread and the first one reads it from the room without a lock.
THEOREM ColorsRespected == ASSUME OneGame PROVE Spec => []ColorsAsAsked
<1>1. ASSUME IndInv, GameInv PROVE ColorsAsAsked
  <2> SUFFICES ASSUME NEW r \in Room, Paired(r)
               PROVE  /\ \A c \in Client : \A k \in Color : ReadyMsg(k) \in Got(c) => Wished(c, k)
                      /\ \A k \in Color : \E c \in Client : ReadyMsg(k) \notin Got(c)
    BY <1>1, PlayersAreClients DEF ColorsAsAsked
  <2>1. \A c \in Client : \A k \in Color : ReadyMsg(k) \in Got(c) => k = Seat(r, c)
    BY <1>1 DEF GameInv, ToldInv, Colours
  <2>2. \A c \in Client : Wished(c, Seat(r, c))
    BY <1>1 DEF GameInv, SeatInv, Suited
  <2>3. ASSUME NEW k \in Color PROVE \E c \in Client : k # Seat(r, c)
    <3>1. Seat(r, Peer(r, One)) = Reverse(Seat(r, One)) /\ Peer(r, One) \in Client
          /\ Seat(r, One) \in Color
      BY <1>1, Opponents, TwoClients DEF GameInv
    <3> QED BY <3>1, Reverses, TwoClients
  <2> QED BY <2>1, <2>2, <2>3
<1> QED BY <1>1, Inductive, GameInductive, PTL

\* Whoever is told that the other one gave up is told its own colour as the winner,
\* whether READY comes before or after.
THEOREM SurvivorIsWinner == ASSUME OneGame PROVE Spec => []WinnerIsSurvivor
<1>1. ASSUME IndInv, GameInv PROVE WinnerIsSurvivor
  <2> SUFFICES ASSUME NEW r \in Room, Paired(r), NEW c \in Client,
                      NEW k \in Color, NEW w \in Color, ReadyMsg(k) \in Got(c), ResignEnd(w) \in Got(c)
               PROVE  w = k
    BY <1>1, PlayersAreClients DEF WinnerIsSurvivor
  <2> QED BY <1>1 DEF GameInv, ToldInv, Colours
<1> QED BY <1>1, Inductive, GameInductive, PTL

\* The end of the game is told at most once, and of two players that are still there
\* to both or to none, though each of them has a listener that tells it to both.
THEOREM EndToldOnce == ASSUME OneGame PROVE Spec => []EndsAgree
<1>1. ASSUME IndInv, GameInv PROVE EndsAgree
  <2> SUFFICES ASSUME NEW r \in Room, Paired(r), NEW c \in Client, NEW d \in Client
               PROVE  /\ Count(c, GameEnd) <= 1
                      /\ open[c] /\ open[d] => Count(c, GameEnd) = Count(d, GameEnd)
    BY <1>1, PlayersAreClients DEF EndsAgree
  <2>1. /\ Count(c, GameEnd) \in {0, 1}
        /\ (\A p \in Client : open[p]) => Count(One, GameEnd) = Count(Other, GameEnd)
    BY <1>1 DEF GameInv, ToldInv, Endings
  <2> QED BY <2>1, TwoClients
<1> QED BY <1>1, Inductive, GameInductive, PTL

\* No player is sent a move before both have been sent READY: a handler's agent, without
\* which the daemon does not start, is created only after that.
THEOREM ReadyFirst == ASSUME OneGame PROVE Spec => []ReadyBeforeMoves
<1>1. ASSUME IndInv, GameInv PROVE ReadyBeforeMoves
  <2> SUFFICES ASSUME NEW r \in Room, Paired(r), NEW c \in Client, NEW d \in Client,
                      MoveMsg \in Got(c)
               PROVE  \E k \in Color : ReadyMsg(k) \in Got(d)
    BY <1>1, PlayersAreClients DEF ReadyBeforeMoves
  <2>1. Count(c, MoveMsg) # 0
    BY <1>1, Counted DEF IndInv
  <2>2. Seat(r, d) \in Color
    BY <1>1, Opponents DEF GameInv
  <2> QED BY <1>1, <2>1, <2>2, MovesAreLate
<1> QED BY <1>1, Inductive, GameInductive, PTL

\* The players are told each other's moves in turn, BLACK's first, for games of any
\* length and whatever the two handler threads do with their messages in between.
THEOREM TurnsAlternate == ASSUME OneGame PROVE Spec => []MovesAlternate
<1>1. ASSUME IndInv, GameInv PROVE MovesAlternate
  <2> SUFFICES ASSUME NEW r \in Room, Paired(r), NEW b \in Client, NEW w \in Client,
                      ReadyMsg("BLACK") \in Got(b), ReadyMsg("WHITE") \in Got(w)
               PROVE  Count(w, MoveMsg) - Count(b, MoveMsg) \in {0, 1}
    BY <1>1, PlayersAreClients DEF MovesAlternate
  <2>1. Seat(r, w) = "WHITE" /\ Seat(r, b) = "BLACK"
    BY <1>1 DEF GameInv, ToldInv, Colours, Color
  <2> QED BY <1>1, <2>1 DEF GameInv, ToldInv, Turns, Ahead
<1> QED BY <1>1, Inductive, GameInductive, PTL

-----------------------------------------------------------------------------
(* The game is a match: what the players see of it.                          *)

\* In a room of two players the messages of the match are those of the seat; before
\* there is one, nothing counts.
Seen ==
    /\ \A r \in Room : Paired(r) => \A p \in Client :
          /\ Told(p, ReadyMsg) = IF ReadyMsg(Seat(r, p)) \in Got(p) THEN Seat(r, p) ELSE "NONE"
          /\ Told(p, ResignEnd) = IF ResignEnd(Seat(r, p)) \in Got(p) THEN Seat(r, p) ELSE "NONE"
          /\ HowOften(p, MoveMsg) = Count(p, MoveMsg)
          /\ HowOften(p, GameEnd) = Count(p, GameEnd)
    /\ (\A r \in Room : ~Paired(r)) => \A p \in Client :
          /\ Told(p, ReadyMsg) = "NONE" /\ Told(p, ResignEnd) = "NONE"
          /\ HowOften(p, MoveMsg) = 0 /\ HowOften(p, GameEnd) = 0

LEMMA GameSeen == ASSUME OneGame, IndInv, GameInv PROVE Seen
<1>1. ASSUME NEW r \in Room, Paired(r), NEW p \in Client
      PROVE  /\ Told(p, ReadyMsg) = IF ReadyMsg(Seat(r, p)) \in Got(p) THEN Seat(r, p) ELSE "NONE"
             /\ Told(p, ResignEnd) = IF ResignEnd(Seat(r, p)) \in Got(p) THEN Seat(r, p) ELSE "NONE"
             /\ HowOften(p, MoveMsg) = Count(p, MoveMsg)
             /\ HowOften(p, GameEnd) = Count(p, GameEnd)
  <2>1. Matching /\ Seat(r, p) \in Color
    BY <1>1, Opponents DEF Matching, GameInv
  <2>2. \A k \in Color : ReadyMsg(k) \in Got(p) \/ ResignEnd(k) \in Got(p) => k = Seat(r, p)
    BY <1>1 DEF GameInv, ToldInv, Colours
  <2> DEFINE K == {k \in Color : \E i \in DOMAIN out[p] : out[p][i] = ReadyMsg(k)}
             W == {k \in Color : \E i \in DOMAIN out[p] : out[p][i] = ResignEnd(k)}
  <2>3. K = IF ReadyMsg(Seat(r, p)) \in Got(p) THEN {Seat(r, p)} ELSE {}
    BY <2>1, <2>2 DEF Got
  <2>4. W = IF ResignEnd(Seat(r, p)) \in Got(p) THEN {Seat(r, p)} ELSE {}
    BY <2>1, <2>2 DEF Got
  <2>5. \A k : {k} # Color /\ {k} # {} /\ (CHOOSE j \in {k} : TRUE) = k
    BY DEF Color
  <2>6. Told(p, ReadyMsg) = IF K = {} THEN "NONE" ELSE IF K = Color THEN "BOTH"
                            ELSE CHOOSE k \in K : TRUE
    BY <2>1 DEF Told
  <2>7. Told(p, ResignEnd) = IF W = {} THEN "NONE" ELSE IF W = Color THEN "BOTH"
                             ELSE CHOOSE k \in W : TRUE
    BY <2>1 DEF Told
  <2> HIDE DEF K, W
  <2> QED BY <2>1, <2>3, <2>4, <2>5, <2>6, <2>7 DEF HowOften
<1>2. ASSUME \A r \in Room : ~Paired(r), NEW p \in Client
      PROVE  /\ Told(p, ReadyMsg) = "NONE" /\ Told(p, ResignEnd) = "NONE"
             /\ HowOften(p, MoveMsg) = 0 /\ HowOften(p, GameEnd) = 0
  <2>1. ~Matching
    BY <1>2 DEF Matching
  <2> QED BY <2>1 DEF Told, HowOften
<1> QED BY <1>1, <1>2 DEF Seen

\* What is proved of a state and of its successor.
GameSoFar == IndInv /\ GameInv /\ Seen

LEMMA GameSeenAlways == ASSUME OneGame PROVE Spec => []GameSoFar
<1>1. IndInv /\ GameInv => GameSoFar
  BY GameSeen DEF GameSoFar
<1> QED BY <1>1, Inductive, GameInductive, PTL

\* Nobody is on its way into a room, or nobody is told anything: a client comes into a
\* room, makes it WAITING, or starts the game.
LEMMA Comings ==
    ASSUME OneGame, IndInv, MeetInv, [Next]_vars
    PROVE  \/ \E t : Steady(t)
           \/ \E c \in Client :
                 /\ ~Past(c) /\ UNCHANGED <<out, open>>
                 /\ \/ \E m \in Input(RoomId) : \E r \in Room : ComesIn(c, m, r)
                    \/ WaitingIfIsFirst(c)
                    \/ StartRoom(c)
<1>1. ASSUME NEW c \in Client, Disconnect(c) \/ UNCHANGED vars PROVE Steady(None)
  BY <1>1, StillSteady DEF Disconnect, vars, connVars
<1>2. ASSUME NEW c \in Client, WaitReady(c)
      PROVE  \/ Steady(c)
             \/ /\ ~Past(c) /\ UNCHANGED <<out, open>>
                /\ \E m \in Input(RoomId) : \E r \in Room : ComesIn(c, m, r)
  <2>1. ASSUME NEW m \in Input(RoomId), NEW r \in Room, ComesIn(c, m, r)
        PROVE  ~Past(c) /\ UNCHANGED <<out, open>>
    BY <1>2, <2>1 DEF ComesIn, Past, WaitReady
  <2> QED BY <1>2, <2>1, WaitReadyCases
<1>3. ASSUME NEW c \in Client, WaitingIfIsFirst(c) \/ StartRoom(c)
      PROVE  ~Past(c) /\ UNCHANGED <<out, open>>
  BY <1>3 DEF WaitingIfIsFirst, StartRoom, Past, connVars
<1>4. ASSUME NEW c \in Client,
             \/ SpuriousWake(c) \/ Recheck(c) \/ SecondPlayer(c) \/ ColorConflict(c)
             \/ TakeSeat(c) \/ CheckRoomStatus(c) \/ SendReady(c) \/ Listen(c)
             \/ CommitMove(c) \/ Chat(c) \/ Resign(c) \/ CloseRoom(c)
      PROVE  Steady(c)
  BY <1>4, SpuriousWakeSteady, RecheckSteady, SecondPlayerSteady, ColorConflictSteady,
     TakeSeatSteady, CheckRoomStatusSteady, SendReadySteady, ListenSteady, CommitMoveSteady,
     ChatSteady, ResignSteady, CloseRoomSteady
<1>5. ASSUME NEW t \in Thread, CleanUp(t) PROVE Steady(t)
  BY <1>5, TestSteady, StartFailedSteady, EraseRoomSteady, CleanSteady, KillGameSteady,
     JoinDaemonSteady DEF CleanUp
<1>6. ASSUME NEW t \in Admin, ShutdownService(t) \/ PickRoom(t) PROVE Steady(t)
  BY <1>6, AdminSteady
<1>7. ASSUME NEW r \in Room, Daemon(r) PROVE Steady(None)
  BY <1>7, DaemonSteady
<1> QED BY <1>1, <1>2, <1>3, <1>4, <1>5, <1>6, <1>7, TwoClients DEF Next, Handler

\* Once everybody has come, every step is a steady one, and leaves the rooms as they are.
LEMMA Settles ==
    ASSUME OneGame, IndInv, MeetInv, [Next]_vars, \A p \in Client : Past(p)
    PROVE  \E t : Steady(t) /\ \A r \in Room : Seated(r)' = Seated(r)
BY Comings, RoomsStay DEF Steady

\* The steps that tell the players something, or that one of them takes itself.
LEMMA Telling ==
    ASSUME [Next]_vars
    PROVE  \/ UNCHANGED <<out, open>>
           \/ \E c \in Client : \/ Disconnect(c) \/ SecondPlayer(c) \/ ColorConflict(c)
                                \/ SendReady(c) \/ Chat(c) \/ Resign(c)
           \/ \E r \in Room : MakeMove(r) \/ OnGameEnded(r)
<1>1. ASSUME NEW c \in Client,
             \/ SpuriousWake(c) \/ WaitReady(c) \/ WaitingIfIsFirst(c) \/ Recheck(c) \/ StartRoom(c)
             \/ TakeSeat(c) \/ CheckRoomStatus(c) \/ Listen(c) \/ CommitMove(c) \/ CloseRoom(c)
      PROVE  UNCHANGED <<out, open>>
  BY <1>1 DEF SpuriousWake, WaitReady, WaitingIfIsFirst, Recheck, StartRoom, TakeSeat,
              CheckRoomStatus, Listen, CommitMove, CloseRoom, connVars
<1>2. ASSUME NEW t \in Thread, CleanUp(t) PROVE UNCHANGED <<out, open>>
  BY <1>2 DEF CleanUp, Clean, KillGame, TestJoinable, JoinDaemon, TestWaiting, StartFailed,
              EraseRoom, connVars
<1>3. ASSUME NEW t \in Admin, ShutdownService(t) \/ PickRoom(t) PROVE UNCHANGED <<out, open>>
  BY <1>3 DEF ShutdownService, PickRoom, connVars
<1>4. ASSUME NEW r \in Room, CreateAgents(r) \/ NextListener(r) PROVE UNCHANGED <<out, open>>
  BY <1>4 DEF CreateAgents, NextListener, connVars
<1>5. UNCHANGED vars => UNCHANGED <<out, open>>
  BY DEF vars, connVars
<1> QED BY <1>1, <1>2, <1>3, <1>4, <1>5 DEF Next, Handler, Daemon

\* The two players of the match are the two clients.
LEMMA Rivals ==
    ASSUME OneGame
    PROVE  /\ Client = {One, Other}
           /\ \A p \in Client : M!Rival(p) \in Client \ {p} /\ M!Rival(M!Rival(p)) = p
           /\ \A p, q \in Client : q # p => q = M!Rival(p)
           /\ M!Color = Color /\ \A k : M!Reverse(k) = Reverse(k)
BY TwoClients DEF M!Rival, M!Color, Color, M!Reverse, Reverse

\* Nothing that the players see changes.
LEMMA NothingSeen ==
    ASSUME OneGame, UNCHANGED open,
           \A p \in Client : /\ Told(p, ReadyMsg)' = Told(p, ReadyMsg)
                             /\ Told(p, ResignEnd)' = Told(p, ResignEnd)
                             /\ HowOften(p, MoveMsg)' = HowOften(p, MoveMsg)
                             /\ HowOften(p, GameEnd)' = HowOften(p, GameEnd)
    PROVE  UNCHANGED M!vars
BY Rivals DEF M!vars

\* What the players see of a room that both of them are in, now and after the step.
LEMMA SeenOn ==
    ASSUME GameSoFar, Seen', NEW t, Steady(t), NEW r \in Room, Paired(r), NEW p \in Client
    PROVE  /\ Told(p, ReadyMsg) = IF ReadyMsg(Seat(r, p)) \in Got(p) THEN Seat(r, p) ELSE "NONE"
           /\ Told(p, ReadyMsg)' = IF ReadyMsg(Seat(r, p)) \in Got(p)' THEN Seat(r, p) ELSE "NONE"
           /\ Told(p, ResignEnd) = IF ResignEnd(Seat(r, p)) \in Got(p) THEN Seat(r, p) ELSE "NONE"
           /\ Told(p, ResignEnd)' = IF ResignEnd(Seat(r, p)) \in Got(p)' THEN Seat(r, p) ELSE "NONE"
           /\ HowOften(p, MoveMsg) = Count(p, MoveMsg)
           /\ HowOften(p, MoveMsg)' = Count(p, MoveMsg)'
           /\ HowOften(p, GameEnd) = Count(p, GameEnd)
           /\ HowOften(p, GameEnd)' = Count(p, GameEnd)'
<1>1. Paired(r)' = Paired(r) /\ Seat(r, p)' = Seat(r, p)
  BY RoomsStay DEF Steady
<1>2. Seen /\ ReadyMsg(Seat(r, p))' = ReadyMsg(Seat(r, p)) /\ ResignEnd(Seat(r, p))' = ResignEnd(Seat(r, p))
  BY <1>1 DEF GameSoFar, ReadyMsg, ResignEnd
<1> QED BY <1>1, <1>2 DEF Seen

\* A player to whom nothing is sent sees nothing new, whatever the room.
LEMMA UnseenBy ==
    ASSUME OneGame, GameSoFar, Seen', NEW t, Steady(t), NEW p \in Client, out'[p] = out[p]
    PROVE  /\ Told(p, ReadyMsg)' = Told(p, ReadyMsg) /\ Told(p, ResignEnd)' = Told(p, ResignEnd)
           /\ HowOften(p, MoveMsg)' = HowOften(p, MoveMsg)
           /\ HowOften(p, GameEnd)' = HowOften(p, GameEnd)
<1>1. Got(p)' = Got(p) /\ \A m : Count(p, m)' = Count(p, m)
  BY DEF Got, Count
<1>2. CASE \E r \in Room : Paired(r)
  BY <1>1, <1>2, SeenOn
<1>3. CASE \A r \in Room : ~Paired(r)
  <2>1. \A r \in Room : ~Paired(r)'
    BY <1>3, RoomsStay DEF Steady
  <2> QED BY <1>3, <2>1 DEF GameSoFar, Seen
<1> QED BY <1>2, <1>3

\* A client that leaves leaves the match.
LEMMA DisconnectSeen ==
    ASSUME OneGame, GameSoFar, Seen', NEW c \in Client, Disconnect(c)
    PROVE  M!Leave(c)
<1>1. Steady(None) /\ UNCHANGED out
  BY StillSteady DEF Disconnect
<1>2. \A p \in Client : open'[p] = IF p = c THEN FALSE ELSE open[p]
  BY DEF Disconnect, GameSoFar, IndInv, TypeOK
<1>3. \A p \in Client : /\ Told(p, ReadyMsg)' = Told(p, ReadyMsg)
                        /\ Told(p, ResignEnd)' = Told(p, ResignEnd)
                        /\ HowOften(p, MoveMsg)' = HowOften(p, MoveMsg)
                        /\ HowOften(p, GameEnd)' = HowOften(p, GameEnd)
  BY <1>1, UnseenBy
<1>4. {p \in {One, Other} : ~open'[p]} = {p \in {One, Other} : ~open[p]} \cup {c}
  BY <1>2, Rivals
<1>5. /\ [p \in {One, Other} |-> Told(p, ReadyMsg)]' = [p \in {One, Other} |-> Told(p, ReadyMsg)]
      /\ [p \in {One, Other} |-> Told(p, ResignEnd)]' = [p \in {One, Other} |-> Told(p, ResignEnd)]
      /\ [p \in {One, Other} |-> HowOften(p, MoveMsg)]' = [p \in {One, Other} |-> HowOften(p, MoveMsg)]
      /\ [p \in {One, Other} |-> HowOften(p, GameEnd)]' = [p \in {One, Other} |-> HowOften(p, GameEnd)]
  BY <1>3, Rivals
<1> QED BY <1>4, <1>5 DEF M!Leave

\* Before the two have met nothing is seen, and their meeting is not seen either.
LEMMA ComingSeen ==
    ASSUME OneGame, GameSoFar, Seen', NEW c \in Client, ~Past(c), UNCHANGED <<out, open>>
    PROVE  UNCHANGED M!vars
<1>1. \A r \in Room : ~Paired(r)
  BY NoGameYet DEF GameSoFar, GameInv
<1>2. \A p \in Client : Got(p) \subseteq {RejectMsg}
  BY SilentYet DEF GameSoFar, GameInv
<1>3. \A p \in Client : Got(p)' \subseteq {RejectMsg}
                        /\ Count(p, MoveMsg)' = 0 /\ Count(p, GameEnd)' = 0
  <2>1. \A p \in Client : Count(p, MoveMsg) = 0 /\ Count(p, GameEnd) = 0
    BY <1>2, Counted, Messages DEF GameSoFar, IndInv
  <2> QED BY <1>2, <2>1 DEF Got, Count
<1>4. \A p \in Client : /\ Told(p, ReadyMsg)' = "NONE" /\ Told(p, ResignEnd)' = "NONE"
                        /\ HowOften(p, MoveMsg)' = 0 /\ HowOften(p, GameEnd)' = 0
  <2>1. CASE \A r \in Room : ~Paired(r)'
    BY <2>1 DEF Seen
  <2>2. ASSUME NEW r \in Room, Paired(r)'
        PROVE  \A p \in Client : /\ Told(p, ReadyMsg)' = "NONE" /\ Told(p, ResignEnd)' = "NONE"
                                 /\ HowOften(p, MoveMsg)' = 0 /\ HowOften(p, GameEnd)' = 0
    <3>1. \A k : /\ ReadyMsg(k) # RejectMsg /\ ResignEnd(k) # RejectMsg
      BY DEF ReadyMsg, ResignEnd, RejectMsg
    <3>2. \A p \in Client : /\ ReadyMsg(Seat(r, p)')  \notin Got(p)'
                            /\ ResignEnd(Seat(r, p)')  \notin Got(p)'
      BY <1>3, <3>1
    <3> QED BY <1>3, <2>2, <3>2 DEF Seen, ReadyMsg, ResignEnd
  <2> QED BY <2>1, <2>2
<1>5. \A p \in Client : /\ Told(p, ReadyMsg) = "NONE" /\ Told(p, ResignEnd) = "NONE"
                        /\ HowOften(p, MoveMsg) = 0 /\ HowOften(p, GameEnd) = 0
  BY <1>1 DEF GameSoFar, Seen
<1> QED BY <1>4, <1>5, NothingSeen

\* A rejected player and one that is sent a CHAT see nothing of the match.
LEMMA OtherSeen ==
    ASSUME OneGame, GameSoFar, Seen', NEW c \in Client,
           SecondPlayer(c) \/ ColorConflict(c) \/ Chat(c)
    PROVE  UNCHANGED M!vars
<1>1. Steady(c) /\ UNCHANGED open
  BY SecondPlayerSteady, ColorConflictSteady, ChatSteady
     DEF GameSoFar, GameInv, SecondPlayer, ColorConflict, Reject, Chat
<1>2. UNCHANGED out \/ \E to : \E m \in {RejectMsg, ChatMsg} : Send(to, m)
  BY DEF SecondPlayer, ColorConflict, Reject, Chat, NotSent
<1> SUFFICES ASSUME NEW p \in Client
             PROVE  /\ Told(p, ReadyMsg)' = Told(p, ReadyMsg)
                    /\ Told(p, ResignEnd)' = Told(p, ResignEnd)
                    /\ HowOften(p, MoveMsg)' = HowOften(p, MoveMsg)
                    /\ HowOften(p, GameEnd)' = HowOften(p, GameEnd)
  BY <1>1, NothingSeen
<1>3. CASE out'[p] = out[p]
  BY <1>1, <1>3, UnseenBy
<1>4. ASSUME NEW m \in {RejectMsg, ChatMsg}, Got(p)' = Got(p) \cup {m},
             \A x : x # m => Count(p, x)' = Count(p, x)
      PROVE  /\ Told(p, ReadyMsg)' = Told(p, ReadyMsg)
             /\ Told(p, ResignEnd)' = Told(p, ResignEnd)
             /\ HowOften(p, MoveMsg)' = HowOften(p, MoveMsg)
             /\ HowOften(p, GameEnd)' = HowOften(p, GameEnd)
  <2>1. CASE \A r \in Room : ~Paired(r)
    <3>1. \A r \in Room : ~Paired(r)'
      BY <1>1, <2>1, RoomsStay DEF Steady
    <3> QED BY <2>1, <3>1 DEF GameSoFar, Seen
  <2>2. ASSUME NEW r \in Room, Paired(r)
        PROVE  /\ Told(p, ReadyMsg)' = Told(p, ReadyMsg)
               /\ Told(p, ResignEnd)' = Told(p, ResignEnd)
               /\ HowOften(p, MoveMsg)' = HowOften(p, MoveMsg)
               /\ HowOften(p, GameEnd)' = HowOften(p, GameEnd)
    <3>1. \A k \in Color : ReadyMsg(k) # m /\ ResignEnd(k) # m
      BY Messages
    <3>2. Seat(r, p) \in Color
      BY <2>2, Opponents DEF GameSoFar, GameInv
    <3> QED BY <1>1, <1>4, <2>2, <3>1, <3>2, Messages, SeenOn
  <2> QED BY <2>1, <2>2
<1>5. out'[p] = out[p] \/ \E m \in {RejectMsg, ChatMsg} :
         Got(p)' = Got(p) \cup {m} /\ \A x : x # m => Count(p, x)' = Count(p, x)
  BY <1>2, SentEffect DEF GameSoFar, IndInv
<1> QED BY <1>3, <1>4, <1>5

\* READY tells a player the colour of its seat, once.
LEMMA ReadySeen ==
    ASSUME OneGame, GameSoFar, Seen', NEW c \in Client, SendReady(c)
    PROVE  UNCHANGED M!vars \/ \E k \in Color : M!Ready(c, k)
<1> DEFINE k == frame[c].color
<1>1. Steady(c) /\ UNCHANGED open /\ pc[c] = "ready" /\ TypeOK
  BY SendReadySteady DEF SendReady, GameSoFar, GameInv, IndInv
<1>2. PICK r \in Room : r = At(c) /\ Seated(r)
  BY <1>1, HasSent DEF GameSoFar, GameInv, Sitting
<1>3. \A q \in Room : Paired(q) => q = r /\ k = Seat(q, c)
  BY <1>1, <1>2, Opponents DEF GameSoFar, GameInv, MeetInv, Single, SeatInv, Facing, Sitting
<1>4. CASE UNCHANGED out \/ ~Paired(r)
  <2>1. \A p \in Client : /\ Told(p, ReadyMsg)' = Told(p, ReadyMsg)
                          /\ Told(p, ResignEnd)' = Told(p, ResignEnd)
                          /\ HowOften(p, MoveMsg)' = HowOften(p, MoveMsg)
                          /\ HowOften(p, GameEnd)' = HowOften(p, GameEnd)
    <3>1. CASE UNCHANGED out
      BY <1>1, <3>1, UnseenBy
    <3>2. CASE ~Paired(r)
      <4>1. \A q \in Room : ~Paired(q) /\ ~Paired(q)'
        BY <1>1, <1>3, <3>2, RoomsStay DEF Steady
      <4> QED BY <4>1 DEF GameSoFar, Seen
    <3> QED BY <1>4, <3>1, <3>2
  <2> QED BY <1>1, <2>1, NothingSeen
<1>5. CASE Send({c}, ReadyMsg(k)) /\ Paired(r)
  <2>1. k \in Color /\ k = Seat(r, c)
    BY <1>3, <1>5, Opponents DEF GameSoFar, GameInv
  <2>2. /\ \A p \in Client \ {c} : out'[p] = out[p]
        /\ Got(c)' = Got(c) \cup {ReadyMsg(k)}
        /\ Count(c, MoveMsg)' = Count(c, MoveMsg) /\ Count(c, GameEnd)' = Count(c, GameEnd)
    BY <1>1, <1>5, <2>1, SentEffect, Messages
  <2>3. \A p \in Client : /\ Told(p, ReadyMsg)' = IF p = c THEN k ELSE Told(p, ReadyMsg)
                          /\ Told(p, ResignEnd)' = Told(p, ResignEnd)
                          /\ HowOften(p, MoveMsg)' = HowOften(p, MoveMsg)
                          /\ HowOften(p, GameEnd)' = HowOften(p, GameEnd)
    <3> SUFFICES ASSUME NEW p \in Client
                 PROVE  /\ Told(p, ReadyMsg)' = IF p = c THEN k ELSE Told(p, ReadyMsg)
                        /\ Told(p, ResignEnd)' = Told(p, ResignEnd)
                        /\ HowOften(p, MoveMsg)' = HowOften(p, MoveMsg)
                        /\ HowOften(p, GameEnd)' = HowOften(p, GameEnd)
      OBVIOUS
    <3>1. CASE p # c
      BY <1>1, <2>2, <3>1, UnseenBy
    <3>2. CASE p = c
      BY <1>1, <1>5, <2>1, <2>2, <3>2, Messages, SeenOn
    <3> QED BY <3>1, <3>2
  <2>4. Told(c, ReadyMsg) \in {"NONE", k} /\ Told(c, ResignEnd) \in {"NONE", k}
    BY <1>1, <1>5, <2>1, SeenOn
  <2>5. CASE Told(c, ReadyMsg) = k
    BY <1>1, <2>3, <2>5, NothingSeen
  <2>6. CASE Told(c, ReadyMsg) = "NONE"
    <3>1. /\ [p \in {One, Other} |-> Told(p, ReadyMsg)]' = [[p \in {One, Other} |-> Told(p, ReadyMsg)] EXCEPT ![c] = k]
          /\ [p \in {One, Other} |-> Told(p, ResignEnd)]' = [p \in {One, Other} |-> Told(p, ResignEnd)]
          /\ [p \in {One, Other} |-> HowOften(p, MoveMsg)]' = [p \in {One, Other} |-> HowOften(p, MoveMsg)]
          /\ [p \in {One, Other} |-> HowOften(p, GameEnd)]' = [p \in {One, Other} |-> HowOften(p, GameEnd)]
          /\ {p \in {One, Other} : ~open'[p]} = {p \in {One, Other} : ~open[p]}
      BY <1>1, <2>3, Rivals
    <3>2. Wished(c, k)
      BY <1>5, <2>1 DEF GameSoFar, GameInv, SeatInv, Suited
    <3>3. M!Rival(c) \in Client /\ Told(M!Rival(c), ReadyMsg) \in {"NONE", Reverse(k)}
      <4>1. Peer(r, c) \in Client \ {c} /\ Seat(r, Peer(r, c)) = Reverse(k)
        BY <1>5, <2>1, Opponents DEF GameSoFar, GameInv
      <4>2. M!Rival(c) = Peer(r, c)
        BY <4>1, Rivals
      <4> QED BY <1>1, <1>5, <4>1, <4>2, SeenOn
    <3>4. /\ [p \in {One, Other} |-> Told(p, ReadyMsg)][c] = "NONE"
          /\ k \in [p \in {One, Other} |-> {j \in Color : Wished(p, j)}][c]
          /\ [p \in {One, Other} |-> Told(p, ReadyMsg)][M!Rival(c)] \in {"NONE", M!Reverse(k)}
          /\ [p \in {One, Other} |-> Told(p, ResignEnd)][c] \in {"NONE", k}
      BY <2>1, <2>4, <2>6, <3>2, <3>3, Rivals
    <3>5. M!Ready(c, k)
      BY <3>1, <3>4 DEF M!Ready
    <3> QED BY <2>1, <3>5
  <2> QED BY <2>4, <2>5, <2>6
<1> QED BY <1>4, <1>5 DEF SendReady, NotSent

\* A resignation tells the other one that it has won, once.
LEMMA ResignSeen ==
    ASSUME OneGame, GameSoFar, Seen', NEW c \in Client, Resign(c)
    PROVE  UNCHANGED M!vars \/ M!Resign(c)
<1>0. PICK q, k : q = frame[c].peer /\ k = Winner(c)
  OBVIOUS
<1>1. Steady(c) /\ UNCHANGED open /\ pc[c] = "resign" /\ TypeOK
  BY ResignSteady DEF Resign, GameSoFar, GameInv, IndInv
<1>2. CASE UNCHANGED out
  BY <1>1, <1>2, UnseenBy, NothingSeen
<1>3. CASE \A r \in Room : ~Paired(r)
  <2>1. \A r \in Room : ~Paired(r)'
    BY <1>1, <1>3, RoomsStay DEF Steady
  <2> QED BY <1>1, <1>3, <2>1, NothingSeen DEF GameSoFar, Seen
<1>4. ASSUME NEW r \in Room, Paired(r), Send({q}, ResignEnd(k))
      PROVE  UNCHANGED M!vars \/ M!Resign(c)
  <2>1. /\ Seat(r, c) \in Color /\ q = Peer(r, c) /\ q \in Client \ {c} /\ k = Reverse(Seat(r, c))
        /\ k = Seat(r, q) /\ k \in Color /\ q = M!Rival(c)
    <3>1. frame[c].color = Seat(r, c) /\ q = Peer(r, c)
      BY <1>0, <1>1, <1>4 DEF GameSoFar, GameInv, SeatInv, Facing, Sitting, InGame
    <3> QED BY <1>0, <1>4, <3>1, Opponents, Reverses, Rivals DEF GameSoFar, GameInv, Winner
  <2>2. /\ \A p \in Client \ {q} : out'[p] = out[p]
        /\ Got(q)' = Got(q) \cup {ResignEnd(k)}
        /\ Count(q, MoveMsg)' = Count(q, MoveMsg) /\ Count(q, GameEnd)' = Count(q, GameEnd)
    BY <1>1, <1>4, <2>1, SentEffect, Messages
  <2>3. \A p \in Client : /\ Told(p, ReadyMsg)' = Told(p, ReadyMsg)
                          /\ Told(p, ResignEnd)' = IF p = q THEN k ELSE Told(p, ResignEnd)
                          /\ HowOften(p, MoveMsg)' = HowOften(p, MoveMsg)
                          /\ HowOften(p, GameEnd)' = HowOften(p, GameEnd)
    <3> SUFFICES ASSUME NEW p \in Client
                 PROVE  /\ Told(p, ReadyMsg)' = Told(p, ReadyMsg)
                        /\ Told(p, ResignEnd)' = IF p = q THEN k ELSE Told(p, ResignEnd)
                        /\ HowOften(p, MoveMsg)' = HowOften(p, MoveMsg)
                        /\ HowOften(p, GameEnd)' = HowOften(p, GameEnd)
      OBVIOUS
    <3>1. CASE p # q
      BY <1>1, <2>2, <3>1, UnseenBy
    <3>2. CASE p = q
      BY <1>1, <1>4, <2>1, <2>2, <3>2, Messages, SeenOn
    <3> QED BY <3>1, <3>2
  <2>4. Told(q, ResignEnd) \in {"NONE", k} /\ Told(c, ReadyMsg) = Seat(r, c)
    <3>1. ReadyMsg(Seat(r, c)) \in Got(c)
      BY <1>1, <1>4 DEF GameSoFar, GameInv, ToldInv, Colours, InGame
    <3> QED BY <1>1, <1>4, <2>1, <3>1, SeenOn
  <2>5. CASE Told(q, ResignEnd) = k
    BY <1>1, <2>3, <2>5, NothingSeen
  <2>6. CASE Told(q, ResignEnd) = "NONE"
    <3>1. [p \in {One, Other} |-> Told(p, ResignEnd)]' = [[p \in {One, Other} |-> Told(p, ResignEnd)] EXCEPT ![q] = k]
      BY <2>1, <2>3, Rivals
    <3>2. /\ [p \in {One, Other} |-> Told(p, ReadyMsg)]' = [p \in {One, Other} |-> Told(p, ReadyMsg)]
          /\ [p \in {One, Other} |-> HowOften(p, MoveMsg)]' = [p \in {One, Other} |-> HowOften(p, MoveMsg)]
          /\ [p \in {One, Other} |-> HowOften(p, GameEnd)]' = [p \in {One, Other} |-> HowOften(p, GameEnd)]
          /\ {p \in {One, Other} : ~open'[p]} = {p \in {One, Other} : ~open[p]}
      BY <1>1, <2>3, Rivals
    <3>3. /\ [p \in {One, Other} |-> Told(p, ReadyMsg)][c] = Seat(r, c)
          /\ [p \in {One, Other} |-> Told(p, ResignEnd)][M!Rival(c)] = "NONE"
      BY <2>1, <2>4, <2>6, Rivals
    <3>4. Seat(r, c) # "NONE" /\ q = M!Rival(c) /\ k = M!Reverse(Seat(r, c))
      BY <2>1, Rivals DEF Color
    <3> QED BY <3>1, <3>2, <3>3, <3>4 DEF M!Resign
  <2> QED BY <2>4, <2>5, <2>6
<1> QED BY <1>0, <1>2, <1>3, <1>4 DEF Resign, ResignTo, NotSent

\* While the daemon plays, the match is running.
LEMMA MatchRuns ==
    ASSUME OneGame, GameSoFar, NEW r \in Room, Paired(r), InPlay(r), game[r].daemon \notin Asleep
    PROVE  M!Running
<1>1. game[r].unblocked = Color
  BY HasDaemon DEF GameSoFar, GameInv, Asleep, Awake
<1> SUFFICES ASSUME NEW p \in Client
             PROVE  Told(p, ReadyMsg) # "NONE" /\ HowOften(p, GameEnd) = 0
  BY Rivals DEF M!Running, M!Started, M!Player
<1>2. Seat(r, p) \in Color
  BY Opponents DEF GameSoFar, GameInv
<1>3. ReadyMsg(Seat(r, p)) \in Got(p) /\ Count(p, GameEnd) = 0
  BY <1>1, <1>2 DEF GameSoFar, GameInv, ToldInv, Colours, Endings
<1>4. Told(p, ReadyMsg) = Seat(r, p) /\ HowOften(p, GameEnd) = Count(p, GameEnd)
  BY <1>3 DEF GameSoFar, Seen
<1> QED BY <1>2, <1>3, <1>4 DEF Color

LEMMA OddOrEven ==
    /\ \A n \in Nat : (n + n) % 2 = 0
    /\ \A n \in Nat : (n + 1 + n) % 2 = 1
OBVIOUS

\* The one that has moved is the one whose turn it is in the match.
LEMMA TurnOfMatch ==
    ASSUME OneGame, GameSoFar, NEW r \in Room, Paired(r), game[r].attached,
           NEW k \in Color, game[r].daemon = Moved(k)
    PROVE  M!Turn = k
<1>1. PICK p \in Client, q \in Client :
        Seat(r, p) = "WHITE" /\ Seat(r, q) = "BLACK" /\ {p, q} = {One, Other} /\ p # q
  <2>1. Seat(r, One) \in Color /\ Seat(r, Other) = Reverse(Seat(r, One))
    BY Opponents, TwoClients DEF GameSoFar, GameInv
  <2> QED BY <2>1, TwoClients DEF Color, Reverse
<1>2. Ahead(p, q) = IF k = "BLACK" THEN 0 ELSE 1
  BY <1>1 DEF GameSoFar, GameInv, ToldInv, Turns, Moved, Color
<1>3. Count(p, MoveMsg) \in Nat /\ Count(q, MoveMsg) \in Nat
  BY Counted DEF GameSoFar, IndInv
<1>4. HowOften(One, MoveMsg) + HowOften(Other, MoveMsg) = Count(p, MoveMsg) + Count(q, MoveMsg)
  <2>1. \A c \in Client : HowOften(c, MoveMsg) = Count(c, MoveMsg)
    BY DEF GameSoFar, Seen
  <2>2. (p = One /\ q = Other) \/ (p = Other /\ q = One)
    BY <1>1
  <2> QED BY <1>3, <2>1, <2>2
<1>5. [c \in {One, Other} |-> HowOften(c, MoveMsg)][One]
        + [c \in {One, Other} |-> HowOften(c, MoveMsg)][Other] = Count(p, MoveMsg) + Count(q, MoveMsg)
  BY <1>4
<1>6. CASE k = "BLACK"
  <2>1. Count(p, MoveMsg) = Count(q, MoveMsg)
    BY <1>2, <1>3, <1>6 DEF Ahead
  <2>2. (Count(p, MoveMsg) + Count(q, MoveMsg)) % 2 = 0
    BY <1>3, <2>1, OddOrEven
  <2> QED BY <1>5, <1>6, <2>2 DEF M!Turn
<1>7. CASE k = "WHITE"
  <2>1. Count(p, MoveMsg) = Count(q, MoveMsg) + 1
    BY <1>2, <1>3, <1>7 DEF Ahead
  <2>2. (Count(p, MoveMsg) + Count(q, MoveMsg)) % 2 = 1
    BY <1>3, <2>1, OddOrEven
  <2> QED BY <1>5, <1>7, <2>2 DEF M!Turn
<1> QED BY <1>6, <1>7 DEF Color

\* A move is relayed in its turn, or to nobody.
LEMMA MakeMoveSeen ==
    ASSUME OneGame, GameSoFar, Seen', NEW r \in Room, MakeMove(r)
    PROVE  UNCHANGED M!vars \/ \E p \in Client : M!Move(p)
<1>1. Steady(None) /\ UNCHANGED open /\ TypeOK
  BY DaemonSteady DEF Daemon, MakeMove, GameSoFar, GameInv, IndInv
<1>2. PICK k \in Color : game[r].daemon = Moved(k) /\ (UNCHANGED out \/ Send(Relay(r, k), MoveMsg))
  BY DEF MakeMove, NotSent
<1>3. Seated(r) /\ InPlay(r) /\ game[r].daemon \notin Asleep
  BY <1>2, HasDaemon DEF Moved, InPlay, Asleep, GameSoFar, GameInv
<1>4. CASE ~Paired(r)
  <2>1. \A q \in Room : ~Paired(q)
    BY <1>3, <1>4, Opponents DEF GameSoFar, GameInv, MeetInv, Single
  <2>2. \A q \in Room : ~Paired(q)'
    BY <1>1, <2>1, RoomsStay DEF Steady
  <2> QED BY <1>1, <2>1, <2>2, NothingSeen DEF GameSoFar, Seen
<1>5. CASE Paired(r) /\ (UNCHANGED out \/ ~game[r].attached)
  <2>1. \A p \in Client : out'[p] = out[p]
    <3>1. CASE ~game[r].attached
      BY <1>1, <1>2, <1>5, <3>1, RelayedTo, SentEffect DEF GameSoFar, GameInv
    <3> QED BY <1>5, <3>1
  <2> QED BY <1>1, <2>1, UnseenBy, NothingSeen
<1>6. CASE Paired(r) /\ Send(Relay(r, k), MoveMsg) /\ game[r].attached
  <2>1. PICK p \in Client : Seat(r, p) = Reverse(k) /\ Relay(r, k) = {p}
    <3>1. PICK c \in Client : Seat(r, c) = Reverse(k)
      <4>1. Seat(r, One) \in Color /\ Seat(r, Other) = Reverse(Seat(r, One))
        BY <1>6, Opponents, TwoClients DEF GameSoFar, GameInv
      <4> QED BY <4>1, TwoClients DEF Color, Reverse
    <3> QED BY <1>2, <1>6, <3>1, RelayedTo, OneSide DEF GameSoFar, GameInv
  <2>2. /\ \A c \in Client \ {p} : out'[c] = out[c]
        /\ Got(p)' = Got(p) \cup {MoveMsg}
        /\ Count(p, MoveMsg)' = Count(p, MoveMsg) + 1 /\ Count(p, GameEnd)' = Count(p, GameEnd)
    BY <1>1, <1>6, <2>1, SentEffect, Messages
  <2>3. \A c \in Client : /\ Told(c, ReadyMsg)' = Told(c, ReadyMsg)
                          /\ Told(c, ResignEnd)' = Told(c, ResignEnd)
                          /\ HowOften(c, MoveMsg)' = IF c = p THEN HowOften(c, MoveMsg) + 1
                                                              ELSE HowOften(c, MoveMsg)
                          /\ HowOften(c, GameEnd)' = HowOften(c, GameEnd)
    <3> SUFFICES ASSUME NEW c \in Client
                 PROVE  /\ Told(c, ReadyMsg)' = Told(c, ReadyMsg)
                        /\ Told(c, ResignEnd)' = Told(c, ResignEnd)
                        /\ HowOften(c, MoveMsg)' = IF c = p THEN HowOften(c, MoveMsg) + 1
                                                            ELSE HowOften(c, MoveMsg)
                        /\ HowOften(c, GameEnd)' = HowOften(c, GameEnd)
      OBVIOUS
    <3>1. CASE c # p
      BY <1>1, <2>2, <3>1, UnseenBy
    <3>2. CASE c = p
      <4>1. Seat(r, p) \in Color
        BY <2>1, Reverses
      <4> QED BY <1>1, <1>6, <2>2, <3>2, <4>1, Messages, SeenOn
    <3> QED BY <3>1, <3>2
  <2>4. /\ [c \in {One, Other} |-> HowOften(c, MoveMsg)]' = [[c \in {One, Other} |-> HowOften(c, MoveMsg)] EXCEPT ![p] = @ + 1]
        /\ [c \in {One, Other} |-> Told(c, ReadyMsg)]' = [c \in {One, Other} |-> Told(c, ReadyMsg)]
        /\ [c \in {One, Other} |-> Told(c, ResignEnd)]' = [c \in {One, Other} |-> Told(c, ResignEnd)]
        /\ [c \in {One, Other} |-> HowOften(c, GameEnd)]' = [c \in {One, Other} |-> HowOften(c, GameEnd)]
        /\ {c \in {One, Other} : ~open'[c]} = {c \in {One, Other} : ~open[c]}
    BY <1>1, <2>3, Rivals
  <2>5. [c \in {One, Other} |-> Told(c, ReadyMsg)][p] = M!Reverse(M!Turn)
    <3>1. M!Turn = k /\ M!Reverse(k) = Reverse(k)
      BY <1>2, <1>6, TurnOfMatch, Rivals
    <3>2. ReadyMsg(Seat(r, p)) \in Got(p)
      <4>1. game[r].unblocked = Color /\ Seat(r, p) \in Color
        BY <1>2, <1>6, <2>1, RelayedTo, Reverses DEF GameSoFar, GameInv
      <4> QED BY <1>6, <4>1 DEF GameSoFar, GameInv, ToldInv, Colours
    <3>3. Told(p, ReadyMsg) = Reverse(k)
      BY <1>1, <1>6, <2>1, <3>2, SeenOn
    <3> QED BY <3>1, <3>3, Rivals
  <2>6. M!Running
    BY <1>3, <1>6, MatchRuns
  <2>7. M!Move(p)
    BY <2>4, <2>5, <2>6 DEF M!Move
  <2> QED BY <2>7
<1> QED BY <1>2, <1>4, <1>5, <1>6

\* The end of the game is told to both, or to the one that is still there.
LEMMA OnGameEndedSeen ==
    ASSUME OneGame, GameSoFar, Seen', NEW r \in Room, OnGameEnded(r)
    PROVE  UNCHANGED M!vars \/ M!Finish
<1>1. Steady(None) /\ UNCHANGED open /\ TypeOK
  BY DaemonSteady DEF Daemon, OnGameEnded, GameSoFar, GameInv, IndInv
<1>2. PICK l \in game[r].pending :
        \/ UNCHANGED out
        \/ room[r].status = "PLAYING" /\ Send({l.sock, l.peer}, GameEnd)
        \/ room[r].status = "PLAYING" /\ ~open[l.peer] /\ Send({l.sock}, GameEnd)
  BY DEF OnGameEnded, NotEnded, NotSent, Throws
<1>3. game[r].daemon = "listener" /\ Seated(r)
  BY HasDaemon DEF OnGameEnded, GameSoFar, GameInv
<1>4. CASE ~Paired(r)
  <2>1. \A q \in Room : ~Paired(q)
    BY <1>3, <1>4, Opponents DEF GameSoFar, GameInv, MeetInv, Single
  <2>2. \A q \in Room : ~Paired(q)'
    BY <1>1, <2>1, RoomsStay DEF Steady
  <2> QED BY <1>1, <2>1, <2>2, NothingSeen DEF GameSoFar, Seen
<1>5. CASE UNCHANGED out
  BY <1>1, <1>5, UnseenBy, NothingSeen
<1>6. ASSUME Paired(r), NEW to, Send(to, GameEnd), room[r].status = "PLAYING",
             to = {l.sock, l.peer} \/ (to = {l.sock} /\ ~open[l.peer])
      PROVE  M!Finish
  <2>1. /\ l.sock \in Client /\ l.peer \in Client \ {l.sock}
        /\ l.peer = M!Rival(l.sock) /\ l.sock = M!Rival(l.peer)
    <3>1. PICK c \in Client : l.sock = c /\ l.peer = Peer(r, c)
      BY <1>6 DEF GameSoFar, GameInv, SeatInv, Listeners, Ears
    <3> QED BY <1>6, <3>1, Opponents, Rivals DEF GameSoFar, GameInv
  <2>2. InPlay(r) /\ \A c \in Client : Count(c, GameEnd) = 0
    BY <1>3, <1>6 DEF GameSoFar, GameInv, ToldInv, Endings, InPlay
  <2>3. \A c \in Client : /\ Told(c, ReadyMsg)' = Told(c, ReadyMsg)
                          /\ Told(c, ResignEnd)' = Told(c, ResignEnd)
                          /\ HowOften(c, MoveMsg)' = HowOften(c, MoveMsg)
                          /\ HowOften(c, GameEnd)' = IF c \in to THEN 1 ELSE 0
    <3> SUFFICES ASSUME NEW c \in Client
                 PROVE  /\ Told(c, ReadyMsg)' = Told(c, ReadyMsg)
                        /\ Told(c, ResignEnd)' = Told(c, ResignEnd)
                        /\ HowOften(c, MoveMsg)' = HowOften(c, MoveMsg)
                        /\ HowOften(c, GameEnd)' = IF c \in to THEN 1 ELSE 0
      OBVIOUS
    <3>1. HowOften(c, GameEnd) = 0 /\ HowOften(c, GameEnd)' = Count(c, GameEnd)'
      BY <1>1, <1>6, <2>2, SeenOn
    <3>2. CASE c \notin to
      BY <1>1, <1>6, <3>1, <3>2, SentEffect, UnseenBy
    <3>3. CASE c \in to
      <4>1. Seat(r, c) \in Color
        BY <1>6, Opponents DEF GameSoFar, GameInv
      <4>2. /\ Got(c)' = Got(c) \cup {GameEnd} /\ Count(c, GameEnd)' = 1
            /\ Count(c, MoveMsg)' = Count(c, MoveMsg)
        BY <1>1, <1>6, <2>2, <3>3, SentEffect, Messages
      <4> QED BY <1>1, <1>6, <3>1, <3>3, <4>1, <4>2, Messages, SeenOn
    <3> QED BY <3>2, <3>3
  <2>4. /\ [c \in {One, Other} |-> HowOften(c, MoveMsg)]' = [c \in {One, Other} |-> HowOften(c, MoveMsg)]
        /\ [c \in {One, Other} |-> Told(c, ReadyMsg)]' = [c \in {One, Other} |-> Told(c, ReadyMsg)]
        /\ [c \in {One, Other} |-> Told(c, ResignEnd)]' = [c \in {One, Other} |-> Told(c, ResignEnd)]
        /\ [c \in {One, Other} |-> HowOften(c, GameEnd)]' = [c \in M!Player |-> IF c \in to THEN 1 ELSE 0]
        /\ {c \in {One, Other} : ~open'[c]} = {c \in {One, Other} : ~open[c]}
    BY <1>1, <2>3, Rivals DEF M!Player
  <2>5. to \in {M!Player} \cup {{p} : p \in {q \in M!Player : M!Rival(q) \in {c \in {One, Other} : ~open[c]}}}
    <3>1. CASE to = {l.sock, l.peer}
      <4>1. {l.sock, l.peer} = {One, Other}
        BY <2>1, TwoClients
      <4> QED BY <3>1, <4>1 DEF M!Player
    <3>2. CASE to = {l.sock} /\ ~open[l.peer]
      BY <2>1, <3>2, Rivals DEF M!Player
    <3> QED BY <1>6, <3>1, <3>2
  <2>6. M!Running
    BY <1>3, <1>6, <2>2, MatchRuns DEF Asleep
  <2> QED BY <2>4, <2>5, <2>6 DEF M!Finish
<1> QED BY <1>2, <1>4, <1>5, <1>6

\* A step of the service is a step of the match or is not seen.
LEMMA NextSeen ==
    ASSUME OneGame, GameSoFar, GameSoFar', [Next]_vars
    PROVE  [M!Next]_(M!vars)
<1>1. CASE \E c \in Client : ~Past(c) /\ UNCHANGED <<out, open>>
  BY <1>1, ComingSeen DEF GameSoFar
<1>2. CASE \E t : Steady(t)
  <2>1. CASE UNCHANGED <<out, open>>
    BY <1>2, <2>1, UnseenBy, NothingSeen DEF GameSoFar
  <2>2. ASSUME NEW c \in Client,
               \/ Disconnect(c) \/ SecondPlayer(c) \/ ColorConflict(c)
               \/ SendReady(c) \/ Chat(c) \/ Resign(c)
        PROVE  [M!Next]_(M!vars)
    BY <2>2, DisconnectSeen, OtherSeen, ReadySeen, ResignSeen, Rivals
       DEF GameSoFar, M!Next, M!Player
  <2>3. ASSUME NEW r \in Room, MakeMove(r) \/ OnGameEnded(r) PROVE [M!Next]_(M!vars)
    BY <2>3, MakeMoveSeen, OnGameEndedSeen, Rivals DEF GameSoFar, M!Next, M!Player
  <2> QED BY <2>1, <2>2, <2>3, Telling
<1> QED BY <1>1, <1>2, Comings DEF GameSoFar, GameInv

LEMMA InitSeen == ASSUME OneGame, Init PROVE M!Init
<1>1. \A r \in Room : ~Paired(r)
  BY DEF Init, Paired, NewRoom
<1>2. \A p \in Client : open[p]
  BY DEF Init
<1>3. \A p \in Client : /\ Told(p, ReadyMsg) = "NONE" /\ Told(p, ResignEnd) = "NONE"
                        /\ HowOften(p, MoveMsg) = 0 /\ HowOften(p, GameEnd) = 0
  <2>1. ~Matching
    BY <1>1 DEF Matching
  <2> QED BY <2>1 DEF Told, HowOften
<1> QED BY <1>2, <1>3, Rivals DEF M!Init, M!Player

\* Whatever the threads of the service do, its two clients see a match: what holds of
\* every match (MatchProofs) holds of what they are told.
THEOREM ServiceIsMatch == ASSUME OneGame PROVE Spec => IsMatch
<1>1. Init => M!Init
  BY InitSeen
<1>2. GameSoFar /\ GameSoFar' /\ [Next]_vars => [M!Next]_(M!vars)
  BY NextSeen
<1> QED BY <1>1, <1>2, GameSeenAlways, PTL DEF Spec, IsMatch, M!Spec

-----------------------------------------------------------------------------
(* Being joined, when nobody calls ShutdownService.                          *)

LEMMA NoAdmins == ASSUME Admin = {} PROVE Thread = Client
BY DEF Thread

\* Whoever cleans a room, or plays, has met the other one.
LEMMA LateIsPast ==
    ASSUME IndInv, JoinInv, NEW c \in Client,
           pc[c] \notin {"idle", "spin", "exit", "pick", "abort", "joined", "second", "pair", "rejected", "wait", "woken"}
    PROVE  \A p \in Client : Past(p)
BY InAction, Threads DEF JoinInv, Meeting

LEMMA AllPast ==
    ASSUME MeetInv, NEW t, Steady(t), \A p \in Client : Past(p)
    PROVE  Meeting'
<1>1. \A p \in Client : Past(p)'
  BY StaysPast, Threads DEF Steady
<1> QED BY <1>1 DEF Meeting, Past, Fresh

\* What a step of t may do to the daemons: a thread that is joined, or not there, stays
\* so; a room with a game is not dropped before its daemon is joined; and t passes the
\* join only when that is so.
Joins(t) ==
    /\ \A r \in Room :
          /\ game[r].daemon = "joined" => game'[r].daemon = "joined"
          /\ game[r].daemon = "none" => game'[r].daemon = "none"
          /\ Seated(r) /\ r \in rooms => r \in rooms' \/ game'[r].daemon = "joined"
          /\ room'[r].status = "REMOVED" =>
                room[r].status = "REMOVED" \/ game'[r].daemon \in {"none", "joined"}
    /\ t \in Client =>
          /\ pc'[t] \in {"test", "startfail", "erase"} => game'[At(t)'].daemon \in {"none", "joined"}
          /\ pc'[t] # "abort" /\ frame'[t].trap # "abort"

LEMMA JoinsStep ==
    ASSUME IndInv, JoinInv, NEW t, Steady(t), Joins(t)
    PROVE  Joined' /\ RemovedIsJoined'
<1>1. ASSUME NEW r \in Room, Seated(r)' PROVE r \in rooms' \/ game'[r].daemon = "joined"
  <2>1. Seated(r)
    BY <1>1, RoomsStay DEF Steady
  <2> QED BY <2>1 DEF JoinInv, Joined, Joins
<1>2. ASSUME NEW p \in Client
      PROVE  /\ pc'[p] \in {"test", "startfail", "erase"} => game'[At(p)'].daemon \in {"none", "joined"}
             /\ pc'[p] # "abort" /\ frame'[p].trap # "abort"
  <2>1. CASE p = t
    BY <2>1 DEF Joins
  <2>2. CASE p # t
    <3>1. /\ frame'[p] = frame[p] /\ At(p)' = At(p)
          /\ pc'[p] = pc[p] \/ pc'[p] = "woken"
      BY <2>2, Threads DEF Steady, Others, At
    <3>2. pc[p] \in {"test", "startfail", "erase"} => At(p) \in Room
      BY Threads, InAction
    <3> QED BY <3>1, <3>2 DEF JoinInv, Joined, Joins
  <2> QED BY <2>1, <2>2
<1>3. RemovedIsJoined'
  BY DEF JoinInv, RemovedIsJoined, Joins
<1> QED BY <1>1, <1>2, <1>3 DEF Joined

\* A step of a client that has met the other one.
LEMMA LateJoin ==
    ASSUME IndInv, MeetInv, JoinInv, NEW c \in Client, Steady(c), Joins(c),
           pc[c] \notin {"idle", "spin", "exit", "pick", "abort", "joined", "second", "pair", "rejected", "wait", "woken"}
    PROVE  JoinInv'
BY LateIsPast, AllPast, JoinsStep DEF JoinInv

\* A step that leaves the rooms and their daemons alone.
LEMMA QuietJoins ==
    ASSUME UNCHANGED <<rooms, game>>, NEW t,
           \A r \in Room : room'[r].status = "REMOVED" => room[r].status = "REMOVED",
           t \in Client => /\ pc'[t] \notin {"test", "startfail", "erase", "abort"}
                           /\ frame'[t].trap # "abort"
    PROVE  Joins(t)
BY DEF Joins

LEMMA QuietHandlerJoin ==
    ASSUME OneGame, IndInv, MeetInv, JoinInv, NEW c \in Client,
           CheckRoomStatus(c) \/ Listen(c) \/ Chat(c) \/ Resign(c) \/ CloseRoom(c)
    PROVE  JoinInv'
<1>1. Steady(c)
  BY CheckRoomStatusSteady, ListenSteady, ChatSteady, ResignSteady, CloseRoomSteady
<1>2. UNCHANGED <<rooms, game>> /\ pc[c] \in {"check", "listen", "chat", "resign", "closing", "oops"}
  BY DEF CheckRoomStatus, Listen, Chat, Resign, CloseRoom
<1>3. TypeOK /\ At(c) \in Room /\ c \in Thread /\ frame[c].trap # "abort"
  BY <1>2, Threads, InAction DEF JoinInv, Joined
<1>4. \A r \in Room : room'[r].status = "REMOVED" => room[r].status = "REMOVED"
  <2>1. \/ UNCHANGED room
        \/ room' = [room EXCEPT ![At(c)].status = "CLOSED", ![At(c)].lock = c]
        \/ room' = [room EXCEPT ![At(c)].status = "CLOSED"]
    BY DEF CheckRoomStatus, Listen, Chat, Resign, CloseRoom, CleanEnded, SetStatus
  <2> QED BY <1>3, <2>1 DEF TypeOK, RoomType
<1>5. pc'[c] \in {"clean", "idle", "ready", "resign", "move", "chat", "listen", "oops", "closing"}
  <2>1. \/ \E l \in {"clean", "idle", "ready", "resign", "move", "chat", "listen", "oops", "closing"} :
               pc' = [pc EXCEPT ![c] = l]
        \/ UNCHANGED pc /\ pc[c] = "listen"
    BY DEF CheckRoomStatus, Listen, Chat, Resign, CloseRoom, CleanEnded, NextIteration, Dispatch, Goto
  <2> QED BY <1>3, <2>1 DEF TypeOK
<1>6. frame'[c].trap \in {frame[c].trap, "exit", "oops"}
  <2>1. CASE UNCHANGED frame \/ DropLocals(c)
    BY <1>3, <2>1 DEF DropLocals, NoFrame, TypeOK
  <2>2. CASE \E m : frame' = [frame EXCEPT ![c].msg = m]
    BY <1>3, <2>2 DEF TypeOK, FrameType
  <2>3. CASE \E h \in {"exit", "oops"} : \E m : frame' = [frame EXCEPT ![c].trap = h, ![c].msg = m]
    BY <1>3, <2>3 DEF TypeOK, FrameType
  <2>4. CASE \E h \in {"exit", "oops"} : frame' = [frame EXCEPT ![c].trap = h]
    BY <1>3, <2>4 DEF TypeOK, FrameType
  <2> QED BY <2>1, <2>2, <2>3, <2>4
          DEF CheckRoomStatus, Listen, Chat, Resign, CloseRoom, CleanEnded, NextIteration
<1>7. Joins(c)
  BY <1>2, <1>3, <1>4, <1>5, <1>6, QuietJoins
<1> QED BY <1>1, <1>2, <1>7, LateJoin

\* Sitting down, READY and a move change the game, but no daemon that is joined or not there.
LEMMA PlayJoin ==
    ASSUME IndInv, MeetInv, JoinInv, NEW c \in Client, TakeSeat(c) \/ SendReady(c) \/ CommitMove(c)
    PROVE  JoinInv'
<1>1. Steady(c)
  BY TakeSeatSteady, SendReadySteady, CommitMoveSteady
<1>2. /\ UNCHANGED <<rooms, room>>
      /\ pc[c] \in {"seat1", "seat2", "ready", "move"} /\ pc[c] \in Seating \cup Sitting
  BY DEF TakeSeat, SendReady, CommitMove, connVars, Seating, Sitting, InGame
<1>3. PICK r \in Room : r = At(c)
  BY <1>2, HasSent
<1>4. TypeOK /\ c \in Thread /\ frame[c].trap # "abort"
  BY Threads DEF JoinInv, Joined, IndInv
<1>5. pc'[c] \in {"check", "listen", "exit", "oops"} /\ frame'[c].trap \in {frame[c].trap, "exit"}
  <2>1. \E l \in {"check", "listen", "exit", "oops"} : pc' = [pc EXCEPT ![c] = l]
    BY DEF TakeSeat, SendReady, CommitMove, Goto, Exit
  <2>2. CASE UNCHANGED frame \/ DropLocals(c)
    BY <1>4, <2>1, <2>2 DEF DropLocals, NoFrame, TypeOK
  <2>3. CASE \E k, q : frame' = [frame EXCEPT ![c].color = k, ![c].peer = q]
    BY <1>4, <2>1, <2>3 DEF TypeOK, FrameType
  <2> QED BY <2>2, <2>3 DEF TakeSeat, SendReady, CommitMove, Exit
<1>6. \A q \in Room : game[q].daemon \in {"none", "joined"} => game'[q].daemon = game[q].daemon
  <2>1. CASE \E l : game' = [game EXCEPT ![r].heard = @ \cup {l}]
    BY <1>4, <2>1 DEF TypeOK, GameType
  <2>2. CASE \E k : game' = [game EXCEPT ![r].unblocked = @ \cup {k}]
    BY <1>4, <2>2 DEF TypeOK, GameType
  <2>3. CASE game' = [game EXCEPT ![r].daemon = Moved(@)] /\ game[r].daemon = frame[c].color
    <3>1. frame[c].color \in Request /\ game[r].daemon \in DaemonStatus
      BY <1>4 DEF TypeOK, FrameType, GameType
    <3>2. game[r].daemon \in Color
      BY <2>3, <3>1 DEF Request, Color, DaemonStatus
    <3> QED BY <1>4, <2>3, <3>2 DEF TypeOK, GameType, Color
  <2> QED BY <1>3, <2>1, <2>2, <2>3 DEF TakeSeat, SendReady, CommitMove
<1>7. Joins(c)
  BY <1>2, <1>4, <1>5, <1>6 DEF Joins
<1> QED BY <1>1, <1>2, <1>7, LateJoin

\* A cleaner passes the join of the daemon before it takes the room from the registry.
LEMMA CleanUpJoin ==
    ASSUME OneGame, IndInv, MeetInv, SeatInv, JoinInv, NEW c \in Client, CleanUp(c)
    PROVE  JoinInv'
<1>1. Steady(c) /\ c \in Thread
  BY Threads, CleanSteady, KillGameSteady, TestSteady, JoinDaemonSteady, StartFailedSteady, EraseRoomSteady
     DEF CleanUp
<1>2. pc[c] \in {"clean", "kill", "join", "joining", "test", "startfail", "conflict", "erase"}
  BY DEF CleanUp, Clean, KillGame, TestJoinable, JoinDaemon, TestWaiting, StartFailed, EraseRoom
<1>3. PICK r \in Room : r = At(c)
  BY <1>1, <1>2, InAction
<1>4. TypeOK /\ frame[c].trap \in {"exit", "oops"}
  BY <1>1 DEF JoinInv, Joined, IndInv, TypeOK, FrameType
<1>5. At(c)' \in {r, None}
  BY <1>1, <1>3 DEF Steady, Calm
<1>6. CASE Clean(c)
  <2>1. UNCHANGED rooms /\ pc'[c] \in {"idle", "join", "kill"} /\ frame'[c].trap \in {frame[c].trap, "exit"}
    BY <1>1, <1>4, <1>6 DEF Clean, Return, NextIteration, Goto, DropLocals, NoFrame, TypeOK
  <2>2. \A q \in Room : game'[q].daemon = game[q].daemon
    <3>1. \/ UNCHANGED game
          \/ game' = [game EXCEPT ![r].attached = FALSE, ![r].killers = @ \cup {c}]
      BY <1>3, <1>6 DEF Clean
    <3>2. game \in [Room -> GameType]
      BY <1>4 DEF TypeOK
    <3>3. CASE game' = [game EXCEPT ![r].attached = FALSE, ![r].killers = @ \cup {c}]
      BY <3>2, <3>3 DEF GameType
    <3> QED BY <3>1, <3>3
  <2>3. \A q \in Room : room'[q].status = room[q].status
    <3>1. PICK k : UNCHANGED room \/ room' = [room EXCEPT ![r].lock = k]
      BY <1>3, <1>6 DEF Clean
    <3>2. CASE UNCHANGED room
      BY <3>2
    <3>3. CASE room' = [room EXCEPT ![r].lock = k]
      BY <1>4, <3>3 DEF TypeOK, RoomType
    <3> QED BY <3>1, <3>2, <3>3
  <2>4. Joins(c)
    BY <1>4, <2>1, <2>2, <2>3 DEF Joins
  <2> QED BY <1>1, <1>2, <2>4, LateJoin
<1>7. CASE KillGame(c)
  <2>1. UNCHANGED <<rooms, room, frame>> /\ pc'[c] \in {"join", "kill"}
    BY <1>1, <1>4, <1>7 DEF KillGame, Goto, TypeOK
  <2>2. \A q \in Room : game[q].daemon \in {"none", "joined"} => game'[q].daemon = game[q].daemon
    <3>1. UNCHANGED game \/ (game[r].daemon \in Color /\ GameOver(r))
      BY <1>3, <1>7 DEF KillGame, CanKill
    <3> QED BY <1>4, <3>1 DEF GameOver, TypeOK, GameType, Color
  <2>3. Joins(c)
    BY <1>4, <2>1, <2>2 DEF Joins
  <2> QED BY <1>1, <1>2, <2>3, LateJoin
<1>8. CASE TestJoinable(c)
  <2>1. /\ UNCHANGED <<rooms, room, game, frame>>
        /\ pc'[c] = "joining" \/ (pc'[c] = "test" /\ game[r].daemon \in {"none", "joined"})
    BY <1>1, <1>3, <1>4, <1>8 DEF TestJoinable, Joinable, Goto, TypeOK
  <2>2. Joins(c)
    BY <1>3, <1>4, <2>1 DEF Joins, At
  <2> QED BY <1>1, <1>2, <2>2, LateJoin
<1>9. CASE JoinDaemon(c)
  <2>1. /\ UNCHANGED rooms
        /\ \A q \in Room : room'[q].status = room[q].status
        /\ \A q \in Room : game[q].daemon \in {"none", "joined"} => game'[q].daemon = game[q].daemon
        /\ \/ pc'[c] = "test" /\ game'[r].daemon = "joined" /\ UNCHANGED frame
           \/ pc'[c] \in {"exit", "oops"} /\ frame'[c].trap \in {frame[c].trap, "exit"}
    <3>1. CASE /\ game[r].daemon \in {"done", "joined"}
               /\ game' = [game EXCEPT ![r].daemon = "joined"]
               /\ Goto(c, "test")
               /\ UNCHANGED <<rooms, room, frame>>
      BY <1>1, <1>4, <3>1 DEF Goto, TypeOK, GameType
    <3>2. CASE /\ Goto(c, frame[c].trap) /\ UNCHANGED <<rooms, game>>
               /\ room' = [room EXCEPT ![r].lock = Released(c)]
               /\ UNCHANGED frame \/ DropLocals(c)
      BY <1>1, <1>4, <3>2 DEF Goto, DropLocals, NoFrame, TypeOK, RoomType
    <3> QED BY <1>3, <1>9, <3>1, <3>2 DEF JoinDaemon
  <2>2. Joins(c)
    BY <1>3, <1>4, <2>1 DEF Joins, At
  <2> QED BY <1>1, <1>2, <2>2, LateJoin
<1>10. CASE TestWaiting(c)
  <2>1. /\ UNCHANGED <<rooms, room, game, frame>>
        /\ game[r].daemon \in {"none", "joined"} /\ pc'[c] # "abort"
    BY <1>1, <1>3, <1>4, <1>10 DEF TestWaiting, Goto, TypeOK, JoinInv, Joined
  <2>2. Joins(c)
    BY <1>3, <1>4, <2>1 DEF Joins, At
  <2> QED BY <1>1, <1>2, <2>2, LateJoin
<1>11. CASE StartFailed(c)
  <2>1. UNCHANGED <<rooms, game>> /\ pc'[c] \in {"idle", "erase"}
    BY <1>1, <1>4, <1>11, NotifyAllEffect DEF StartFailed
  <2>2. \/ pc[c] = "conflict" /\ pc'[c] = "idle" /\ frame'[c] = NoFrame
        \/ pc[c] = "startfail" /\ UNCHANGED frame
    BY <1>1, <1>4, <1>11, NotifyAllEffect DEF StartFailed, DropLocals, TypeOK
  <2>3. pc'[c] = "erase" => game[r].daemon \in {"none", "joined"} /\ At(c)' = r
    BY <1>3, <2>2 DEF JoinInv, Joined, At
  <2>4. \A q \in Room : room'[q].status = "REMOVED" => room[q].status = "REMOVED"
    BY <1>3, <1>4, <1>11 DEF StartFailed, SetStatus, TypeOK, RoomType
  <2>5. Joins(c)
    BY <1>4, <2>1, <2>2, <2>3, <2>4 DEF Joins, NoFrame
  <2> QED BY <1>1, <1>2, <2>5, LateJoin
<1>12. CASE EraseRoom(c)
  <2>1. /\ UNCHANGED game /\ pc'[c] = "idle" /\ frame'[c].trap = "exit"
        /\ game[r].daemon \in {"none", "joined"}
    BY <1>1, <1>3, <1>4, <1>12
       DEF EraseRoom, Return, NextIteration, Goto, DropLocals, NoFrame, TypeOK, JoinInv, Joined
  <2>2. \A q \in Room : room'[q].status = "REMOVED" => room[q].status = "REMOVED" \/ q = r
    BY <1>3, <1>4, <1>12 DEF EraseRoom, TypeOK, RoomType
  <2>3. \A q \in Room : Seated(q) => q = r /\ game[r].daemon = "joined"
    <3> SUFFICES ASSUME NEW q \in Room, Seated(q) PROVE q = r /\ game[r].daemon = "joined"
      OBVIOUS
    <3>1. q = r
      BY <1>3, Threads DEF MeetInv, Waited, AtOrOut
    <3> QED BY <2>1, <3>1 DEF SeatInv, Daemons, Awake
  <2>4. Joins(c)
    BY <2>1, <2>2, <2>3 DEF Joins
  <2> QED BY <1>1, <1>2, <2>4, LateJoin
<1> QED BY <1>6, <1>7, <1>8, <1>9, <1>10, <1>11, <1>12 DEF CleanUp

\* A daemon that takes a step has been started and not been joined.
LEMMA DaemonJoin ==
    ASSUME OneGame, IndInv, MeetInv, SeatInv, JoinInv, NEW r \in Room, Daemon(r)
    PROVE  JoinInv'
<1>1. Steady(None) /\ None \notin Client /\ TypeOK /\ UNCHANGED rooms
  BY DaemonSteady, Threads DEF IndInv, Daemon, CreateAgents, MakeMove, NextListener, OnGameEnded
<1>2. Seated(r) /\ game[r].daemon \notin {"none", "joined"}
  <2>1. game[r].daemon \in {"setup", "over", "listener", "BLACK moved", "WHITE moved"}
    BY DEF Daemon, CreateAgents, MakeMove, NextListener, OnGameEnded, Moved
  <2> QED BY <2>1, HasDaemon
<1>3. \A p \in Client : Past(p)
  BY <1>2 DEF MeetInv, Waited
<1>4. \A q \in Room \ {r} : game'[q] = game[q]
  BY DaemonEffect
<1>5. \A q \in Room : room'[q].status = "REMOVED" => room[q].status = "REMOVED"
  <2>1. UNCHANGED room \/ room' = [room EXCEPT ![r].status = "ENDED"]
    BY DEF Daemon, CreateAgents, MakeMove, NextListener, OnGameEnded
  <2> QED BY <1>1, <2>1 DEF TypeOK, RoomType
<1>6. Joins(None)
  <2>1. \A q \in Room : game[q].daemon \in {"none", "joined"} => game'[q] = game[q]
    BY <1>2, <1>4
  <2>2. \A q \in Room : room'[q].status = "REMOVED" =>
            room[q].status = "REMOVED" \/ game'[q].daemon \in {"none", "joined"}
    BY <1>5
  <2> QED BY <1>1, <2>1, <2>2 DEF Joins
<1> QED BY <1>1, <1>3, <1>6, AllPast, JoinsStep DEF JoinInv

\* A step on the way into a room, or while waiting there.
LEMMA EarlyJoin ==
    ASSUME IndInv, MeetInv, JoinInv, NEW c \in Client, Steady(c), UNCHANGED <<rooms, room, game>>,
           At(c)' \in Room /\ (\E p \in Client : ~Past(p)) =>
               pc[c] # "joined" /\ pc'[c] \in {"second", "pair", "rejected", "wait", "woken"},
           pc'[c] \notin {"test", "startfail", "erase", "abort"}, frame'[c].trap # "abort"
    PROVE  JoinInv'
<1>1. Joins(c)
  BY QuietJoins
<1>2. Meeting'
  <2> SUFFICES ASSUME NEW p \in Client, ~Past(p)', NEW q \in Client, At(q)' \in Room
               PROVE  /\ pc'[q] \in {"joined", "second", "pair", "rejected", "wait", "woken"}
                      /\ At(q)' \in rooms
                      /\ pc'[q] # "joined" => room[At(q)'].status = "WAITING"
    BY DEF Meeting, Past, Fresh
  <2>1. ~Past(p) /\ At(q)' = At(q)
    BY StaysPast, Threads, ConstantsOK DEF Steady
  <2>2. /\ pc[q] \in {"joined", "second", "pair", "rejected", "wait", "woken"}
        /\ At(q) \in rooms
        /\ pc[q] # "joined" => room[At(q)].status = "WAITING"
    BY <2>1 DEF JoinInv, Meeting
  <2>3. CASE q = c
    BY <2>1, <2>2, <2>3
  <2>4. CASE q # c
    BY <2>1, <2>2, <2>4, Threads DEF Steady, Others
  <2> QED BY <2>3, <2>4
<1> QED BY <1>1, <1>2, JoinsStep DEF JoinInv

LEMMA WaitJoin ==
    ASSUME IndInv, MeetInv, JoinInv, NEW c \in Client,
           SpuriousWake(c) \/ Recheck(c) \/ SecondPlayer(c)
    PROVE  JoinInv'
<1>1. Steady(c) /\ c \in Thread /\ TypeOK /\ At(c) \in Room
  BY Threads, InAction, SpuriousWakeSteady, RecheckSteady, SecondPlayerSteady
     DEF SpuriousWake, Recheck, SecondPlayer
<1>2. UNCHANGED <<rooms, room, game>> /\ pc[c] \in {"wait", "woken", "second"}
  BY DEF SpuriousWake, Recheck, SecondPlayer, connVars
<1>3. (\E p \in Client : ~Past(p)) => Status(c) = "WAITING"
  BY <1>1, <1>2 DEF JoinInv, Meeting, Status
<1>4. /\ pc'[c] \in {"woken", "wait", "seat1", "clean", "pair", "idle", "exit"}
      /\ frame'[c].trap \in {frame[c].trap, "exit"}
      /\ Status(c) = "WAITING" => pc'[c] \in {"woken", "wait", "pair"}
  BY <1>1 DEF SpuriousWake, Recheck, SecondPlayer, NextIteration, Exit, Goto, DropLocals, NoFrame, TypeOK
<1> QED BY <1>1, <1>2, <1>3, <1>4, EarlyJoin DEF JoinInv, Joined

\* Both have met when their colours conflict.
LEMMA ColorConflictJoin ==
    ASSUME IndInv, MeetInv, JoinInv, NEW c \in Client, ColorConflict(c)
    PROVE  JoinInv'
<1>1. /\ Steady(c) /\ c \in Thread /\ TypeOK /\ UNCHANGED <<rooms, room, game, sent>>
      /\ pc[c] \in {"pair", "rejected"}
  BY Threads, ColorConflictSteady DEF ColorConflict, Reject, IndInv
<1>2. /\ pc'[c] \in {"rejected", "conflict", "exit"}
      /\ frame'[c].trap \in {frame[c].trap, "exit"}
  BY <1>1 DEF ColorConflict, Reject, Exit, Goto, DropLocals, NoFrame, TypeOK
<1>3. CASE pc'[c] = "rejected"
  BY <1>1, <1>2, <1>3, EarlyJoin DEF JoinInv, Joined
<1>4. CASE pc'[c] # "rejected"
  <2>1. Past(c)'
    BY <1>1, <1>2, <1>4, HasSent DEF Past, Fresh
  <2>2. \A p \in Client \ {c} : Past(p)
    BY <1>1 DEF MeetInv, Waited
  <2>3. Meeting'
    BY <1>1, <2>1, <2>2, StaysPast, Threads DEF Steady, Meeting, Past, Fresh
  <2>4. Joins(c)
    BY <1>1, <1>2, QuietJoins DEF JoinInv, Joined
  <2> QED BY <1>1, <2>3, <2>4, JoinsStep DEF JoinInv
<1> QED BY <1>3, <1>4

LEMMA WaitReadyJoin ==
    ASSUME OneGame, IndInv, MeetInv, SeatInv, JoinInv, NEW c \in Client, WaitReady(c)
    PROVE  JoinInv'
<1>1. TypeOK /\ c \in Thread /\ pc[c] = "idle" /\ frame[c] = NoFrame
  BY Threads DEF WaitReady, IndInv, MeetInv, Newcomers
<1>2. pc'[c] \in {"exit", "joined", "spin"} /\ frame'[c].trap = "exit"
  <2>1. \E l \in {"exit", "joined", "spin"} : pc' = [pc EXCEPT ![c] = l]
    BY DEF WaitReady, Exit, Goto
  <2>2. UNCHANGED frame \/ DropLocals(c) \/ \E r, m : frame' = [frame EXCEPT ![c].at = r, ![c].msg = m]
    BY DEF WaitReady, Exit
  <2>3. frame[c].trap = "exit"
    BY <1>1 DEF NoFrame
  <2> QED BY <1>1, <2>1, <2>2, <2>3 DEF DropLocals, NoFrame, TypeOK, FrameType
<1>3. CASE Steady(c) /\ UNCHANGED <<rooms, room, game, out, open>>
  <2>1. At(c)' \notin Room
    BY <1>1, <1>3, ConstantsOK DEF Steady, Calm, At, NoFrame
  <2> QED BY <1>2, <1>3, <2>1, EarlyJoin
<1>4. ASSUME NEW m \in Input(RoomId), NEW r \in Room, ComesIn(c, m, r) PROVE JoinInv'
  <2>1. ~Past(c) /\ GetOrCreateRoom(c, m, r) /\ At(c)' = r /\ pc'[c] = "joined"
        /\ \A q \in Client \ {c} : pc'[q] = pc[q] /\ frame'[q] = frame[q] /\ At(q)' = At(q)
    BY <1>1, <1>4, Threads DEF ComesIn, Past, Goto, At, TypeOK, FrameType
  <2>2. \A q \in Room : ~Seated(q) /\ game[q] = NewGame("none")
    BY <2>1, NoGameYet
  <2>3. /\ rooms \subseteq rooms' /\ r \in rooms'
        /\ \A q \in Room : q # r => room'[q] = room[q]
        /\ UNCHANGED room \/ ~\E t \in Thread : At(t) = r
        /\ \A q \in Room : ~Seated(q)' /\ game'[q] = NewGame("none")
    <3>1. CASE r \in Registered(m.id) /\ UNCHANGED <<rooms, room, game>>
      BY <2>2, <3>1 DEF Registered, Seated
    <3>2. CASE /\ Unreferenced(r) /\ rooms' = rooms \cup {r}
               /\ room' = [room EXCEPT ![r] = NewRoom(m.id, c, m.color)]
               /\ game' = [game EXCEPT ![r] = NewGame("none")]
      BY <1>1, <2>2, <3>2 DEF Unreferenced, Seated, NewRoom, TypeOK
    <3> QED BY <2>1, <3>1, <3>2 DEF GetOrCreateRoom
  <2>4. Meeting'
    <3> SUFFICES ASSUME NEW q \in Client, At(q)' \in Room
                 PROVE  /\ pc'[q] \in {"joined", "second", "pair", "rejected", "wait", "woken"}
                        /\ At(q)' \in rooms'
                        /\ pc'[q] # "joined" => room'[At(q)'].status = "WAITING"
      BY DEF Meeting
    <3>1. CASE q = c
      BY <2>1, <2>3, <3>1
    <3>2. CASE q # c
      <4>1. /\ pc[q] \in {"joined", "second", "pair", "rejected", "wait", "woken"}
            /\ At(q) \in rooms
            /\ pc[q] # "joined" => room[At(q)].status = "WAITING"
        BY <2>1, <3>2 DEF JoinInv, Meeting
      <4>2. room'[At(q)] = room[At(q)]
        BY <2>1, <2>3, <3>2, Threads
      <4> QED BY <2>1, <2>3, <3>2, <4>1, <4>2
    <3> QED BY <3>1, <3>2
  <2>5. Joined'
    <3> SUFFICES ASSUME NEW p \in Client
                 PROVE  /\ pc'[p] \in {"test", "startfail", "erase"} => game'[At(p)'].daemon \in {"none", "joined"}
                        /\ pc'[p] # "abort" /\ frame'[p].trap # "abort"
      BY <2>3 DEF Joined
    <3>1. CASE p = c
      BY <1>2, <2>1, <3>1
    <3>2. CASE p # c
      <4>1. pc[p] \in {"test", "startfail", "erase"} => At(p) \in Room
        BY Threads, InAction
      <4> QED BY <2>1, <2>3, <3>2, <4>1 DEF JoinInv, Joined, NewGame
    <3> QED BY <3>1, <3>2
  <2>6. RemovedIsJoined'
    BY <2>3 DEF RemovedIsJoined, NewGame
  <2> QED BY <2>4, <2>5, <2>6 DEF JoinInv
<1> QED BY <1>3, <1>4, WaitReadyCases

LEMMA WaitingIfIsFirstJoin ==
    ASSUME OneGame, IndInv, MeetInv, SeatInv, JoinInv, NEW c \in Client, WaitingIfIsFirst(c)
    PROVE  JoinInv'
<1>1. PICK r \in Room : r = At(c)
  BY Threads, InAction DEF WaitingIfIsFirst
<1>2. /\ TypeOK /\ c \in Thread /\ ~Past(c) /\ UNCHANGED <<rooms, game, frame>>
      /\ \A u \in Thread \ {c} : pc'[u] = pc[u]
      /\ pc'[c] \in {"second", "wait"}
  BY Threads DEF WaitingIfIsFirst, Past, Goto, IndInv, TypeOK
<1>3. /\ \A q \in Room \ {r} : room'[q] = room[q]
      /\ room'[r].status = "WAITING" /\ room'[r].second = room[r].second
  <2>1. CASE UNCHANGED room /\ room[r].status = "WAITING"
    BY <2>1
  <2>2. CASE room' = [room EXCEPT ![r].status = "WAITING"]
    BY <1>2, <2>2 DEF TypeOK, RoomType
  <2> QED BY <1>1, <2>1, <2>2 DEF WaitingIfIsFirst, SetStatus, Status
<1>4. \A q \in Room : ~Seated(q) /\ game[q] = NewGame("none")
  BY <1>2, NoGameYet
<1>5. Meeting'
  <2> SUFFICES ASSUME NEW q \in Client, At(q) \in Room
               PROVE  /\ pc'[q] \in {"joined", "second", "pair", "rejected", "wait", "woken"}
                      /\ At(q) \in rooms
                      /\ pc'[q] # "joined" => room'[At(q)].status = "WAITING"
    BY <1>2 DEF Meeting, At
  <2>1. /\ pc[q] \in {"joined", "second", "pair", "rejected", "wait", "woken"}
        /\ At(q) \in rooms
        /\ pc[q] # "joined" => room[At(q)].status = "WAITING"
    BY <1>2 DEF JoinInv, Meeting
  <2>2. CASE q = c
    BY <1>1, <1>2, <1>3, <2>1, <2>2
  <2>3. CASE q # c
    BY <1>2, <1>3, <2>1, <2>3, Threads
  <2> QED BY <2>2, <2>3
<1>6. Joined'
  <2>1. \A q \in Room : ~Seated(q)'
    BY <1>3, <1>4 DEF Seated
  <2>2. \A p \in Client : pc'[p] = pc[p] \/ pc'[p] \in {"second", "wait"}
    BY <1>2, Threads
  <2> QED BY <1>2, <2>1, <2>2 DEF JoinInv, Joined, At
<1>7. RemovedIsJoined'
  BY <1>2, <1>4 DEF RemovedIsJoined, NewGame
<1> QED BY <1>5, <1>6, <1>7 DEF JoinInv

\* The room in which the game is started is registered, and nobody is cleaning it.
LEMMA StartRoomJoin ==
    ASSUME OneGame, IndInv, MeetInv, SeatInv, JoinInv, NEW c \in Client, StartRoom(c)
    PROVE  JoinInv'
<1>1. PICK r \in Room : r = At(c)
  BY Threads, InAction DEF StartRoom
<1>2. /\ TypeOK /\ c \in Thread /\ ~Past(c) /\ pc[c] = "pair" /\ UNCHANGED <<rooms, frame, sent>>
      /\ pc'[c] = "seat2"
      /\ \A u \in Thread \ {c} : pc'[u] = pc[u] \/ (pc[u] = "wait" /\ pc'[u] = "woken")
  BY Threads, NotifyAllEffect DEF StartRoom, Past, IndInv, connVars
<1>3. \A q \in Room : ~Seated(q) /\ game[q] = NewGame("none")
  BY <1>2, NoGameYet
<1>4. /\ \A q \in Room \ {r} : room'[q] = room[q] /\ game'[q] = game[q]
      /\ room'[r].status = "PLAYING"
  <2>1. PICK k : room' = [room EXCEPT ![r].second = c, ![r].color = k, ![r].status = "PLAYING"]
    BY <1>1 DEF StartRoom
  <2>2. PICK d : game' = [game EXCEPT ![r] = NewGame(d)]
    BY <1>1 DEF StartRoom
  <2> QED BY <1>2, <2>1, <2>2 DEF TypeOK, RoomType
<1>5. \A p \in Client : Past(p)'
  <2>1. \A p \in Client \ {c} : Past(p)
    BY <1>2 DEF MeetInv, Waited
  <2>2. sent[c] # 0
    BY <1>2, HasSent
  <2> QED BY <1>2, <2>1, <2>2, Threads DEF Past, Fresh
<1>6. Meeting'
  BY <1>5 DEF Meeting, Past, Fresh
<1>7. Joined'
  <2>1. r \in rooms
    BY <1>1, <1>2 DEF JoinInv, Meeting
  <2>2. \A q \in Room : Seated(q)' => q = r
    BY <1>3, <1>4 DEF Seated
  <2>3. \A p \in Client : /\ pc'[p] \notin {"test", "startfail", "erase"}
                          /\ pc'[p] # "abort" /\ frame[p].trap # "abort"
    <3> SUFFICES ASSUME NEW p \in Client
                 PROVE  pc[p] \notin {"test", "startfail", "erase", "abort"} /\ frame[p].trap # "abort"
      BY <1>2, Threads
    <3>1. pc[p] \in {"test", "startfail", "erase"} => At(p) \in Room
      BY Threads, InAction
    <3> QED BY <1>2, <3>1 DEF JoinInv, Joined, Meeting
  <2> QED BY <1>2, <2>1, <2>2, <2>3 DEF Joined
<1>8. RemovedIsJoined'
  BY <1>3, <1>4 DEF RemovedIsJoined, NewGame
<1> QED BY <1>6, <1>7, <1>8 DEF JoinInv


\* With no Admin every step keeps the room of the game registered until its daemon is joined.
LEMMA NextJoin ==
    ASSUME OneGame, Admin = {}, IndInv, MeetInv, SeatInv, JoinInv, [Next]_vars
    PROVE  JoinInv'
<1>1. ASSUME NEW c \in Client, Disconnect(c) \/ UNCHANGED vars PROVE JoinInv'
  <2>1. UNCHANGED <<rooms, room, game, pc, frame, remained, sent>>
    BY <1>1 DEF Disconnect, vars, connVars
  <2> QED BY <2>1 DEF JoinInv, Meeting, Joined, RemovedIsJoined, Past, Fresh, Seated, At
<1>2. CASE \E c \in Client : SpuriousWake(c) \/ Handler(c)
  BY <1>2, WaitJoin, WaitReadyJoin, WaitingIfIsFirstJoin, ColorConflictJoin, StartRoomJoin, PlayJoin, QuietHandlerJoin
     DEF Handler
<1>3. CASE \E t \in Thread : CleanUp(t)
  BY <1>3, CleanUpJoin, NoAdmins
<1>4. CASE \E r \in Room : Daemon(r)
  BY <1>4, DaemonJoin
<1> QED BY <1>1, <1>2, <1>3, <1>4, TwoClients DEF Next

LEMMA InitJoin == Init => JoinInv
<1> SUFFICES ASSUME Init PROVE JoinInv
  OBVIOUS
<1>1. /\ \A r \in Room : room[r] = NewRoom(None, None, "NONE")
      /\ \A p \in Client : pc[p] = "idle" /\ frame[p] = NoFrame
  BY Threads DEF Init
<1> QED BY <1>1, ConstantsOK
        DEF JoinInv, Meeting, Joined, RemovedIsJoined, NewRoom, NoFrame, Seated, At

\* While the process runs and nobody calls ShutdownService, the room of a game is in the
\* registry until the thread of its daemon is joined.
THEOREM JoinInductive == ASSUME OneGame, Admin = {} PROVE Spec => []JoinInv
<1>1. IndInv /\ GameInv /\ JoinInv /\ [Next]_vars => JoinInv'
  BY NextJoin DEF GameInv
<1> QED BY <1>1, InitJoin, Inductive, GameInductive, PTL DEF Spec

\* A room is REMOVED only when the daemon of its game has been joined, whoever cleaned
\* it and whatever the other player was doing.
THEOREM RemovedAreJoined == ASSUME OneGame, Admin = {} PROVE Spec => []RemovedIsJoined
<1>1. JoinInv => RemovedIsJoined
  BY DEF JoinInv
<1> QED BY <1>1, JoinInductive, PTL

\* Two clients cannot bring the process down by playing a game: no thread of a daemon is
\* replaced, or dropped with the last reference to its room, before it is joined.
THEOREM NeverTerminates == ASSUME OneGame, Admin = {} PROVE Spec => []NoTerminate
<1>1. ASSUME IndInv, GameInv, JoinInv PROVE NoTerminate
  <2>1. ASSUME NEW r \in Room
        PROVE  /\ game[r].daemon # "lost"
               /\ Unreferenced(r) => game[r].daemon \in {"none", "joined"}
    <3>1. CASE Seated(r)
      BY <1>1, <3>1 DEF GameInv, SeatInv, Daemons, Awake, JoinInv, Joined, Unreferenced
    <3>2. CASE ~Seated(r)
      BY <1>1, <3>2 DEF GameInv, SeatInv, Daemons, NewGame
    <3> QED BY <3>1, <3>2
  <2>2. \A t \in Thread : pc[t] # "abort"
    BY <1>1, NoAdmins DEF JoinInv, Joined
  <2> QED BY <2>1, <2>2 DEF NoTerminate, Terminated
<1> QED BY <1>1, Inductive, GameInductive, JoinInductive, PTL
=============================================================================
