------------------------- MODULE RoomServiceProofs -------------------------
(***************************************************************************)
(* Proofs about RoomService, for any sets of clients, threads and rooms and *)
(* any traffic: IndInv is inductive, and with it the type invariant, the    *)
(* invariants of the registry and those of Room::mutex hold.                *)
(***************************************************************************)
EXTENDS RoomServiceTypes

-----------------------------------------------------------------------------
(* What a step of one thread has to respect.                                 *)

\* All threads but t stay where they are, except that waiting ones may be woken.
\* (t is None in a step of a daemon.)
Others(t) ==
    \A u \in Thread \ {t} :
        frame'[u] = frame[u] /\ (pc'[u] = pc[u] \/ (pc[u] = "wait" /\ pc'[u] = "woken"))

\* Where t itself arrives.
Arrives(t) ==
    t \in Thread =>
        /\ pc'[t] \notin {"idle", "spin", "exit", "pick", "abort"} => At(t)' \in Room
        /\ pc'[t] \in {"seat1", "seat2"} => room'[At(t)'].color \in Color
        /\ pc'[t] \in {"check", "ready"} => frame'[t].color \in Color
        /\ \A q \in Room : room'[q].lock = t => /\ At(t)' = q
                                                /\ pc'[t] \in Cleaning
                                                /\ room'[q].status \in {"CLOSED", "REMOVED"}

\* What happens to a room: t leaves the lock of the others alone, and a room that
\* another thread has locked may only be closed or removed.
Respects(t) ==
    \A q \in Room :
        /\ room'[q].lock \in {room[q].lock, None, t}
        /\ room'[q].lock \notin {None, t} =>
                room'[q].status \in {room[q].status, "CLOSED", "REMOVED"}
        /\ room'[q].status \in {"PLAYING", "ENDED"} => room'[q].color \in Color
        /\ room[q].color \in Color => room'[q].color \in Color \/ Unreferenced(q)

LEMMA StepInv ==
    ASSUME IndInv, TypeOK', UniqueIds', RemovedUnregistered',
           NEW t, Others(t), Arrives(t), Respects(t)
    PROVE  IndInv'
<1>1. LockDiscipline'
  <2> SUFFICES ASSUME NEW q \in Room, NEW u \in Thread, room'[q].lock = u
               PROVE  At(u)' = q /\ pc'[u] \in Cleaning /\ room'[q].status \in {"CLOSED", "REMOVED"}
    BY DEF LockDiscipline
  <2>1. CASE u = t
    BY <2>1 DEF Arrives
  <2>2. CASE u # t
    <3>1. room[q].lock = u /\ room'[q].status \in {room[q].status, "CLOSED", "REMOVED"}
      BY <2>2, Threads DEF Respects
    <3>2. At(u) = q /\ pc[u] \in Cleaning /\ room[q].status \in {"CLOSED", "REMOVED"}
      BY <3>1 DEF IndInv, LockDiscipline
    <3> QED BY <2>2, <3>1, <3>2 DEF Others, At, Cleaning
  <2> QED BY <2>1, <2>2
<1>2. InRoom'
  <2> SUFFICES ASSUME NEW u \in Thread, pc'[u] \notin {"idle", "spin", "exit", "pick", "abort"}
               PROVE  At(u)' \in Room
    BY DEF InRoom
  <2>1. CASE u = t
    BY <2>1 DEF Arrives
  <2>2. CASE u # t
    BY <2>2 DEF Others, At, IndInv, InRoom
  <2> QED BY <2>1, <2>2
<1>3. Colored'
  <2>1. \A q \in Room : room'[q].status \in {"PLAYING", "ENDED"} => room'[q].color \in Color
    BY DEF Respects
  <2>2. ASSUME NEW u \in Thread, pc'[u] \in {"seat1", "seat2"}
        PROVE  room'[At(u)'].color \in Color
    <3>1. CASE u = t
      BY <2>2, <3>1 DEF Arrives
    <3>2. CASE u # t
      <4>1. pc[u] \in {"seat1", "seat2"} /\ At(u)' = At(u)
        BY <2>2, <3>2 DEF Others, At
      <4>2. At(u) \in Room /\ room[At(u)].color \in Color
        BY <4>1 DEF IndInv, InRoom, Colored
      <4>3. ~Unreferenced(At(u))
        BY DEF Unreferenced
      <4> QED BY <4>1, <4>2, <4>3 DEF Respects
    <3> QED BY <3>1, <3>2
  <2>3. ASSUME NEW u \in Thread, pc'[u] \in {"check", "ready"}
        PROVE  frame'[u].color \in Color
    <3>1. CASE u = t
      BY <2>3, <3>1 DEF Arrives
    <3>2. CASE u # t
      BY <2>3, <3>2 DEF Others, IndInv, Colored
    <3> QED BY <3>1, <3>2
  <2> QED BY <2>1, <2>2, <2>3 DEF Colored
<1> QED BY <1>1, <1>2, <1>3 DEF IndInv

\* A step that leaves the vector alone keeps the registry in order, if it creates
\* no room and removes none.
LEMMA RegistryKept ==
    ASSUME IndInv, UNCHANGED rooms,
           \A q \in Room : room'[q].id = room[q].id,
           \A q \in Room : room'[q].status = "REMOVED" => room[q].status = "REMOVED"
    PROVE  UniqueIds' /\ RemovedUnregistered'
<1>1. rooms \subseteq Room /\ UniqueIds /\ RemovedUnregistered
  BY DEF IndInv, TypeOK
<1>2. UniqueIds'
  BY <1>1 DEF UniqueIds
<1>3. RemovedUnregistered'
  BY <1>1 DEF RemovedUnregistered
<1> QED BY <1>2, <1>3

\* A step that changes no room.
LEMMA QuietStepInv ==
    ASSUME IndInv, TypeOK', UNCHANGED <<rooms, room>>, NEW t, Others(t), Arrives(t)
    PROVE  IndInv'
<1>1. UniqueIds' /\ RemovedUnregistered'
  BY RegistryKept
<1>2. Respects(t)
  BY DEF Respects, IndInv, Colored
<1> QED BY <1>1, <1>2, StepInv

-----------------------------------------------------------------------------
(* The actions that change no room, by the way in which their thread moves.  *)

\* Only the threads that are cleaning a room can hold its lock.
LEMMA NotHolding ==
    ASSUME IndInv, NEW t \in Thread, pc[t] \notin Cleaning
    PROVE  \A q \in Room : room[q].lock # t
BY DEF IndInv, LockDiscipline

\* No thread moves: a daemon's step, or none.
LEMMA StillInv ==
    ASSUME IndInv, TypeOK', UNCHANGED <<rooms, room, pc, frame>>
    PROVE  IndInv'
<1>1. Others(None) /\ Arrives(None)
  BY Threads DEF Others, Arrives
<1> QED BY <1>1, QuietStepInv

\* t goes on at l in the same room, with the same locals.
LEMMA GotoInv ==
    ASSUME IndInv, TypeOK', UNCHANGED <<rooms, room, frame>>,
           NEW t \in Thread, NEW l, Goto(t, l),
           At(t) \in Room \/ l \in {"idle", "spin", "exit", "pick", "abort"},
           l \in {"seat1", "seat2"} => room[At(t)].color \in Color,
           l \in {"check", "ready"} => frame[t].color \in Color,
           l \in Cleaning \/ \A q \in Room : room[q].lock # t
    PROVE  IndInv'
<1>1. pc'[t] = l /\ \A u \in Thread \ {t} : pc'[u] = pc[u]
  BY DEF Goto, IndInv, TypeOK
<1>2. Others(t)
  BY <1>1 DEF Others
<1>3. At(t)' = At(t)
  BY DEF At
<1>4. \A q \in Room : room[q].lock = t => At(t) = q /\ room[q].status \in {"CLOSED", "REMOVED"}
  BY DEF IndInv, LockDiscipline
<1>5. Arrives(t)
  BY <1>1, <1>3, <1>4 DEF Arrives
<1> QED BY <1>2, <1>5, QuietStepInv

\* What leaving a room does to the threads.
LEMMA LeaveEffect ==
    ASSUME TypeOK, NEW t \in Thread, NextIteration(t) \/ Exit(t)
    PROVE  Others(t) /\ pc'[t] \in {"idle", "exit"}
<1>1. \E l \in {"idle", "exit"} : pc' = [pc EXCEPT ![t] = l]
  BY DEF NextIteration, Exit, Goto
<1>2. frame' = [frame EXCEPT ![t] = NoFrame]
  BY DEF NextIteration, Exit, DropLocals
<1>3. pc \in [Thread -> Label] /\ frame \in [Thread -> FrameType]
  BY DEF TypeOK
<1> QED BY <1>1, <1>2, <1>3 DEF Others

LEMMA LeaveInv ==
    ASSUME IndInv, TypeOK', UNCHANGED <<rooms, room>>,
           NEW t \in Thread, NextIteration(t) \/ Exit(t), pc[t] \notin Cleaning
    PROVE  IndInv'
<1>1. Others(t) /\ pc'[t] \in {"idle", "exit"}
  BY LeaveEffect DEF IndInv
<1>2. \A q \in Room : room[q].lock # t
  BY NotHolding
<1>3. Arrives(t)
  BY <1>1, <1>2 DEF Arrives
<1> QED BY <1>1, <1>3, QuietStepInv

\* The facts that the proofs about an action of t begin with.
LEMMA InAction ==
    ASSUME IndInv, NEW t \in Thread
    PROVE  /\ TypeOK /\ InRoom /\ Colored
           /\ pc[t] \notin {"idle", "spin", "exit", "pick", "abort"} => At(t) \in Room
           /\ pc[t] \notin Cleaning => \A q \in Room : room[q].lock # t
           /\ pc[t] \in {"seat1", "seat2"} => room[At(t)].color \in Color
           /\ pc[t] \in {"check", "ready"} => frame[t].color \in Color
BY NotHolding DEF IndInv, InRoom, Colored

LEMMA DisconnectInv ==
    ASSUME IndInv, NEW c \in Client, Disconnect(c) PROVE IndInv'
BY DisconnectType, StillInv DEF Disconnect, IndInv

LEMMA SpuriousWakeInv ==
    ASSUME IndInv, NEW c \in Client, SpuriousWake(c) PROVE IndInv'
BY Threads, SpuriousWakeType, InAction, GotoInv DEF SpuriousWake, IndInv, Cleaning

LEMMA RecheckInv ==
    ASSUME IndInv, NEW c \in Client, Recheck(c) PROVE IndInv'
<1>1. At(c) \in Room /\ \A q \in Room : room[q].lock # c
  BY Threads, InAction DEF Recheck, Cleaning
<1>2. PICK l \in {"wait", "seat1", "clean"} :
        Goto(c, l) /\ (l = "seat1" => Status(c) = "PLAYING")
  BY DEF Recheck
<1>3. l = "seat1" => room[At(c)].color \in Color
  BY <1>1, <1>2 DEF Status, IndInv, Colored
<1>4. TypeOK' /\ UNCHANGED <<rooms, room, frame>>
  BY RecheckType DEF Recheck, IndInv
<1> QED BY Threads, <1>1, <1>2, <1>3, <1>4, GotoInv

LEMMA SecondPlayerInv ==
    ASSUME IndInv, NEW c \in Client, SecondPlayer(c) PROVE IndInv'
<1>1. /\ At(c) \in Room /\ \A q \in Room : room[q].lock # c
      /\ pc[c] \notin Cleaning /\ c \in Thread
  BY Threads, InAction DEF SecondPlayer, Cleaning
<1>2. TypeOK' /\ UNCHANGED <<rooms, room>>
  BY SecondPlayerType DEF SecondPlayer, IndInv
<1>3. CASE Goto(c, "pair") /\ UNCHANGED frame
  BY <1>1, <1>2, <1>3, GotoInv
<1>4. CASE NextIteration(c) \/ Exit(c)
  BY <1>1, <1>2, <1>4, LeaveInv
<1> QED BY <1>3, <1>4 DEF SecondPlayer

LEMMA ColorConflictInv ==
    ASSUME IndInv, NEW c \in Client, ColorConflict(c) PROVE IndInv'
<1>1. /\ At(c) \in Room /\ \A q \in Room : room[q].lock # c
      /\ pc[c] \notin Cleaning /\ c \in Thread
  BY Threads, InAction DEF ColorConflict, Cleaning
<1>2. TypeOK' /\ UNCHANGED <<rooms, room>>
  BY ColorConflictType DEF ColorConflict, Reject, IndInv
<1>3. CASE (Goto(c, "rejected") \/ Goto(c, "conflict")) /\ UNCHANGED frame
  BY <1>1, <1>2, <1>3, GotoInv
<1>4. CASE Exit(c)
  BY <1>1, <1>2, <1>4, LeaveInv
<1> QED BY <1>3, <1>4 DEF ColorConflict, Reject

LEMMA TakeSeatInv ==
    ASSUME IndInv, NEW c \in Client, TakeSeat(c) PROVE IndInv'
<1>1. /\ At(c) \in Room /\ \A q \in Room : room[q].lock # c
      /\ c \in Thread /\ room[At(c)].color \in Color
  BY Threads, InAction DEF TakeSeat, Cleaning
<1>2. TypeOK' /\ UNCHANGED <<rooms, room>> /\ Goto(c, "check")
  BY TakeSeatType DEF TakeSeat, IndInv
<1>3. PICK k, p : frame' = [frame EXCEPT ![c].color = k, ![c].peer = p] /\ k \in Color
  BY <1>1, ReverseType DEF TakeSeat
<1>4. pc \in [Thread -> Label] /\ frame \in [Thread -> FrameType]
  BY DEF IndInv, TypeOK
<1>5. /\ frame'[c].at = frame[c].at /\ frame'[c].color = k
      /\ \A u \in Thread \ {c} : frame'[u] = frame[u]
  BY <1>1, <1>3, <1>4 DEF FrameType
<1>6. pc'[c] = "check" /\ \A u \in Thread \ {c} : pc'[u] = pc[u]
  BY <1>1, <1>2, <1>4 DEF Goto
<1>7. Others(c)
  BY <1>5, <1>6 DEF Others
<1>8. Arrives(c)
  BY <1>1, <1>2, <1>3, <1>5, <1>6 DEF Arrives, At
<1> QED BY <1>2, <1>7, <1>8, QuietStepInv

LEMMA SendReadyInv ==
    ASSUME IndInv, NEW c \in Client, SendReady(c) PROVE IndInv'
<1>1. /\ At(c) \in Room /\ \A q \in Room : room[q].lock # c
      /\ pc[c] \notin Cleaning /\ c \in Thread
  BY Threads, InAction DEF SendReady, Cleaning
<1>2. TypeOK' /\ UNCHANGED <<rooms, room>>
  BY SendReadyType DEF SendReady, IndInv
<1>3. CASE Goto(c, "listen") /\ UNCHANGED frame
  BY <1>1, <1>2, <1>3, GotoInv
<1>4. CASE Exit(c)
  BY <1>1, <1>2, <1>4, LeaveInv
<1> QED BY <1>3, <1>4 DEF SendReady

LEMMA CommitMoveInv ==
    ASSUME IndInv, NEW c \in Client, CommitMove(c) PROVE IndInv'
<1>1. At(c) \in Room /\ (\A q \in Room : room[q].lock # c) /\ c \in Thread
  BY Threads, InAction DEF CommitMove, Cleaning
<1>2. TypeOK' /\ UNCHANGED <<rooms, room, frame>>
  BY CommitMoveType DEF CommitMove, IndInv
<1>3. Goto(c, "listen") \/ Goto(c, "oops")
  BY DEF CommitMove
<1> QED BY <1>1, <1>2, <1>3, GotoInv

LEMMA ChatInv ==
    ASSUME IndInv, NEW c \in Client, Chat(c) PROVE IndInv'
<1>1. At(c) \in Room /\ (\A q \in Room : room[q].lock # c) /\ c \in Thread
  BY Threads, InAction DEF Chat, Cleaning
<1>2. TypeOK' /\ UNCHANGED <<rooms, room, frame>>
  BY ChatType DEF Chat, IndInv
<1>3. Goto(c, "listen") \/ Goto(c, "oops")
  BY DEF Chat
<1> QED BY <1>1, <1>2, <1>3, GotoInv

LEMMA ResignInv ==
    ASSUME IndInv, NEW c \in Client, Resign(c) PROVE IndInv'
<1>1. At(c) \in Room /\ (\A q \in Room : room[q].lock # c) /\ c \in Thread
  BY Threads, InAction DEF Resign, Cleaning
<1>2. TypeOK' /\ UNCHANGED <<rooms, room, frame>>
  BY ResignType DEF Resign, IndInv
<1>3. Goto(c, "closing") \/ Goto(c, "oops")
  BY DEF Resign
<1> QED BY <1>1, <1>2, <1>3, GotoInv

LEMMA KillGameInv ==
    ASSUME IndInv, NEW t \in Thread, KillGame(t) PROVE IndInv'
<1>1. At(t) \in Room
  BY InAction DEF KillGame
<1>2. TypeOK' /\ UNCHANGED <<rooms, room, frame>>
  BY KillGameType DEF KillGame, IndInv
<1>3. CASE UNCHANGED pc
  BY <1>2, <1>3, StillInv
<1>4. CASE Goto(t, "join")
  BY <1>1, <1>2, <1>4, GotoInv DEF Cleaning
<1> QED BY <1>3, <1>4 DEF KillGame

LEMMA TestJoinableInv ==
    ASSUME IndInv, NEW t \in Thread, TestJoinable(t) PROVE IndInv'
<1>1. At(t) \in Room
  BY InAction DEF TestJoinable
<1>2. TypeOK' /\ UNCHANGED <<rooms, room, frame>>
  BY TestJoinableType DEF TestJoinable, IndInv
<1>3. Goto(t, "joining") \/ Goto(t, "test")
  BY DEF TestJoinable
<1> QED BY <1>1, <1>2, <1>3, GotoInv DEF Cleaning

LEMMA TestWaitingInv ==
    ASSUME IndInv, NEW t \in Thread, TestWaiting(t) PROVE IndInv'
<1>1. At(t) \in Room
  BY InAction DEF TestWaiting
<1>2. TypeOK' /\ UNCHANGED <<rooms, room, frame>>
  BY TestWaitingType DEF TestWaiting, IndInv
<1>3. CASE Status(t) = "WAITING" /\ Goto(t, "startfail")
  <2>1. \A q \in Room : room[q].lock # t
    BY <1>3 DEF Status, IndInv, LockDiscipline
  <2> QED BY <1>1, <1>2, <1>3, <2>1, GotoInv
<1>4. CASE Goto(t, "erase")
  BY <1>1, <1>2, <1>4, GotoInv DEF Cleaning
<1> QED BY <1>3, <1>4 DEF TestWaiting, StillWaiting

LEMMA ShutdownServiceInv ==
    ASSUME IndInv, NEW t \in Admin, ShutdownService(t) PROVE IndInv'
<1>1. (\A q \in Room : room[q].lock # t) /\ t \in Thread
  BY Threads, InAction DEF ShutdownService, Cleaning
<1>2. TypeOK' /\ UNCHANGED <<rooms, room, frame>>
  BY ShutdownServiceType DEF ShutdownService, IndInv
<1>3. Goto(t, "exit") \/ Goto(t, "pick")
  BY DEF ShutdownService
<1> QED BY <1>1, <1>2, <1>3, GotoInv

LEMMA PickRoomInv ==
    ASSUME IndInv, NEW t \in Admin, PickRoom(t) PROVE IndInv'
<1>1. (\A q \in Room : room[q].lock # t) /\ t \in Thread
  BY Threads, InAction DEF PickRoom, Cleaning
<1>2. TypeOK' /\ UNCHANGED <<rooms, room>>
  BY PickRoomType DEF PickRoom, IndInv
<1>3. CASE Goto(t, "abort") /\ UNCHANGED frame
  BY <1>1, <1>2, <1>3, GotoInv
<1>4. CASE Goto(t, "clean") /\ \E r \in rooms : frame' = [frame EXCEPT ![t].at = r, ![t].trap = "abort"]
  <2>1. pc \in [Thread -> Label] /\ frame \in [Thread -> FrameType] /\ rooms \subseteq Room
    BY DEF IndInv, TypeOK
  <2>2. frame'[t].at \in Room /\ \A u \in Thread \ {t} : frame'[u] = frame[u]
    BY <1>1, <1>4, <2>1 DEF FrameType
  <2>3. pc'[t] = "clean" /\ \A u \in Thread \ {t} : pc'[u] = pc[u]
    BY <1>1, <1>4, <2>1 DEF Goto
  <2>4. Others(t)
    BY <2>2, <2>3 DEF Others
  <2>5. Arrives(t)
    BY <1>1, <1>2, <2>2, <2>3 DEF Arrives, At
  <2> QED BY <1>2, <2>4, <2>5, QuietStepInv
<1> QED BY <1>3, <1>4 DEF PickRoom

LEMMA CreateAgentsInv ==
    ASSUME IndInv, NEW r \in Room, CreateAgents(r) PROVE IndInv'
BY CreateAgentsType, StillInv DEF CreateAgents, IndInv

LEMMA MakeMoveInv ==
    ASSUME IndInv, NEW r \in Room, MakeMove(r) PROVE IndInv'
BY MakeMoveType, StillInv DEF MakeMove, IndInv

LEMMA NextListenerInv ==
    ASSUME IndInv, NEW r \in Room, NextListener(r) PROVE IndInv'
BY NextListenerType, StillInv DEF NextListener, IndInv

-----------------------------------------------------------------------------
(* The actions that change the room they are in, or release its lock.        *)

\* What each update does to a room and leaves alone.
LEMMA RoomUpdate ==
    ASSUME TypeOK, NEW r \in Room
    PROVE  /\ \A s : room' = [room EXCEPT ![r].status = s] =>
                /\ \A q \in Room \ {r} : room'[q] = room[q]
                /\ room'[r].id = room[r].id /\ room'[r].color = room[r].color
                /\ room'[r].lock = room[r].lock /\ room'[r].status = s
           /\ \A x : room' = [room EXCEPT ![r].lock = x] =>
                /\ \A q \in Room \ {r} : room'[q] = room[q]
                /\ room'[r].id = room[r].id /\ room'[r].color = room[r].color
                /\ room'[r].lock = x /\ room'[r].status = room[r].status
           /\ \A s, x : room' = [room EXCEPT ![r].status = s, ![r].lock = x] =>
                /\ \A q \in Room \ {r} : room'[q] = room[q]
                /\ room'[r].id = room[r].id /\ room'[r].color = room[r].color
                /\ room'[r].lock = x /\ room'[r].status = s
<1> room \in [Room -> RoomType]
  BY DEF TypeOK
<1> QED BY DEF RoomType

\* A room may change its status and its lock as Respects says; nothing is
\* REMOVED here, so the registry stays in order.
LEMMA RoomStepInv ==
    ASSUME IndInv, TypeOK', UNCHANGED rooms, NEW r \in Room, NEW t, Others(t), Arrives(t),
           \A q \in Room \ {r} : room'[q] = room[q],
           room'[r].id = room[r].id,
           room'[r].status = "REMOVED" => room[r].status = "REMOVED",
           room'[r].lock \in {room[r].lock, None, t},
           room'[r].lock \notin {None, t} =>
                room'[r].status \in {room[r].status, "CLOSED", "REMOVED"},
           room'[r].status \in {"PLAYING", "ENDED"} \/ room[r].color \in Color
                => room'[r].color \in Color
    PROVE  IndInv'
<1>1. UniqueIds' /\ RemovedUnregistered'
  <2>1. \A q \in Room : /\ room'[q].id = room[q].id
                         /\ room'[q].status = "REMOVED" => room[q].status = "REMOVED"
    OBVIOUS
  <2> QED BY <2>1, RegistryKept
<1>2. Respects(t)
  <2>1. \A q \in Room : room[q].status \in {"PLAYING", "ENDED"} => room[q].color \in Color
    BY DEF IndInv, Colored
  <2>2. SUFFICES ASSUME NEW q \in Room
        PROVE  /\ room'[q].lock \in {room[q].lock, None, t}
               /\ room'[q].lock \notin {None, t} =>
                       room'[q].status \in {room[q].status, "CLOSED", "REMOVED"}
               /\ room'[q].status \in {"PLAYING", "ENDED"} => room'[q].color \in Color
               /\ room[q].color \in Color => room'[q].color \in Color \/ Unreferenced(q)
    BY DEF Respects
  <2>3. CASE q = r
    BY <2>3
  <2>4. CASE q # r
    BY <2>1, <2>4
  <2> QED BY <2>3, <2>4
<1> QED BY <1>1, <1>2, StepInv

LEMMA NotifyAllEffect ==
    ASSUME TypeOK, NEW t \in Thread, NEW l, NotifyAll(t, l)
    PROVE  /\ pc'[t] = l
           /\ \A u \in Thread \ {t} : pc'[u] = pc[u] \/ (pc[u] = "wait" /\ pc'[u] = "woken")
BY DEF NotifyAll

LEMMA GotoEffect ==
    ASSUME TypeOK, NEW t \in Thread, NEW l, Goto(t, l)
    PROVE  pc'[t] = l /\ \A u \in Thread \ {t} : pc'[u] = pc[u]
BY DEF Goto, TypeOK

LEMMA WaitingIfIsFirstInv ==
    ASSUME IndInv, NEW c \in Client, WaitingIfIsFirst(c) PROVE IndInv'
<1>1. /\ At(c) \in Room /\ (\A q \in Room : room[q].lock # c) /\ c \in Thread
      /\ room[At(c)].lock = None /\ TypeOK
  BY Threads, InAction DEF WaitingIfIsFirst, Free, Cleaning
<1>2. TypeOK' /\ UNCHANGED <<rooms, frame>> /\ At(c)' = At(c)
  BY WaitingIfIsFirstType DEF WaitingIfIsFirst, IndInv, At
<1>3. CASE Goto(c, "second") /\ UNCHANGED room
  BY <1>1, <1>2, <1>3, GotoInv
<1>4. CASE Goto(c, "wait") /\ SetStatus(c, "WAITING")
  <2>1. /\ \A q \in Room \ {At(c)} : room'[q] = room[q]
        /\ room'[At(c)].id = room[At(c)].id /\ room'[At(c)].color = room[At(c)].color
        /\ room'[At(c)].lock = None /\ room'[At(c)].status = "WAITING"
    BY <1>1, <1>4, RoomUpdate DEF SetStatus
  <2>2. pc'[c] = "wait" /\ \A u \in Thread \ {c} : pc'[u] = pc[u]
    BY <1>1, <1>4, GotoEffect
  <2>3. Others(c)
    BY <1>2, <2>2 DEF Others
  <2>4. Arrives(c)
    BY <1>1, <1>2, <2>1, <2>2, Threads DEF Arrives
  <2> QED BY <1>1, <1>2, <2>1, <2>3, <2>4, RoomStepInv
<1> QED BY <1>3, <1>4 DEF WaitingIfIsFirst

LEMMA StartFailedInv ==
    ASSUME IndInv, NEW t \in Thread, StartFailed(t) PROVE IndInv'
<1>1. /\ At(t) \in Room /\ (\A q \in Room : room[q].lock # t)
      /\ room[At(t)].lock = None /\ TypeOK
  BY Threads, InAction DEF StartFailed, Free, Cleaning
<1>2. TypeOK' /\ UNCHANGED rooms
  BY StartFailedType DEF StartFailed, IndInv
<1>3. /\ \A q \in Room \ {At(t)} : room'[q] = room[q]
      /\ room'[At(t)].id = room[At(t)].id /\ room'[At(t)].color = room[At(t)].color
      /\ room'[At(t)].lock = None /\ room'[At(t)].status = "EMPTY"
  BY <1>1, RoomUpdate DEF StartFailed, SetStatus
<1>4. CASE NotifyAll(t, "idle") /\ DropLocals(t)
  <2>1. /\ pc'[t] = "idle"
        /\ \A u \in Thread \ {t} : pc'[u] = pc[u] \/ (pc[u] = "wait" /\ pc'[u] = "woken")
    BY <1>1, <1>4, NotifyAllEffect
  <2>2. \A u \in Thread \ {t} : frame'[u] = frame[u]
    BY <1>1, <1>4 DEF DropLocals, TypeOK
  <2>3. Others(t)
    BY <2>1, <2>2 DEF Others
  <2>4. Arrives(t)
    BY <1>1, <1>3, <2>1, Threads DEF Arrives
  <2> QED BY <1>1, <1>2, <1>3, <2>3, <2>4, RoomStepInv
<1>5. CASE NotifyAll(t, "erase") /\ UNCHANGED frame
  <2>1. /\ pc'[t] = "erase"
        /\ \A u \in Thread \ {t} : pc'[u] = pc[u] \/ (pc[u] = "wait" /\ pc'[u] = "woken")
    BY <1>1, <1>5, NotifyAllEffect
  <2>2. At(t)' = At(t) /\ Others(t)
    BY <1>5, <2>1 DEF Others, At
  <2>3. Arrives(t)
    BY <1>1, <1>3, <2>1, <2>2, Threads DEF Arrives
  <2> QED BY <1>1, <1>2, <1>3, <2>2, <2>3, RoomStepInv
<1> QED BY <1>4, <1>5 DEF StartFailed

LEMMA StartRoomInv ==
    ASSUME IndInv, NEW c \in Client, StartRoom(c) PROVE IndInv'
<1> DEFINE r == At(c)
<1>1. /\ r \in Room /\ (\A q \in Room : room[q].lock # c) /\ c \in Thread
      /\ room[r].lock = None /\ TypeOK
  BY Threads, InAction DEF StartRoom, Free, Cleaning
<1>2. TypeOK' /\ UNCHANGED <<rooms, frame>> /\ At(c)' = r
  BY StartRoomType DEF StartRoom, IndInv, At
<1>3. PICK k \in Color :
        room' = [room EXCEPT ![r].second = c, ![r].color = k, ![r].status = "PLAYING"]
  BY DEF StartRoom, Resolved, ResolveColor
<1>4. /\ \A q \in Room \ {r} : room'[q] = room[q]
      /\ room'[r].id = room[r].id /\ room'[r].color = k
      /\ room'[r].lock = None /\ room'[r].status = "PLAYING"
  <2>1. room \in [Room -> RoomType]
    BY DEF IndInv, TypeOK
  <2> HIDE DEF r
  <2> QED BY <1>1, <1>3, <2>1 DEF RoomType
<1>5. /\ pc'[c] = "seat2"
      /\ \A u \in Thread \ {c} : pc'[u] = pc[u] \/ (pc[u] = "wait" /\ pc'[u] = "woken")
  BY <1>1, NotifyAllEffect DEF StartRoom
<1>6. Others(c)
  BY <1>2, <1>5 DEF Others
<1>7. Arrives(c)
  BY <1>1, <1>2, <1>4, <1>5, Threads DEF Arrives
<1> HIDE DEF r
<1> QED BY <1>1, <1>2, <1>4, <1>6, <1>7, RoomStepInv

\* A handler thread that takes the lock to clean its room.
LEMMA CleanEndedInv ==
    ASSUME IndInv, TypeOK', UNCHANGED rooms, NEW c \in Thread,
           At(c) \in Room, room[At(c)].lock = None, \A q \in Room : room[q].lock # c,
           NEW x, NEW m, CleanEnded(c, x, m)
    PROVE  IndInv'
<1> DEFINE r == At(c)
<1>0. r \in Room
  OBVIOUS
<1>1. /\ \A q \in Room \ {r} : room'[q] = room[q]
      /\ room'[r].id = room[r].id /\ room'[r].color = room[r].color
      /\ room'[r].lock = c /\ room'[r].status = "CLOSED"
  <2>1. room' = [room EXCEPT ![r].status = "CLOSED", ![r].lock = c]
    BY DEF CleanEnded
  <2> HIDE DEF r
  <2> QED BY <1>0, <2>1, RoomUpdate DEF IndInv
<1>2. pc'[c] = "clean" /\ \A u \in Thread \ {c} : pc'[u] = pc[u]
  BY GotoEffect DEF CleanEnded, IndInv
<1>3. frame'[c].at = r /\ \A u \in Thread \ {c} : frame'[u] = frame[u]
  <2>1. frame \in [Thread -> FrameType] /\ frame' = [frame EXCEPT ![c].trap = x, ![c].msg = m]
    BY DEF CleanEnded, IndInv, TypeOK
  <2> QED BY <2>1 DEF At, FrameType
<1>4. Others(c)
  BY <1>2, <1>3 DEF Others
<1>5. Arrives(c)
  BY <1>1, <1>2, <1>3 DEF Arrives, At, Cleaning
<1> HIDE DEF r
<1> QED BY <1>0, <1>1, <1>4, <1>5, RoomStepInv

LEMMA CheckRoomStatusInv ==
    ASSUME IndInv, NEW c \in Client, CheckRoomStatus(c) PROVE IndInv'
<1>1. /\ At(c) \in Room /\ (\A q \in Room : room[q].lock # c) /\ c \in Thread
      /\ room[At(c)].lock = None /\ TypeOK /\ pc[c] \notin Cleaning /\ frame[c].color \in Color
  BY Threads, InAction DEF CheckRoomStatus, Free, Cleaning
<1>2. TypeOK' /\ UNCHANGED rooms
  BY CheckRoomStatusType DEF CheckRoomStatus, IndInv
<1>3. CASE CleanEnded(c, "exit", frame[c].msg)
  BY <1>1, <1>2, <1>3, CleanEndedInv
<1>4. CASE NextIteration(c) /\ UNCHANGED room
  BY <1>1, <1>2, <1>4, LeaveInv
<1>5. CASE Goto(c, "ready") /\ UNCHANGED <<room, frame>>
  BY <1>1, <1>2, <1>5, GotoInv
<1> QED BY <1>3, <1>4, <1>5 DEF CheckRoomStatus

LEMMA ListenInv ==
    ASSUME IndInv, NEW c \in Client, Listen(c) PROVE IndInv'
<1>1. /\ At(c) \in Room /\ (\A q \in Room : room[q].lock # c) /\ c \in Thread
      /\ room[At(c)].lock = None /\ TypeOK /\ pc[c] \notin Cleaning /\ pc[c] = "listen"
  BY Threads, InAction DEF Listen, Free, Cleaning
<1>2. TypeOK' /\ UNCHANGED rooms
  BY ListenType DEF Listen, IndInv
<1>3. PICK m \in Input(RoomId) :
        \/ Dispatch(c, m) /\ frame' = [frame EXCEPT ![c].msg = m] /\ UNCHANGED room
        \/ CleanEnded(c, "oops", m)
        \/ NextIteration(c) /\ UNCHANGED room
  BY DEF Listen
<1>4. CASE Dispatch(c, m) /\ frame' = [frame EXCEPT ![c].msg = m] /\ UNCHANGED room
  <2>1. \E l \in {"listen", "resign", "move", "chat"} :
            pc'[c] = l /\ \A u \in Thread \ {c} : pc'[u] = pc[u]
    BY <1>1, <1>4, GotoEffect DEF Dispatch
  <2>2. frame'[c].at = frame[c].at /\ \A u \in Thread \ {c} : frame'[u] = frame[u]
    BY <1>1, <1>4 DEF TypeOK, FrameType
  <2>3. Others(c)
    BY <2>1, <2>2 DEF Others
  <2>4. Arrives(c)
    BY <1>1, <1>4, <2>1, <2>2 DEF Arrives, At
  <2> QED BY <1>2, <1>4, <2>3, <2>4, QuietStepInv
<1>5. CASE CleanEnded(c, "oops", m)
  BY <1>1, <1>2, <1>5, CleanEndedInv
<1>6. CASE NextIteration(c) /\ UNCHANGED room
  BY <1>1, <1>2, <1>6, LeaveInv
<1> QED BY <1>3, <1>4, <1>5, <1>6

LEMMA CloseRoomInv ==
    ASSUME IndInv, NEW c \in Client, CloseRoom(c) PROVE IndInv'
<1> DEFINE r == At(c)
<1>1. r \in Room /\ (\A q \in Room : room[q].lock # c) /\ c \in Thread /\ TypeOK
  BY Threads, InAction DEF CloseRoom, Cleaning
<1>2. TypeOK' /\ UNCHANGED rooms
  BY CloseRoomType DEF CloseRoom, IndInv
<1>3. /\ \A q \in Room \ {r} : room'[q] = room[q]
      /\ room'[r].id = room[r].id /\ room'[r].color = room[r].color
      /\ room'[r].lock = room[r].lock /\ room'[r].status = "CLOSED"
  BY <1>1, RoomUpdate DEF CloseRoom, SetStatus
<1>4. pc'[c] = "clean" /\ \A u \in Thread \ {c} : pc'[u] = pc[u]
  BY <1>1, GotoEffect DEF CloseRoom
<1>5. frame'[c].at = r /\ \A u \in Thread \ {c} : frame'[u] = frame[u]
  <2>1. \E x : frame' = [frame EXCEPT ![c].trap = x]
    BY DEF CloseRoom
  <2> QED BY <1>1, <2>1 DEF At, TypeOK, FrameType
<1>6. Others(c)
  BY <1>4, <1>5 DEF Others
<1>7. Arrives(c)
  BY <1>1, <1>3, <1>4, <1>5 DEF Arrives, At
<1> HIDE DEF r
<1> QED BY <1>1, <1>2, <1>3, <1>6, <1>7, RoomStepInv

LEMMA OnGameEndedInv ==
    ASSUME IndInv, NEW r \in Room, OnGameEnded(r) PROVE IndInv'
<1>1. TypeOK /\ TypeOK' /\ room[r].lock = None /\ UNCHANGED <<rooms, pc, frame>>
  BY OnGameEndedType DEF OnGameEnded, IndInv
<1>2. CASE UNCHANGED room
  BY <1>1, <1>2, StillInv
<1>3. CASE NotEnded(r) /\ room' = [room EXCEPT ![r].status = "ENDED"]
  <2>1. /\ \A q \in Room \ {r} : room'[q] = room[q]
        /\ room'[r].id = room[r].id /\ room'[r].color = room[r].color
        /\ room'[r].lock = room[r].lock /\ room'[r].status = "ENDED"
    BY <1>1, <1>3, RoomUpdate
  <2>2. room[r].color \in Color
    BY <1>3 DEF NotEnded, IndInv, Colored
  <2>3. Others(None) /\ Arrives(None)
    BY <1>1, Threads DEF Others, Arrives
  <2> QED BY <1>1, <2>1, <2>2, <2>3, RoomStepInv
<1> QED BY <1>2, <1>3 DEF OnGameEnded

\* The lock after ShutdownAndRemoveRoom.
LEMMA ReleasedEffect ==
    ASSUME IndInv, NEW t \in Thread, At(t) \in Room
    PROVE  /\ Released(t) \in {room[At(t)].lock, None} /\ Released(t) # t
           /\ \A q \in Room \ {At(t)} : room[q].lock # t
BY Threads DEF Released, Holds, IndInv, LockDiscipline

LEMMA CleanInv ==
    ASSUME IndInv, NEW t \in Thread, Clean(t) PROVE IndInv'
<1> DEFINE r == At(t)
<1>1. /\ r \in Room /\ TypeOK
      /\ room[r].status \in {"PLAYING", "ENDED"} => room[r].color \in Color
  BY InAction DEF Clean, Colored
<1>2. TypeOK' /\ UNCHANGED rooms
  BY CleanType DEF Clean, IndInv
<1>3. CASE room' = [room EXCEPT ![r].lock = Released(t)] /\ Return(t)
  <2>1. /\ \A q \in Room \ {r} : room'[q] = room[q]
        /\ room'[r].id = room[r].id /\ room'[r].color = room[r].color
        /\ room'[r].lock = Released(t) /\ room'[r].status = room[r].status
    BY <1>1, <1>3, RoomUpdate
  <2>2. Others(t) /\ pc'[t] \in {"idle", "exit"}
    BY <1>1, <1>3, LeaveEffect DEF Return
  <2>3. \A q \in Room : room'[q].lock # t
    BY <1>1, <2>1, ReleasedEffect
  <2>4. Arrives(t)
    BY <2>2, <2>3 DEF Arrives
  <2>5. Released(t) \in {room[r].lock, None}
    BY <1>1, ReleasedEffect
  <2> HIDE DEF r
  <2> QED BY <1>1, <1>2, <2>1, <2>2, <2>4, <2>5, RoomStepInv
<1>4. CASE UNCHANGED <<room, frame>> /\ (Goto(t, "join") \/ Goto(t, "kill"))
  BY <1>1, <1>2, <1>4, GotoInv DEF Cleaning
<1> QED BY <1>3, <1>4 DEF Clean

LEMMA JoinDaemonInv ==
    ASSUME IndInv, NEW t \in Thread, JoinDaemon(t) PROVE IndInv'
<1> DEFINE r == At(t)
<1>1. /\ r \in Room /\ TypeOK
      /\ room[r].status \in {"PLAYING", "ENDED"} => room[r].color \in Color
  BY InAction DEF JoinDaemon, Colored
<1>2. TypeOK' /\ UNCHANGED rooms
  BY JoinDaemonType DEF JoinDaemon, IndInv
<1>3. CASE Goto(t, "test") /\ UNCHANGED <<room, frame>>
  BY <1>1, <1>2, <1>3, GotoInv DEF Cleaning
<1>4. CASE /\ Goto(t, frame[t].trap)
           /\ room' = [room EXCEPT ![r].lock = Released(t)]
           /\ IF frame[t].trap = "oops" THEN UNCHANGED frame ELSE DropLocals(t)
  <2>1. /\ \A q \in Room \ {r} : room'[q] = room[q]
        /\ room'[r].id = room[r].id /\ room'[r].color = room[r].color
        /\ room'[r].lock = Released(t) /\ room'[r].status = room[r].status
    BY <1>1, <1>4, RoomUpdate
  <2>2. pc'[t] = frame[t].trap /\ \A u \in Thread \ {t} : pc'[u] = pc[u]
    BY <1>1, <1>4, GotoEffect
  <2>3. frame[t].trap \in {"exit", "oops", "abort"} /\ frame \in [Thread -> FrameType]
    BY <1>1 DEF TypeOK, FrameType
  <2>4. \A u \in Thread \ {t} : frame'[u] = frame[u]
    BY <1>4, <2>3 DEF DropLocals
  <2>5. frame[t].trap = "oops" => At(t)' = r
    BY <1>4 DEF At
  <2>6. Others(t)
    BY <2>2, <2>4 DEF Others
  <2>7. \A q \in Room : room'[q].lock # t
    BY <1>1, <2>1, ReleasedEffect
  <2>8. Arrives(t)
    BY <1>1, <2>2, <2>3, <2>5, <2>7 DEF Arrives
  <2>9. Released(t) \in {room[r].lock, None}
    BY <1>1, ReleasedEffect
  <2> HIDE DEF r
  <2> QED BY <1>1, <1>2, <2>1, <2>6, <2>8, <2>9, RoomStepInv
<1> QED BY <1>3, <1>4 DEF JoinDaemon

-----------------------------------------------------------------------------
(* The two actions that change the registry.                                 *)

LEMMA EraseRoomInv ==
    ASSUME IndInv, NEW t \in Thread, EraseRoom(t) PROVE IndInv'
<1> DEFINE r == At(t)
<1>1. r \in Room /\ TypeOK /\ rooms \subseteq Room
  BY InAction DEF EraseRoom, TypeOK
<1>2. TypeOK'
  BY EraseRoomType DEF EraseRoom, IndInv
<1>3. /\ \A q \in Room \ {r} : room'[q] = room[q]
      /\ room'[r].id = room[r].id /\ room'[r].color = room[r].color
      /\ room'[r].lock = Released(t) /\ room'[r].status = "REMOVED"
  BY <1>1, RoomUpdate DEF EraseRoom
<1>4. rooms' = rooms \ Registered(room[r].id)
  BY DEF EraseRoom
<1>5. r \notin rooms' /\ rooms' \subseteq rooms
  BY <1>4 DEF Registered
<1>6. UniqueIds'
  <2>1. \A q \in Room : room'[q].id = room[q].id
    BY <1>3
  <2> QED BY <1>1, <1>5, <2>1 DEF UniqueIds, IndInv
<1>7. RemovedUnregistered'
  BY <1>1, <1>3, <1>5 DEF RemovedUnregistered, IndInv
<1>8. Others(t) /\ pc'[t] \in {"idle", "exit"}
  BY <1>1, LeaveEffect DEF EraseRoom, Return
<1>9. \A q \in Room : room'[q].lock # t
  BY <1>1, <1>3, ReleasedEffect
<1>10. Arrives(t)
  BY <1>8, <1>9 DEF Arrives
<1>11. Respects(t)
  <2>1. Released(t) \in {room[r].lock, None}
    BY <1>1, ReleasedEffect
  <2>2. \A q \in Room : room[q].status \in {"PLAYING", "ENDED"} => room[q].color \in Color
    BY DEF IndInv, Colored
  <2> HIDE DEF r
  <2> QED BY <1>1, <1>3, <2>1, <2>2 DEF Respects
<1> QED BY <1>2, <1>6, <1>7, <1>8, <1>10, <1>11, StepInv

\* What GetOrCreateRoom does to the rooms and to the registry.
LEMMA GetOrCreateRoomInv ==
    ASSUME IndInv, NEW c \in Client, \A q \in Room : room[q].lock # c,
           NEW m, NEW r \in Room, GetOrCreateRoom(c, m, r)
    PROVE  /\ UniqueIds' /\ RemovedUnregistered' /\ Respects(c)
           /\ \A q \in Room : room'[q].lock # c
<1>1. rooms \subseteq Room /\ room \in [Room -> RoomType] /\ UniqueIds /\ RemovedUnregistered
  BY DEF IndInv, TypeOK
<1>2. \A q \in Room : room[q].status \in {"PLAYING", "ENDED"} => room[q].color \in Color
  BY DEF IndInv, Colored
<1>3. CASE UNCHANGED <<rooms, room>>
  <2>1. UniqueIds' /\ RemovedUnregistered'
    BY <1>3, RegistryKept
  <2>2. Respects(c)
    BY <1>2, <1>3 DEF Respects
  <2> QED BY <1>3, <2>1, <2>2
<1>4. CASE /\ Registered(m.id) = {} /\ Unreferenced(r)
           /\ rooms' = rooms \cup {r}
           /\ room' = [room EXCEPT ![r] = NewRoom(m.id, c, m.color)]
  <2>1. /\ \A q \in Room \ {r} : room'[q] = room[q]
        /\ room'[r].id = m.id /\ room'[r].status = "EMPTY" /\ room'[r].lock = None
    BY <1>1, <1>4 DEF NewRoom
  <2>2. \A q \in rooms : q # r /\ room[q].id # m.id
    BY <1>4 DEF Registered, Unreferenced
  <2>3. UniqueIds'
    BY <1>1, <1>4, <2>1, <2>2 DEF UniqueIds
  <2>4. RemovedUnregistered'
    BY <1>1, <1>4, <2>1, <2>2 DEF RemovedUnregistered
  <2>5. Respects(c)
    BY <1>2, <1>4, <2>1 DEF Respects
  <2>6. \A q \in Room : room'[q].lock # c
    BY <2>1, Threads
  <2> QED BY <2>3, <2>4, <2>5, <2>6
<1> QED BY <1>3, <1>4 DEF GetOrCreateRoom

LEMMA WaitReadyInv ==
    ASSUME IndInv, NEW c \in Client, WaitReady(c) PROVE IndInv'
<1>1. /\ (\A q \in Room : room[q].lock # c) /\ c \in Thread
      /\ pc[c] \notin Cleaning /\ TypeOK /\ TypeOK'
  BY Threads, InAction, WaitReadyType DEF WaitReady, Cleaning
<1>2. CASE Exit(c) /\ UNCHANGED <<rooms, room>>
  BY <1>1, <1>2, LeaveInv
<1>3. CASE Goto(c, "spin") /\ UNCHANGED <<rooms, room, frame>>
  BY <1>1, <1>3, GotoInv
<1>4. ASSUME NEW m, NEW r \in Room, GetOrCreateRoom(c, m, r), Goto(c, "joined"),
             frame' = [frame EXCEPT ![c].at = r, ![c].msg = m]
      PROVE  IndInv'
  <2>1. frame'[c].at = r /\ \A u \in Thread \ {c} : frame'[u] = frame[u]
    BY <1>1, <1>4 DEF TypeOK, FrameType
  <2>2. pc'[c] = "joined" /\ \A u \in Thread \ {c} : pc'[u] = pc[u]
    BY <1>1, <1>4, GotoEffect
  <2>3. /\ UniqueIds' /\ RemovedUnregistered' /\ Respects(c)
        /\ \A q \in Room : room'[q].lock # c
    BY <1>1, <1>4, GetOrCreateRoomInv
  <2>4. Others(c)
    BY <2>1, <2>2 DEF Others
  <2>5. Arrives(c)
    BY <2>1, <2>2, <2>3 DEF Arrives, At
  <2> QED BY <1>1, <2>3, <2>4, <2>5, StepInv
<1> QED BY <1>2, <1>3, <1>4 DEF WaitReady

-----------------------------------------------------------------------------
(* The inductive invariant and what follows from it.                         *)

LEMMA NextInv == ASSUME IndInv, Next PROVE IndInv'
<1>1. CASE \E c \in Client : Disconnect(c) \/ SpuriousWake(c)
  BY <1>1, DisconnectInv, SpuriousWakeInv
<1>2. CASE \E c \in Client : Handler(c)
  BY <1>2, WaitReadyInv, WaitingIfIsFirstInv, RecheckInv, SecondPlayerInv,
     ColorConflictInv, StartRoomInv, TakeSeatInv, CheckRoomStatusInv, SendReadyInv,
     ListenInv, CommitMoveInv, ChatInv, ResignInv, CloseRoomInv DEF Handler
<1>3. CASE \E t \in Thread : CleanUp(t)
  BY <1>3, CleanInv, KillGameInv, TestJoinableInv, JoinDaemonInv, TestWaitingInv,
     StartFailedInv, EraseRoomInv DEF CleanUp
<1>4. CASE \E t \in Admin : ShutdownService(t) \/ PickRoom(t)
  BY <1>4, ShutdownServiceInv, PickRoomInv
<1>5. CASE \E r \in Room : Daemon(r)
  BY <1>5, CreateAgentsInv, MakeMoveInv, NextListenerInv, OnGameEndedInv DEF Daemon
<1> QED BY <1>1, <1>2, <1>3, <1>4, <1>5 DEF Next

\* Stuttering steps.
LEMMA StutterInv == ASSUME IndInv, UNCHANGED vars PROVE IndInv'
<1>1. TypeOK'
  BY DEF IndInv, TypeOK, vars, connVars
<1> QED BY <1>1, StillInv DEF vars

\* IndInv holds in every state of every behaviour: it holds at first, and no step
\* of a handler thread, of a daemon or of ShutdownService breaks it.
THEOREM Inductive == Spec => []IndInv
<1>1. IndInv /\ [Next]_vars => IndInv'
  BY NextInv, StutterInv
<1> QED BY <1>1, InitInv, PTL DEF Spec

\* Every variable keeps its type.
THEOREM TypeCorrect == Spec => []TypeOK
<1>1. IndInv => TypeOK
  BY DEF IndInv
<1> QED BY <1>1, Inductive, PTL

\* However many clients join, leave and clean up at once, a room number names at
\* most one room of the vector, so that stopping at the first match is sound in
\* GetOrCreateRoom and in the erasing loop of ShutdownAndRemoveRoom.
THEOREM RegistryUnique == Spec => []UniqueIds
<1>1. IndInv => UniqueIds
  BY DEF IndInv
<1> QED BY <1>1, Inductive, PTL

\* The vector never holds a REMOVED room, though the unlocked writes of the status
\* overwrite one another: ShutdownService cannot be stuck on such a room.
THEOREM RemovedLeaves == Spec => []RemovedUnregistered
<1>1. IndInv => RemovedUnregistered
  BY DEF IndInv
<1> QED BY <1>1, Inductive, PTL

\* Room::mutex is held across steps only by a thread that is cleaning that very
\* room, and the room stays CLOSED or REMOVED as long as it is.
THEOREM LockKept == Spec => []LockDiscipline
<1>1. IndInv => LockDiscipline
  BY DEF IndInv
<1> QED BY <1>1, Inductive, PTL

\* A thread that reaches StartFailed in ShutdownAndRemoveRoom, where it locks
\* Room::mutex, does not hold that mutex: the room it had locked would be CLOSED
\* or REMOVED, and it has just read WAITING without the lock.
THEOREM NoRelock == Spec => []NoSelfDeadlock
<1>1. IndInv => NoSelfDeadlock
  <2> SUFFICES ASSUME IndInv, NEW t \in Thread, pc[t] = "startfail"
               PROVE  room[At(t)].lock # t
    BY DEF NoSelfDeadlock
  <2>1. At(t) \in Room /\ pc[t] \notin Cleaning
    BY DEF IndInv, InRoom, Cleaning
  <2> QED BY <2>1, NotHolding
<1> QED BY <1>1, Inductive, PTL
=============================================================================
