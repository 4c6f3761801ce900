--------------------------- MODULE RoomMeetProofs ---------------------------
(***************************************************************************)
(* Proofs about two clients that come together in a room and take their     *)
(* seats: MeetInv and SeatInv are kept by every step, whatever the rooms,   *)
(* the traffic and the threads that call ShutdownService.                   *)
(***************************************************************************)
EXTENDS RoomGame, RoomServiceProofs, FiniteSetTheorems

-----------------------------------------------------------------------------
(* Messages and clients.                                                     *)

LEMMA Vocabulary ==
    /\ \A m \in Input(RoomId) : m.op = "READY" <=> m \in ReadyOp(RoomId)
    /\ \A m \in GameOp : m.op # "READY"
    /\ EOF.op = "EOF"
    /\ \A m \in Input(RoomId) : m.op = "EOF" <=> m = EOF
BY DEF Input, ReadyOp, GameOp, MoveOp, EOF

LEMMA TwoClients ==
    ASSUME OneGame
    PROVE  /\ One \in Client /\ Other \in Client /\ One # Other
           /\ \A p \in Client : p = One \/ p = Other
BY DEF OneGame

\* The READY of a client is its first message.
LEMMA Received ==
    ASSUME OneGame, TypeOK, NEW c \in Client, NEW m \in Input(RoomId), Receive(c, m)
    PROVE  /\ \A p \in Client : sent'[p] = 0 => sent[p] = 0
           /\ \A p \in Client \ {c} : sent'[p] = sent[p]
           /\ m.op = "READY" => sent[c] = 0 /\ m \in Traffic[c][1]
           /\ m # EOF => sent'[c] # 0
<1>1. CASE /\ sent[c] < Len(Traffic[c])
           /\ m \in Traffic[c][sent[c] + 1]
           /\ sent' = [sent EXCEPT ![c] = @ + 1]
  <2>1. sent \in [Client -> Nat] /\ Len(Traffic[c]) \in Nat
    BY ConstantsOK DEF TypeOK
  <2>2. \A p \in Client : sent'[p] = IF p = c THEN sent[p] + 1 ELSE sent[p]
    BY <1>1, <2>1
  <2>3. ASSUME sent[c] # 0 PROVE m.op # "READY"
    <3>1. sent[c] + 1 \in 2 .. Len(Traffic[c])
      BY <1>1, <2>1, <2>3
    <3>2. m \in GameOp
      BY <1>1, <3>1 DEF OneGame
    <3> QED BY <3>2, Vocabulary
  <2>4. m.op = "READY" => sent[c] = 0 /\ m \in Traffic[c][1]
    BY <1>1, <2>3
  <2> QED BY <2>1, <2>2, <2>4
<1>2. CASE m = EOF /\ UNCHANGED sent
  BY <1>2, Vocabulary
<1> QED BY <1>1, <1>2 DEF Receive

-----------------------------------------------------------------------------
(* Coming together: steps that start no game and bring nobody in.            *)

\* The players of the rooms stay, no room comes to be waited in or played in, and the
\* messages of the others are left alone.
Keeps(t) ==
    /\ rooms' \subseteq rooms
    /\ \A q \in Room :
          /\ room'[q].first = room[q].first /\ room'[q].asked = room[q].asked
          /\ room'[q].second = room[q].second /\ room'[q].color = room[q].color
          /\ room'[q].status = "WAITING" => room[q].status = "WAITING"
          /\ room'[q].status = "PLAYING" => room[q].status = "PLAYING"
          /\ room'[q].status = "ENDED" => room[q].status \in {"PLAYING", "ENDED"}
    /\ \A p \in Client : sent'[p] = 0 => sent[p] = 0
    /\ \A p \in Client \ {t} : remained'[p] = remained[p]

\* Where client t itself gets.
Calm(t) ==
    t \in Client =>
        /\ At(t)' \in {At(t), None}
        /\ pc'[t] \in {"idle", "exit", "spin"} => frame'[t] = NoFrame
        /\ sent'[t] = 0 => pc'[t] \in {"idle", "exit"} /\ remained'[t] = EOF
        /\ pc'[t] # "joined" /\ pc'[t] # "seat2"
        /\ pc'[t] \in {"second", "pair", "rejected"} => pc[t] \in {"second", "pair", "rejected"} /\ frame'[t] = frame[t]
        /\ pc'[t] \in {"wait", "woken", "seat1"} => pc[t] \in {"wait", "woken"}
        /\ pc'[t] \in Seating \cup Sitting => At(t)' = At(t) /\ At(t) \in Room /\ Seated(At(t))
        /\ pc'[t] \in Sitting => \/ pc[t] \in Seating
                                 \/ /\ pc[t] \in Sitting
                                    /\ frame'[t].color = frame[t].color
                                    /\ frame'[t].peer = frame[t].peer
        /\ pc'[t] \in InGame => pc[t] \in InGame \cup {"ready"}
        /\ remained'[t].op # "READY"
        /\ frame'[t].trap = "oops" \/ pc'[t] \in {"resign", "closing"} => frame'[t].msg.op # "READY"

Steady(t) == Others(t) /\ Keeps(t) /\ Calm(t)

LEMMA StaysPast ==
    ASSUME MeetInv, NEW t, Others(t), Keeps(t), Calm(t), NEW p \in Client, p \in Thread
    PROVE  /\ Past(p) => Past(p)'
           /\ At(p)' \in {At(p), None}
           /\ pc'[p] \in {"second", "pair", "rejected"} => pc[p] \in {"second", "pair", "rejected"} /\ frame'[p] = frame[p]
<1>1. CASE p = t
  BY <1>1 DEF Past, Fresh, Keeps, Calm
<1>2. CASE p # t
  BY <1>2 DEF Past, Fresh, Keeps, Others, At
<1> QED BY <1>1, <1>2

LEMMA CalmStep ==
    ASSUME IndInv, MeetInv, NEW t, Others(t), Keeps(t), Calm(t)
    PROVE  MeetInv'
<1>0. \A p \in Client : p \in Thread
  BY Threads
<1>1. Newcomers'
  <2> SUFFICES ASSUME NEW p \in Client
               PROVE  /\ Fresh(p)' => pc'[p] \in {"idle", "exit"} /\ remained'[p] = EOF
                      /\ pc'[p] \in {"idle", "exit", "spin"} => frame'[p] = NoFrame
    BY DEF Newcomers
  <2>1. CASE p = t
    BY <2>1 DEF Calm, Fresh
  <2>2. CASE p # t
    BY <1>0, <2>2 DEF MeetInv, Newcomers, Others, Keeps, Fresh, At
  <2> QED BY <2>1, <2>2
<1>2. NoReplay'
  <2> SUFFICES ASSUME NEW p \in Client
               PROVE  /\ remained'[p].op # "READY"
                      /\ frame'[p].trap = "oops" \/ pc'[p] \in {"resign", "closing"}
                            => frame'[p].msg.op # "READY"
    BY DEF NoReplay
  <2>1. CASE p = t
    BY <2>1 DEF Calm
  <2>2. CASE p # t
    BY <1>0, <2>2 DEF MeetInv, NoReplay, Others, Keeps
  <2> QED BY <2>1, <2>2
<1>3. \A r \in Room : /\ Seated(r)' = Seated(r)
                      /\ Created(r)' = Created(r)
  BY DEF Seated, Created, Asks, Keeps
<1>4. \A p \in Client : /\ Past(p) => Past(p)'
                        /\ At(p)' \in {At(p), None}
                        /\ pc'[p] \in {"second", "pair", "rejected"} =>
                              pc[p] \in {"second", "pair", "rejected"} /\ frame'[p] = frame[p]
  BY <1>0, StaysPast
<1>5. Creators'
  <2>1. ASSUME NEW p \in Client, At(p)' \in Room PROVE Created(At(p))'
    <3>1. At(p)' = At(p) /\ Created(At(p))
      BY <1>4, <2>1, Threads DEF MeetInv, Creators
    <3> QED BY <2>1, <3>1 DEF Created, Asks, Keeps
  <2>2. \A r \in rooms' : Created(r)'
    BY <1>3 DEF MeetInv, Creators, Keeps, IndInv, TypeOK
  <2> QED BY <1>3, <2>1, <2>2 DEF MeetInv, Creators
<1>6. Requests'
  <2> SUFFICES ASSUME NEW p \in Client, pc'[p] \in {"joined", "second", "pair", "rejected"}
               PROVE  Asks(p, frame'[p].msg.color)
    BY DEF Requests, Asks
  <2>1. CASE pc'[p] = "joined"
    <3>1. p # t
      BY <2>1 DEF Calm
    <3> QED BY <1>0, <2>1, <3>1 DEF MeetInv, Requests, Others
  <2>2. CASE pc'[p] # "joined"
    BY <1>4, <2>2 DEF MeetInv, Requests
  <2> QED BY <2>1, <2>2
<1>7. Waited'
  <2>1. ASSUME NEW r \in Room, room'[r].status = "WAITING"
        PROVE  \E p \in Client : Past(p)' /\ AtOrOut(p, r)'
    <3>1. PICK p \in Client : Past(p) /\ AtOrOut(p, r)
      BY <2>1 DEF MeetInv, Waited, Keeps
    <3> QED BY <1>4, <3>1 DEF AtOrOut
  <2>2. ASSUME NEW p \in Client, pc'[p] \in {"second", "pair", "rejected"}, NEW q \in Client \ {p}
        PROVE  Past(q)' /\ AtOrOut(q, At(p))'
    <3>1. pc[p] \in {"second", "pair", "rejected"} /\ At(p)' = At(p)
      BY <1>4, <2>2 DEF At
    <3>2. Past(q) /\ AtOrOut(q, At(p))
      BY <3>1 DEF MeetInv, Waited
    <3> QED BY <1>4, <3>1, <3>2 DEF AtOrOut
  <2>3. ASSUME NEW r \in Room, Seated(r), NEW p \in Client
        PROVE  Past(p)' /\ AtOrOut(p, r)'
    BY <1>4, <2>3 DEF MeetInv, Waited, AtOrOut
  <2> QED BY <1>3, <2>1, <2>2, <2>3 DEF Waited
<1>8. Single'
  <2>1. \A r, q \in Room : Seated(r)' /\ Seated(q)' => r = q
    BY <1>3 DEF MeetInv, Single
  <2>2. \A r \in Room : room'[r].status \in {"PLAYING", "ENDED"} => Seated(r)'
    BY <1>3 DEF MeetInv, Single, Keeps
  <2>3. ASSUME NEW p \in Client, pc'[p] \in Seating \cup Sitting
        PROVE  At(p)' \in Room /\ Seated(At(p))'
    <3>1. At(p)' = At(p) /\ At(p) \in Room /\ Seated(At(p))
      BY <1>0, <2>3 DEF MeetInv, Single, Calm, Others, At, Seating, Sitting, InGame
    <3> QED BY <3>1 DEF Seated, Keeps
  <2> QED BY <2>1, <2>2, <2>3 DEF Single
<1>9. Seats'
  <2> SUFFICES ASSUME NEW r \in Room, Seated(r), NEW p \in Client
               PROVE  /\ pc'[p] = "seat2" => p = room[r].second
                      /\ pc'[p] \in {"wait", "woken", "seat1"} => p # room[r].second
    BY <1>3 DEF Seats, Keeps
  <2>1. pc'[p] = "seat2" => pc[p] = "seat2"
    BY <1>0 DEF Calm, Others
  <2>2. pc'[p] \in {"wait", "woken", "seat1"} => pc[p] \in {"wait", "woken", "seat1"}
    BY <1>0 DEF Calm, Others
  <2> QED BY <2>1, <2>2 DEF MeetInv, Seats
<1> QED BY <1>1, <1>2, <1>5, <1>6, <1>7, <1>8, <1>9 DEF MeetInv

LEMMA SteadyMeet == ASSUME IndInv, MeetInv, NEW t, Steady(t) PROVE MeetInv'
BY CalmStep DEF Steady

\* The rooms and the registry are left alone.
LEMMA RoomsKept ==
    ASSUME UNCHANGED <<rooms, room>>, NEW t, \A p \in Client \ {t} : remained'[p] = remained[p],
           \A p \in Client : sent'[p] = 0 => sent[p] = 0
    PROVE  Keeps(t)
BY DEF Keeps

\* Client t goes on at l in the same room; it has sent its READY.
GoesTo(t, l) ==
    t \in Client =>
        /\ pc[t] \notin {"idle", "exit", "spin"}
        /\ l \notin {"idle", "exit", "spin", "joined", "seat2"}
        /\ l \in {"second", "pair", "rejected"} => pc[t] \in {"second", "pair", "rejected"}
        /\ l \in {"wait", "woken", "seat1"} => pc[t] \in {"wait", "woken"}
        /\ l \in Seating \cup Sitting => At(t) \in Room /\ Seated(At(t))
        /\ l \in Sitting => pc[t] \in Sitting
        /\ l \in InGame => pc[t] \in InGame \cup {"ready"}
        /\ l \in {"resign", "closing"} => frame[t].msg.op # "READY"

LEMMA GoesToSteady ==
    ASSUME IndInv, MeetInv, NEW t \in Thread, NEW l, GoesTo(t, l), pc'[t] = l,
           Others(t), Keeps(t), UNCHANGED <<frame, remained>>
    PROVE  Steady(t)
<1>1. Calm(t)
  BY DEF MeetInv, Newcomers, NoReplay, Keeps, Fresh, Calm, GoesTo, At
<1> QED BY <1>1 DEF Steady

LEMMA GotoSteady ==
    ASSUME IndInv, MeetInv, NEW t \in Thread, NEW l, GoesTo(t, l), Goto(t, l),
           UNCHANGED <<rooms, room, frame, remained, sent>>
    PROVE  Steady(t)
<1>1. pc'[t] = l /\ Others(t)
  BY GotoEffect DEF Others, IndInv
<1>2. Keeps(t)
  BY RoomsKept
<1> QED BY <1>1, <1>2, GoesToSteady

\* t leaves its room.
LEMMA LeaveSteady ==
    ASSUME IndInv, MeetInv, NEW t \in Thread, NextIteration(t) \/ Exit(t), Keeps(t),
           t \in Client => remained'[t].op # "READY" /\ (sent'[t] = 0 => remained'[t] = EOF)
    PROVE  Steady(t)
<1>1. Others(t) /\ pc'[t] \in {"idle", "exit"}
  BY LeaveEffect DEF IndInv
<1>2. frame'[t] = NoFrame
  BY DEF NextIteration, Exit, DropLocals, IndInv, TypeOK
<1>3. Calm(t)
  BY <1>1, <1>2 DEF Calm, At, NoFrame, Seating, Sitting, InGame
<1> QED BY <1>1, <1>3 DEF Steady

\* A client that is not at the start of the loop has sent its READY.
LEMMA HasSent ==
    ASSUME MeetInv, NEW c \in Client
    PROVE  /\ pc[c] \notin {"idle", "exit"} => sent[c] # 0
           /\ remained[c].op # "READY" /\ (sent[c] = 0 => remained[c] = EOF)
           /\ pc[c] \in Seating \cup Sitting => At(c) \in Room /\ Seated(At(c))
BY DEF MeetInv, Newcomers, NoReplay, Single, Fresh

LEMMA SpuriousWakeSteady ==
    ASSUME IndInv, MeetInv, NEW c \in Client, SpuriousWake(c) PROVE Steady(c)
BY Threads, GotoSteady DEF SpuriousWake, GoesTo, connVars, Seating, Sitting, InGame

LEMMA RecheckSteady ==
    ASSUME IndInv, MeetInv, NEW c \in Client, Recheck(c) PROVE Steady(c)
<1>1. PICK l \in {"wait", "seat1", "clean"} :
        Goto(c, l) /\ (l = "seat1" => Status(c) = "PLAYING")
  BY DEF Recheck
<1>2. At(c) \in Room
  BY Threads, InAction DEF Recheck
<1>3. l = "seat1" => Seated(At(c))
  BY <1>1, <1>2 DEF Status, MeetInv, Single
<1>4. GoesTo(c, l)
  BY <1>2, <1>3 DEF Recheck, GoesTo, Seating, Sitting, InGame
<1> QED BY <1>1, <1>4, Threads, GotoSteady DEF Recheck, connVars

LEMMA SecondPlayerSteady ==
    ASSUME IndInv, MeetInv, NEW c \in Client, SecondPlayer(c) PROVE Steady(c)
<1>1. CASE Goto(c, "pair") /\ UNCHANGED frame
  <2>1. GoesTo(c, "pair")
    BY DEF SecondPlayer, GoesTo, Seating, Sitting, InGame
  <2> QED BY <1>1, <2>1, Threads, GotoSteady DEF SecondPlayer
<1>2. CASE NextIteration(c) \/ Exit(c)
  <2>1. Keeps(c)
    BY RoomsKept DEF SecondPlayer
  <2> QED BY <1>2, <2>1, Threads, HasSent, LeaveSteady DEF SecondPlayer
<1> QED BY <1>1, <1>2 DEF SecondPlayer

LEMMA ColorConflictSteady ==
    ASSUME IndInv, MeetInv, NEW c \in Client, ColorConflict(c) PROVE Steady(c)
<1>1. pc[c] \in {"pair", "rejected"} /\ UNCHANGED <<rooms, room, game, remained, open, sent>>
  BY DEF ColorConflict, Reject
<1>2. CASE (\E l \in {"rejected", "conflict"} : Goto(c, l)) /\ UNCHANGED frame
  <2>1. \A l \in {"rejected", "conflict"} : GoesTo(c, l)
    BY <1>1 DEF GoesTo, Seating, Sitting, InGame
  <2> QED BY <1>1, <1>2, <2>1, Threads, GotoSteady
<1>3. CASE Exit(c)
  <2>1. Keeps(c)
    BY <1>1, RoomsKept
  <2> QED BY <1>1, <1>3, <2>1, Threads, HasSent, LeaveSteady
<1> QED BY <1>2, <1>3 DEF ColorConflict, Reject

LEMMA StartFailedSteady ==
    ASSUME IndInv, MeetInv, NEW t \in Thread, StartFailed(t) PROVE Steady(t)
<1>1. At(t) \in Room /\ TypeOK
  BY InAction DEF StartFailed
<1>2. Keeps(t)
  BY <1>1 DEF StartFailed, SetStatus, connVars, Keeps, TypeOK, RoomType
<1>3. CASE NotifyAll(t, "idle") /\ DropLocals(t)
  <2>1. Others(t) /\ pc'[t] = "idle" /\ frame'[t] = NoFrame
    BY <1>1, <1>3, NotifyAllEffect DEF Others, DropLocals, TypeOK
  <2>2. Calm(t)
    BY <1>2, <2>1, HasSent DEF Calm, At, NoFrame, Seating, Sitting, InGame, StartFailed, Keeps
  <2> QED BY <1>2, <2>1, <2>2 DEF Steady
<1>4. CASE NotifyAll(t, "erase") /\ UNCHANGED frame
  <2>1. Others(t) /\ pc'[t] = "erase"
    BY <1>1, <1>4, NotifyAllEffect DEF Others
  <2>2. GoesTo(t, "erase")
    BY DEF StartFailed, GoesTo, Seating, Sitting, InGame
  <2> QED BY <1>2, <1>4, <2>1, <2>2, GoesToSteady DEF StartFailed
<1> QED BY <1>3, <1>4 DEF StartFailed

LEMMA TakeSeatSteady ==
    ASSUME IndInv, MeetInv, NEW c \in Client, TakeSeat(c) PROVE Steady(c)
<1>1. pc'[c] = "check" /\ Others(c) /\ frame'[c].at = frame[c].at
      /\ frame'[c].trap = frame[c].trap /\ frame'[c].msg = frame[c].msg
  BY Threads, GotoEffect DEF TakeSeat, Others, IndInv, TypeOK, FrameType
<1>2. Keeps(c)
  BY RoomsKept DEF TakeSeat, connVars
<1>3. At(c) \in Room /\ Seated(At(c)) /\ sent'[c] # 0
  BY HasSent DEF TakeSeat, connVars, Seating
<1>4. Calm(c)
  BY <1>1, <1>3 DEF TakeSeat, Calm, At, Seating, Sitting, InGame, MeetInv, NoReplay
<1> QED BY <1>1, <1>2, <1>4 DEF Steady

\* A room that is found ENDED begins to be cleaned.
LEMMA CleanEndedSteady ==
    ASSUME IndInv, MeetInv, NEW c \in Client, At(c) \in Room, pc[c] \in Sitting,
           UNCHANGED <<rooms, remained>>, \A p \in Client : sent'[p] = 0 => sent[p] = 0,
           NEW x, NEW m, CleanEnded(c, x, m), x = "oops" => m.op # "READY"
    PROVE  Steady(c)
<1>1. Keeps(c)
  BY DEF Keeps, CleanEnded, IndInv, TypeOK, RoomType
<1>2. pc'[c] = "clean" /\ Others(c) /\ frame'[c].at = frame[c].at
      /\ frame'[c].trap = x /\ frame'[c].msg = m
  BY Threads, GotoEffect DEF CleanEnded, Others, IndInv, TypeOK, FrameType
<1>3. Calm(c)
  BY <1>2, HasSent DEF Calm, At, Seating, Sitting, InGame, MeetInv, NoReplay
<1> QED BY <1>1, <1>2, <1>3 DEF Steady

LEMMA CheckRoomStatusSteady ==
    ASSUME IndInv, MeetInv, NEW c \in Client, CheckRoomStatus(c) PROVE Steady(c)
<1>1. pc[c] \in Sitting /\ At(c) \in Room /\ Seated(At(c))
  BY HasSent DEF CheckRoomStatus, Sitting, InGame
<1>2. CASE CleanEnded(c, "exit", frame[c].msg)
  BY <1>1, <1>2, CleanEndedSteady DEF CheckRoomStatus, connVars
<1>3. CASE NextIteration(c) /\ UNCHANGED room
  <2>1. Keeps(c)
    BY <1>3, RoomsKept DEF CheckRoomStatus, connVars
  <2> QED BY <1>3, <2>1, Threads, HasSent, LeaveSteady DEF CheckRoomStatus, connVars
<1>4. CASE Goto(c, "ready") /\ UNCHANGED <<room, frame>>
  <2>1. GoesTo(c, "ready")
    BY <1>1 DEF CheckRoomStatus, GoesTo, InGame
  <2> QED BY <1>4, <2>1, Threads, GotoSteady DEF CheckRoomStatus, connVars
<1> QED BY <1>2, <1>3, <1>4 DEF CheckRoomStatus

LEMMA SendReadySteady ==
    ASSUME IndInv, MeetInv, NEW c \in Client, SendReady(c) PROVE Steady(c)
<1>1. pc[c] \in Sitting /\ At(c) \in Room /\ Seated(At(c))
  BY HasSent DEF SendReady, Sitting, InGame
<1>2. CASE Goto(c, "listen") /\ UNCHANGED frame
  <2>1. GoesTo(c, "listen")
    BY <1>1 DEF SendReady, GoesTo
  <2> QED BY <1>2, <2>1, Threads, GotoSteady DEF SendReady
<1>3. CASE Exit(c)
  <2>1. Keeps(c)
    BY RoomsKept DEF SendReady
  <2> QED BY <1>3, <2>1, Threads, HasSent, LeaveSteady DEF SendReady
<1> QED BY <1>2, <1>3 DEF SendReady

LEMMA ListenSteady ==
    ASSUME OneGame, IndInv, MeetInv, NEW c \in Client, Listen(c) PROVE Steady(c)
<1>1. pc[c] \in Sitting /\ At(c) \in Room /\ Seated(At(c)) /\ sent[c] # 0 /\ TypeOK
  BY HasSent DEF Listen, Sitting, InGame, IndInv
<1>2. PICK m \in Input(RoomId) :
        /\ Receive(c, m)
        /\ \/ /\ Dispatch(c, m)
              /\ frame' = [frame EXCEPT ![c].msg = m]
              /\ UNCHANGED <<room, remained>>
           \/ CleanEnded(c, "oops", m) /\ UNCHANGED remained
           \/ /\ remained' = [remained EXCEPT ![c] = m]
              /\ NextIteration(c)
              /\ UNCHANGED room
  BY DEF Listen
<1>3. (\A p \in Client : sent'[p] = 0 => sent[p] = 0) /\ m.op # "READY"
  BY <1>1, <1>2, Received
<1>4. CASE /\ Dispatch(c, m)
           /\ frame' = [frame EXCEPT ![c].msg = m]
           /\ UNCHANGED <<room, remained>>
  <2>1. \E l \in {"listen", "resign", "move", "chat"} :
            pc'[c] = l /\ \A u \in Thread \ {c} : pc'[u] = pc[u]
    BY <1>1, <1>4, Threads, GotoEffect DEF Dispatch, Listen
  <2>2. /\ frame'[c].at = frame[c].at
        /\ frame'[c].color = frame[c].color /\ frame'[c].peer = frame[c].peer
        /\ frame'[c].trap = frame[c].trap /\ frame'[c].msg = m
        /\ \A u \in Thread \ {c} : frame'[u] = frame[u]
    BY <1>1, <1>4, Threads DEF TypeOK, FrameType
  <2>3. Others(c)
    BY <2>1, <2>2 DEF Others
  <2>4. Calm(c)
    BY <1>1, <1>3, <1>4, <2>1, <2>2, HasSent DEF Listen, InGame, Calm, At
  <2>5. Keeps(c)
    BY <1>3, <1>4, RoomsKept DEF Listen
  <2> QED BY <2>3, <2>4, <2>5 DEF Steady
<1>5. CASE CleanEnded(c, "oops", m) /\ UNCHANGED remained
  BY <1>1, <1>3, <1>5, CleanEndedSteady DEF Listen
<1>6. CASE remained' = [remained EXCEPT ![c] = m] /\ NextIteration(c) /\ UNCHANGED room
  <2>1. remained'[c] = m /\ \A p \in Client \ {c} : remained'[p] = remained[p]
    BY <1>1, <1>6, Threads DEF TypeOK
  <2>2. Keeps(c)
    BY <1>3, <1>6, <2>1, RoomsKept DEF Listen
  <2> QED BY <1>1, <1>3, <1>6, <2>1, <2>2, Threads, LeaveSteady
<1> QED BY <1>2, <1>4, <1>5, <1>6

LEMMA CommitMoveSteady ==
    ASSUME IndInv, MeetInv, NEW c \in Client, CommitMove(c) PROVE Steady(c)
<1>1. pc[c] \in Sitting /\ At(c) \in Room /\ Seated(At(c))
  BY HasSent DEF CommitMove, Sitting, InGame
<1>2. PICK l \in {"listen", "oops"} : Goto(c, l)
  BY DEF CommitMove
<1>3. GoesTo(c, l)
  BY <1>1 DEF CommitMove, GoesTo, Seating, Sitting, InGame
<1> QED BY <1>2, <1>3, Threads, GotoSteady DEF CommitMove, connVars

LEMMA ChatSteady ==
    ASSUME IndInv, MeetInv, NEW c \in Client, Chat(c) PROVE Steady(c)
<1>1. pc[c] \in Sitting /\ At(c) \in Room /\ Seated(At(c))
  BY HasSent DEF Chat, Sitting, InGame
<1>2. PICK l \in {"listen", "oops"} : Goto(c, l)
  BY DEF Chat
<1>3. GoesTo(c, l)
  BY <1>1 DEF Chat, GoesTo, Seating, Sitting, InGame
<1> QED BY <1>2, <1>3, Threads, GotoSteady DEF Chat

LEMMA ResignSteady ==
    ASSUME IndInv, MeetInv, NEW c \in Client, Resign(c) PROVE Steady(c)
<1>1. pc[c] \in Sitting /\ At(c) \in Room /\ Seated(At(c)) /\ frame[c].msg.op # "READY"
  BY HasSent DEF Resign, Sitting, InGame, MeetInv, NoReplay
<1>2. PICK l \in {"closing", "oops"} : Goto(c, l)
  BY DEF Resign
<1>3. GoesTo(c, l)
  BY <1>1 DEF Resign, GoesTo, Seating, Sitting, InGame
<1> QED BY <1>2, <1>3, Threads, GotoSteady DEF Resign

LEMMA CloseRoomSteady ==
    ASSUME IndInv, MeetInv, NEW c \in Client, CloseRoom(c) PROVE Steady(c)
<1>1. At(c) \in Room /\ sent[c] # 0 /\ TypeOK /\ pc[c] \in {"closing", "oops"}
  BY Threads, InAction, HasSent DEF CloseRoom
<1>2. Keeps(c)
  BY <1>1 DEF CloseRoom, SetStatus, connVars, Keeps, TypeOK, RoomType
<1>3. PICK x \in {"oops", "exit"} : /\ frame' = [frame EXCEPT ![c].trap = x]
                                    /\ x = "oops" => pc[c] = "closing"
  BY DEF CloseRoom
<1>4. /\ pc'[c] = "clean" /\ Others(c) /\ frame'[c].at = frame[c].at
      /\ frame'[c].trap = x /\ frame'[c].msg = frame[c].msg
  BY <1>1, <1>3, Threads, GotoEffect DEF CloseRoom, Others, TypeOK, FrameType
<1>5. Calm(c)
  BY <1>1, <1>3, <1>4, HasSent
     DEF CloseRoom, connVars, Calm, At, Seating, Sitting, InGame, MeetInv, NoReplay
<1> QED BY <1>2, <1>4, <1>5 DEF Steady

\* A step of the daemon: nobody moves.
LEMMA DaemonSteady ==
    ASSUME IndInv, MeetInv, NEW r \in Room, Daemon(r) PROVE Steady(None)
<1>1. Others(None) /\ Calm(None)
  BY Threads DEF Others, Calm, Daemon, CreateAgents, MakeMove, NextListener, OnGameEnded
<1>2. Keeps(None)
  <2>1. UNCHANGED <<rooms, remained, sent>>
    BY DEF Daemon, CreateAgents, MakeMove, NextListener, OnGameEnded, connVars
  <2>2. CASE UNCHANGED room
    BY <2>1, <2>2, RoomsKept
  <2>3. CASE NotEnded(r) /\ room' = [room EXCEPT ![r].status = "ENDED"]
    BY <2>1, <2>3 DEF Keeps, NotEnded, IndInv, TypeOK, RoomType
  <2> QED BY <2>2, <2>3 DEF Daemon, CreateAgents, MakeMove, NextListener, OnGameEnded, connVars
<1> QED BY <1>1, <1>2 DEF Steady

\* The end of ShutdownAndRemoveRoom.
LEMMA ReturnSteady ==
    ASSUME IndInv, MeetInv, NEW t \in Thread, Return(t), rooms' \subseteq rooms,
           At(t) \in Room, pc[t] \notin {"idle", "exit"}, UNCHANGED sent,
           NEW s, NEW x, room' = [room EXCEPT ![At(t)].status = s, ![At(t)].lock = x],
           s \in {"REMOVED", room[At(t)].status}
    PROVE  Steady(t)
<1>1. TypeOK /\ remained \in [Thread -> Input(RoomId)]
  BY DEF IndInv, TypeOK
<1>2. \A p \in Client \ {t} : remained'[p] = remained[p]
  BY <1>1, Threads DEF Return
<1>3. Keeps(t)
  BY <1>1, <1>2 DEF Keeps, TypeOK, RoomType
<1>4. t \in Client => remained'[t].op # "READY" /\ sent'[t] # 0
  BY <1>1, HasSent DEF Return, MeetInv, NoReplay
<1> QED BY <1>3, <1>4, LeaveSteady DEF Return

LEMMA CleanSteady ==
    ASSUME IndInv, MeetInv, NEW t \in Thread, Clean(t) PROVE Steady(t)
<1>1. At(t) \in Room /\ room \in [Room -> RoomType]
  BY InAction DEF Clean, TypeOK
<1>2. CASE room' = [room EXCEPT ![At(t)].lock = Released(t)] /\ Return(t)
  <2>1. room' = [room EXCEPT ![At(t)].status = room[At(t)].status, ![At(t)].lock = Released(t)]
    BY <1>1, <1>2 DEF RoomType
  <2> QED BY <1>1, <1>2, <2>1, ReturnSteady DEF Clean, connVars
<1>3. CASE UNCHANGED <<room, frame, remained>> /\ \E l \in {"join", "kill"} : Goto(t, l)
  <2>1. \A l \in {"join", "kill"} : GoesTo(t, l)
    BY DEF Clean, GoesTo, Seating, Sitting, InGame
  <2> QED BY <1>3, <2>1, GotoSteady DEF Clean, connVars
<1> QED BY <1>2, <1>3 DEF Clean

LEMMA KillGameSteady ==
    ASSUME IndInv, MeetInv, NEW t \in Thread, KillGame(t) PROVE Steady(t)
<1>1. PICK l \in {"join", "kill"} : Goto(t, l)
  BY DEF KillGame, Goto, IndInv, TypeOK
<1>2. GoesTo(t, l)
  BY DEF KillGame, GoesTo, Seating, Sitting, InGame
<1> QED BY <1>1, <1>2, GotoSteady DEF KillGame, connVars

LEMMA TestSteady ==
    ASSUME IndInv, MeetInv, NEW t \in Thread, TestJoinable(t) \/ TestWaiting(t) PROVE Steady(t)
<1>1. PICK l \in {"joining", "test", "startfail", "erase"} : Goto(t, l)
  BY DEF TestJoinable, TestWaiting
<1>2. GoesTo(t, l)
  BY DEF TestJoinable, TestWaiting, GoesTo, Seating, Sitting, InGame
<1> QED BY <1>1, <1>2, GotoSteady DEF TestJoinable, TestWaiting, connVars

LEMMA JoinDaemonSteady ==
    ASSUME IndInv, MeetInv, NEW t \in Thread, JoinDaemon(t) PROVE Steady(t)
<1>1. At(t) \in Room /\ TypeOK
  BY InAction DEF JoinDaemon
<1>2. CASE Goto(t, "test") /\ UNCHANGED <<room, frame>>
  <2>1. GoesTo(t, "test")
    BY DEF JoinDaemon, GoesTo, Seating, Sitting, InGame
  <2> QED BY <1>2, <2>1, GotoSteady DEF JoinDaemon, connVars
<1>3. CASE /\ Goto(t, frame[t].trap)
           /\ room' = [room EXCEPT ![At(t)].lock = Released(t)]
           /\ IF frame[t].trap = "oops" THEN UNCHANGED frame ELSE DropLocals(t)
  <2>1. Keeps(t)
    BY <1>1, <1>3 DEF JoinDaemon, connVars, Keeps, TypeOK, RoomType
  <2>2. CASE frame[t].trap = "oops"
    <3>1. GoesTo(t, "oops") /\ pc'[t] = "oops" /\ Others(t)
      BY <1>1, <1>3, <2>2, GotoEffect DEF JoinDaemon, GoesTo, Seating, Sitting, InGame, Others
    <3> QED BY <1>3, <2>1, <2>2, <3>1, GoesToSteady DEF JoinDaemon
  <2>3. CASE frame[t].trap # "oops"
    <3>1. /\ pc'[t] \in {"exit", "abort"} /\ Others(t) /\ frame'[t] = NoFrame
      BY <1>1, <1>3, <2>3, GotoEffect DEF DropLocals, TypeOK, FrameType, Others
    <3>2. Calm(t)
      BY <3>1, HasSent DEF JoinDaemon, connVars, Calm, At, NoFrame, Seating, Sitting, InGame
    <3> QED BY <2>1, <3>1, <3>2 DEF Steady
  <2> QED BY <2>2, <2>3
<1> QED BY <1>2, <1>3 DEF JoinDaemon

LEMMA EraseRoomSteady ==
    ASSUME IndInv, MeetInv, NEW t \in Thread, EraseRoom(t) PROVE Steady(t)
<1>1. At(t) \in Room
  BY InAction DEF EraseRoom
<1> QED BY <1>1, ReturnSteady DEF EraseRoom, connVars

\* A thread that calls ShutdownService is no client.
LEMMA AdminSteady ==
    ASSUME IndInv, MeetInv, NEW t \in Admin, ShutdownService(t) \/ PickRoom(t) PROVE Steady(t)
<1>1. t \in Thread /\ t \notin Client /\ TypeOK
  BY Threads, ConstantsOK DEF IndInv
<1>2. Others(t)
  BY <1>1 DEF ShutdownService, PickRoom, Goto, Others, TypeOK
<1>3. Keeps(t)
  BY RoomsKept DEF ShutdownService, PickRoom, connVars
<1>4. Calm(t)
  BY <1>1 DEF Calm
<1> QED BY <1>2, <1>3, <1>4 DEF Steady

-----------------------------------------------------------------------------
(* Coming together: the steps that bring a client in or start the game.      *)

\* A client comes in with its READY, if it has sent one; otherwise nothing happens in
\* the rooms.
ComesIn(c, m, r) ==
    /\ Fresh(c) /\ m \in Traffic[c][1] /\ m \in ReadyOp(RoomId)
    /\ sent'[c] # 0 /\ \A p \in Client \ {c} : sent'[p] = sent[p]
    /\ GetOrCreateRoom(c, m, r)
    /\ Goto(c, "joined")
    /\ frame' = [frame EXCEPT ![c].at = r, ![c].msg = m]

LEMMA WaitReadyCases ==
    ASSUME OneGame, IndInv, MeetInv, NEW c \in Client, WaitReady(c)
    PROVE  \/ Steady(c) /\ UNCHANGED <<rooms, room, game, out, open>>
           \/ \E m \in Input(RoomId) : \E r \in Room : ComesIn(c, m, r)
<1>1. TypeOK /\ c \in Thread /\ UNCHANGED <<remained, out, open>> /\ pc[c] = "idle"
  BY Threads DEF WaitReady, IndInv
<1>2. PICK m \in Input(RoomId) :
         /\ IF remained[c] = EOF THEN Receive(c, m) ELSE m = remained[c] /\ UNCHANGED sent
         /\ \/ m.op \in {"EOF", "BADREADY"} /\ Exit(c) /\ UNCHANGED <<rooms, room, game>>
            \/ /\ m.op = "READY"
               /\ \E r \in Room :
                    /\ GetOrCreateRoom(c, m, r)
                    /\ frame' = [frame EXCEPT ![c].at = r, ![c].msg = m]
               /\ Goto(c, "joined")
            \/ /\ m.op \notin {"EOF", "READY", "BADREADY"}
               /\ Goto(c, "spin")
               /\ UNCHANGED <<rooms, room, game, frame>>
  BY DEF WaitReady
<1>3. \A p \in Client : sent'[p] = 0 => sent[p] = 0
  BY <1>1, <1>2, Received
<1>4. CASE Exit(c) /\ UNCHANGED <<rooms, room, game>>
  <2>1. Keeps(c)
    BY <1>1, <1>3, <1>4, RoomsKept
  <2>2. Steady(c)
    BY <1>1, <1>3, <1>4, <2>1, HasSent, LeaveSteady
  <2> QED BY <1>1, <1>4, <2>2
<1>5. CASE /\ m.op \notin {"EOF", "READY", "BADREADY"} /\ Goto(c, "spin")
           /\ UNCHANGED <<rooms, room, game, frame>>
  <2>1. Keeps(c)
    BY <1>1, <1>3, <1>5, RoomsKept
  <2>2. Others(c) /\ pc'[c] = "spin"
    BY <1>1, <1>5, GotoEffect DEF Others
  <2>3. sent'[c] # 0
    BY <1>1, <1>2, <1>3, <1>5, Received, Vocabulary, HasSent
  <2>4. frame[c] = NoFrame
    BY <1>1 DEF MeetInv, Newcomers
  <2>5. Calm(c)
    BY <1>1, <1>5, <2>2, <2>3, <2>4, HasSent
       DEF Calm, At, Seating, Sitting, InGame, MeetInv, NoReplay
  <2> QED BY <1>1, <1>5, <2>1, <2>2, <2>5 DEF Steady
<1>6. ASSUME m.op = "READY", NEW r \in Room, GetOrCreateRoom(c, m, r), Goto(c, "joined"),
             frame' = [frame EXCEPT ![c].at = r, ![c].msg = m]
      PROVE  ComesIn(c, m, r)
  <2>1. Receive(c, m)
    BY <1>2, <1>6, HasSent
  <2> QED BY <1>1, <1>6, <2>1, Received, Vocabulary DEF ComesIn, Fresh
<1> QED BY <1>2, <1>4, <1>5, <1>6

LEMMA WaitReadyMeet ==
    ASSUME OneGame, IndInv, MeetInv, NEW c \in Client, WaitReady(c) PROVE MeetInv'
<1>1. TypeOK /\ c \in Thread /\ remained' = remained /\ pc[c] = "idle" /\ frame[c] = NoFrame
  BY Threads DEF WaitReady, IndInv, MeetInv, Newcomers
<1>2. ASSUME NEW m \in Input(RoomId), NEW r \in Room, ComesIn(c, m, r) PROVE MeetInv'
  <2>1. /\ Fresh(c) /\ m \in Traffic[c][1] /\ m \in ReadyOp(RoomId)
        /\ sent'[c] # 0 /\ \A p \in Client \ {c} : sent'[p] = sent[p]
        /\ GetOrCreateRoom(c, m, r)
    BY <1>2 DEF ComesIn
  <2>2. /\ pc'[c] = "joined" /\ \A u \in Thread \ {c} : pc'[u] = pc[u]
        /\ \A u \in Thread \ {c} : frame'[u] = frame[u]
        /\ frame'[c].at = r /\ frame'[c].msg = m /\ frame'[c].trap = frame[c].trap
    BY <1>1, <1>2, GotoEffect DEF ComesIn, TypeOK, FrameType
  <2>3. \A q \in Room : ~Seated(q)
    BY <2>1 DEF MeetInv, Waited, Past
  <2>4. \A p \in Client : pc[p] \notin {"second", "pair", "rejected"} \cup Seating \cup Sitting
    BY <1>1, <2>1, <2>3 DEF MeetInv, Waited, Past, Single, Seating, Sitting, InGame
  <2>5. /\ Created(r)'
        /\ \A q \in Room : ~Seated(q)' /\ (q # r => room'[q] = room[q])
        /\ room'[r].status \in {room[r].status, "EMPTY"}
        /\ \A q \in Room : Created(q) => Created(q)'
        /\ rooms' \subseteq rooms \cup {r}
    <3>1. CASE r \in Registered(m.id) /\ UNCHANGED <<rooms, room>>
      BY <2>3, <3>1 DEF Registered, MeetInv, Creators, Created, Asks, Seated
    <3>2. CASE rooms' = rooms \cup {r} /\ room' = [room EXCEPT ![r] = NewRoom(m.id, c, m.color)]
      <4>1. room'[r] = NewRoom(m.id, c, m.color) /\ \A q \in Room \ {r} : room'[q] = room[q]
        BY <1>1, <3>2 DEF TypeOK
      <4> QED BY <2>1, <2>3, <3>2, <4>1 DEF NewRoom, Created, Asks, Seated
    <3> QED BY <2>1, <3>1, <3>2 DEF GetOrCreateRoom
  <2>6. \A p \in Client \ {c} : /\ Past(p) => Past(p)'
                                /\ At(p)' = At(p) /\ p \in Thread
    BY <2>1, <2>2, Threads DEF Past, Fresh, At
  <2>7. Newcomers'
    BY <1>1, <2>1, <2>2, <2>6 DEF MeetInv, Newcomers, Fresh
  <2>8. NoReplay'
    BY <1>1, <2>2, <2>6 DEF MeetInv, NoReplay, NoFrame
  <2>9. Creators'
    <3>1. \A q \in rooms' : Created(q)'
      BY <1>1, <2>5 DEF MeetInv, Creators, TypeOK
    <3>2. ASSUME NEW p \in Client, At(p)' \in Room PROVE Created(At(p))'
      <4>1. CASE p = c
        BY <2>2, <2>5, <4>1 DEF At, Created, Asks
      <4>2. CASE p # c
        <5>1. At(p)' = At(p) /\ Created(At(p)) /\ At(p) \in Room
          BY <2>6, <3>2, <4>2 DEF MeetInv, Creators
        <5>2. PICK q \in Room : q = At(p)
          BY <5>1
        <5>3. Created(q)'
          BY <2>5, <5>1, <5>2
        <5> QED BY <5>1, <5>2, <5>3 DEF Created, Asks
      <4> QED BY <4>1, <4>2
    <3> QED BY <2>5, <3>1, <3>2 DEF Creators
  <2>10. Requests'
    BY <2>1, <2>2, <2>6 DEF MeetInv, Requests, Asks
  <2>11. Waited'
    <3>1. ASSUME NEW q \in Room, room'[q].status = "WAITING"
          PROVE  \E p \in Client : Past(p)' /\ AtOrOut(p, q)'
      <4>1. room[q].status = "WAITING"
        BY <2>5, <3>1
      <4>2. PICK p \in Client : Past(p) /\ AtOrOut(p, q)
        BY <4>1 DEF MeetInv, Waited
      <4>3. p # c
        BY <2>1, <4>2 DEF Past
      <4> QED BY <2>6, <4>2, <4>3 DEF AtOrOut
    <3> QED BY <2>2, <2>4, <2>5, <2>6, <3>1 DEF Waited
  <2>12. Single'
    BY <2>2, <2>3, <2>4, <2>5, <2>6 DEF MeetInv, Single, Seating, Sitting, InGame
  <2>13. Seats'
    BY <2>5 DEF Seats
  <2> QED BY <2>7, <2>8, <2>9, <2>10, <2>11, <2>12, <2>13 DEF MeetInv
<1> QED BY <1>2, WaitReadyCases, SteadyMeet

LEMMA WaitingIfIsFirstMeet ==
    ASSUME OneGame, IndInv, MeetInv, NEW c \in Client, WaitingIfIsFirst(c) PROVE MeetInv'
<1>1. /\ At(c) \in Room /\ c \in Thread /\ TypeOK /\ pc[c] = "joined" /\ ~Past(c) /\ sent[c] # 0
      /\ UNCHANGED <<rooms, frame, remained, sent>>
  BY Threads, InAction, HasSent DEF WaitingIfIsFirst, Past, connVars
<1>2. PICK l \in {"second", "wait"} :
        /\ Goto(c, l)
        /\ l = "second" => Status(c) = "WAITING" /\ UNCHANGED room
        /\ l = "wait" => SetStatus(c, "WAITING")
  BY DEF WaitingIfIsFirst
<1>3. /\ pc'[c] = l /\ \A u \in Thread \ {c} : pc'[u] = pc[u]
      /\ \A p \in Client : p \in Thread /\ At(p)' = At(p)
  BY <1>1, <1>2, Threads, GotoEffect DEF At
<1>4. /\ \A q \in Room : room'[q].first = room[q].first /\ room'[q].asked = room[q].asked
                         /\ room'[q].second = room[q].second
      /\ \A q \in Room \ {At(c)} : room'[q].status = room[q].status
      /\ room'[At(c)].status = "WAITING"
  <2>1. CASE l = "second"
    BY <1>1, <1>2, <2>1 DEF Status
  <2>2. CASE l = "wait"
    <3>1. room' = [room EXCEPT ![At(c)].status = "WAITING"] /\ room \in [Room -> RoomType]
      BY <1>1, <1>2, <2>2 DEF SetStatus, TypeOK
    <3> QED BY <1>1, <3>1 DEF RoomType
  <2> QED BY <2>1, <2>2
<1>5. \A q \in Room : ~Seated(q) /\ ~Seated(q)' /\ (Created(q) => Created(q)')
  BY <1>1, <1>4 DEF MeetInv, Waited, Seated, Created, Asks
<1>6. \A p \in Client : pc[p] \notin {"second", "pair", "rejected"} \cup Seating \cup Sitting
  BY <1>1, <1>5 DEF MeetInv, Waited, Single, Seating, Sitting, InGame
<1>7. \A p \in Client \ {c} : Past(p) => Past(p)'
  BY <1>1, <1>3 DEF Past, Fresh
<1>8. Newcomers' /\ NoReplay' /\ Requests'
  BY <1>1, <1>2, <1>3, <1>6 DEF MeetInv, Newcomers, NoReplay, Requests, Fresh, Asks
<1>9. Creators'
  <2>1. ASSUME NEW p \in Client, At(p)' \in Room PROVE Created(At(p))'
    <3>1. At(p)' = At(p) /\ Created(At(p)) /\ At(p) \in Room
      BY <1>3, <2>1 DEF MeetInv, Creators
    <3> QED BY <1>4, <3>1 DEF Created, Asks
  <2> QED BY <1>1, <1>5, <2>1 DEF MeetInv, Creators, TypeOK
<1>10. Waited'
  <2>1. l = "second" => \A q \in Client \ {c} : Past(q) /\ AtOrOut(q, At(c))
    <3>1. ASSUME l = "second" PROVE \E p \in Client : Past(p) /\ AtOrOut(p, At(c))
      BY <1>1, <1>2, <3>1 DEF Status, MeetInv, Waited
    <3> QED BY <1>1, <3>1, TwoClients
  <2>2. l = "wait" => Past(c)' /\ AtOrOut(c, At(c))'
    BY <1>1, <1>3 DEF Past, Fresh, AtOrOut
  <2>3. ASSUME NEW q \in Room, room'[q].status = "WAITING"
        PROVE  \E p \in Client : Past(p)' /\ AtOrOut(p, q)'
    <3>1. CASE q = At(c) /\ l = "wait"
      BY <1>1, <1>3, <2>2, <3>1 DEF AtOrOut
    <3>2. CASE q # At(c) \/ l # "wait"
      <4>1. room[q].status = "WAITING"
        BY <1>1, <1>2, <1>4, <2>3, <3>2
      <4>2. PICK p \in Client : Past(p) /\ AtOrOut(p, q)
        BY <4>1 DEF MeetInv, Waited
      <4> QED BY <1>1, <1>3, <1>7, <4>2 DEF AtOrOut
    <3> QED BY <3>1, <3>2
  <2>4. ASSUME NEW p \in Client, pc'[p] \in {"second", "pair", "rejected"}, NEW q \in Client \ {p}
        PROVE  Past(q)' /\ AtOrOut(q, At(p))'
    <3>1. p = c /\ l = "second"
      BY <1>3, <1>6, <2>4
    <3> QED BY <1>3, <1>7, <2>1, <2>4, <3>1 DEF AtOrOut
  <2> QED BY <1>5, <2>3, <2>4 DEF Waited
<1>11. Single'
  BY <1>3, <1>4, <1>5, <1>6, <1>2 DEF MeetInv, Single, Seating, Sitting, InGame
<1>12. Seats'
  BY <1>5 DEF Seats
<1> QED BY <1>8, <1>9, <1>10, <1>11, <1>12 DEF MeetInv

LEMMA StartRoomMeet ==
    ASSUME OneGame, IndInv, MeetInv, NEW c \in Client, StartRoom(c) PROVE MeetInv'
<1>0. PICK r \in Room : r = At(c)
  BY Threads, InAction DEF StartRoom
<1>1. /\ c \in Thread /\ TypeOK /\ pc[c] = "pair" /\ ~Past(c) /\ sent[c] # 0
      /\ UNCHANGED <<rooms, frame, remained, sent>>
  BY Threads, InAction, HasSent DEF StartRoom, Past, connVars
<1>2. /\ pc'[c] = "seat2"
      /\ \A u \in Thread \ {c} : pc'[u] = pc[u] \/ (pc[u] = "wait" /\ pc'[u] = "woken")
      /\ \A p \in Client : p \in Thread /\ At(p)' = At(p)
  BY <1>1, Threads, NotifyAllEffect DEF StartRoom, At
<1>3. PICK k \in Color :
        room' = [room EXCEPT ![r].second = c, ![r].color = k, ![r].status = "PLAYING"]
  BY <1>0 DEF StartRoom, Resolved, ResolveColor
<1>4. /\ \A q \in Room : room'[q].first = room[q].first /\ room'[q].asked = room[q].asked
      /\ \A q \in Room \ {r} : room'[q].second = room[q].second /\ room'[q].status = room[q].status
      /\ room'[r].second = c /\ room'[r].status = "PLAYING"
  BY <1>1, <1>3 DEF TypeOK, RoomType
<1>5. \A q \in Room : /\ ~Seated(q)
                      /\ Seated(q)' <=> q = r
                      /\ Created(q) => Created(q)'
  BY <1>1, <1>4, Threads DEF MeetInv, Waited, Seated, Created, Asks
<1>6. \A p \in Client \ {c} : Past(p) /\ Past(p)' /\ AtOrOut(p, r)
  BY <1>0, <1>1, <1>2 DEF MeetInv, Waited, Past, Fresh, AtOrOut
<1>7. \A p \in Client : Past(p)' /\ AtOrOut(p, r)' /\ pc'[p] \notin {"joined", "second", "pair", "rejected"}
  BY <1>0, <1>1, <1>2, <1>6 DEF Past, Fresh, AtOrOut
<1>8. \A p \in Client : pc[p] \notin Seating \cup Sitting
  BY <1>5 DEF MeetInv, Single
<1>9. Newcomers' /\ NoReplay' /\ Requests'
  BY <1>1, <1>2, <1>7 DEF MeetInv, Newcomers, NoReplay, Requests, Fresh
<1>10. Creators'
  <2>1. ASSUME NEW p \in Client, At(p)' \in Room PROVE Created(At(p))'
    <3>1. At(p)' = At(p) /\ Created(At(p)) /\ At(p) \in Room
      BY <1>2, <2>1 DEF MeetInv, Creators
    <3> QED BY <1>4, <3>1 DEF Created, Asks
  <2>2. Created(r)
    BY <1>0 DEF MeetInv, Creators
  <2> QED BY <1>1, <1>5, <2>1, <2>2 DEF MeetInv, Creators, TypeOK
<1>11. Waited'
  <2>1. ASSUME NEW q \in Room, room'[q].status = "WAITING"
        PROVE  \E p \in Client : Past(p)' /\ AtOrOut(p, q)'
    <3>1. PICK p \in Client : Past(p) /\ AtOrOut(p, q)
      BY <1>4, <2>1 DEF MeetInv, Waited
    <3> QED BY <1>2, <1>7, <3>1 DEF AtOrOut
  <2> QED BY <1>5, <1>7, <2>1 DEF Waited
<1>12. Single'
  <2>1. \A q \in Room : room'[q].status \in {"PLAYING", "ENDED"} => Seated(q)'
    BY <1>4, <1>5 DEF MeetInv, Single
  <2>2. \A p \in Client : pc'[p] \in Seating \cup Sitting => At(p)' \in Room /\ Seated(At(p))'
    <3> SUFFICES ASSUME NEW p \in Client, pc'[p] \in Seating \cup Sitting
                 PROVE  At(p)' \in Room /\ Seated(At(p))'
      OBVIOUS
    <3>1. p = c
      BY <1>2, <1>8 DEF Seating, Sitting, InGame
    <3> QED BY <1>0, <1>1, <1>2, <1>4, <3>1, Threads DEF Seated
  <2> QED BY <1>5, <2>1, <2>2 DEF Single
<1>13. Seats'
  <2> SUFFICES ASSUME NEW p \in Client
               PROVE  /\ pc'[p] = "seat2" => p = c
                      /\ pc'[p] \in {"wait", "woken", "seat1"} => p # c
    BY <1>4, <1>5 DEF Seats
  <2> QED BY <1>2, <1>8 DEF Seating
<1> QED BY <1>9, <1>10, <1>11, <1>12, <1>13 DEF MeetInv

\* Two clients come together in one room at most, and their game is the only one.
LEMMA NextMeet == ASSUME OneGame, IndInv, MeetInv, [Next]_vars PROVE MeetInv'
<1>1. ASSUME NEW c \in Client, Disconnect(c) \/ UNCHANGED vars PROVE MeetInv'
  <2>1. UNCHANGED <<rooms, room, pc, frame, remained, sent>>
    BY <1>1 DEF Disconnect, vars, connVars
  <2>2. Others(None) /\ Calm(None)
    BY <2>1, Threads DEF Others, Calm
  <2>3. Keeps(None)
    BY <2>1, RoomsKept
  <2> QED BY <2>2, <2>3, CalmStep
<1>2. CASE \E c \in Client : SpuriousWake(c) \/ Handler(c)
  BY <1>2, SteadyMeet, SpuriousWakeSteady, WaitReadyMeet, WaitingIfIsFirstMeet, RecheckSteady, SecondPlayerSteady,
     ColorConflictSteady, StartRoomMeet, TakeSeatSteady, CheckRoomStatusSteady, SendReadySteady,
     ListenSteady, CommitMoveSteady, ChatSteady, ResignSteady, CloseRoomSteady DEF Handler
<1>3. CASE \E t \in Thread : CleanUp(t)
  BY <1>3, CleanSteady, KillGameSteady, TestSteady, SteadyMeet, JoinDaemonSteady, StartFailedSteady, EraseRoomSteady
     DEF CleanUp
<1>4. CASE \E t \in Admin : ShutdownService(t) \/ PickRoom(t)
  BY <1>4, AdminSteady, SteadyMeet
<1>5. CASE \E r \in Room : Daemon(r)
  BY <1>5, DaemonSteady, SteadyMeet
<1> QED BY <1>1, <1>2, <1>3, <1>4, <1>5, TwoClients DEF Next

LEMMA InitMeet == Init => MeetInv
<1> SUFFICES ASSUME Init PROVE MeetInv
  OBVIOUS
<1>1. /\ \A p \in Client : pc[p] = "idle" /\ frame[p] = NoFrame /\ remained[p] = EOF
      /\ rooms = {} /\ \A r \in Room : room[r] = NewRoom(None, None, "NONE")
  BY Threads DEF Init
<1> QED BY <1>1, Threads, Vocabulary
        DEF MeetInv, Newcomers, NoReplay, Creators, Requests, Waited, Single, Seats,
            NewRoom, NoFrame, Seated, At, Seating, Sitting, InGame

-----------------------------------------------------------------------------
(* Sitting down: what a step may do to the daemon of a room.                 *)

LEMMA Reverses == \A k \in Color : Reverse(k) \in Color /\ Reverse(k) # k /\ Reverse(Reverse(k)) = k
BY DEF Reverse, Color

\* The two players of a room are the two clients, on different sides.
LEMMA Opponents ==
    ASSUME OneGame, IndInv, MeetInv, SeatInv, NEW r \in Room, Paired(r)
    PROVE  /\ Seated(r)
           /\ room[r].first \in Client /\ room[r].second \in Client
           /\ room[r].first # room[r].second
           /\ Client = {room[r].first, room[r].second}
           /\ \A p \in Client : /\ Peer(r, p) \in Client \ {p}
                                /\ Peer(r, Peer(r, p)) = p
                                /\ Seat(r, Peer(r, p)) = Reverse(Seat(r, p))
           /\ \A p \in Client : Seat(r, p) \in Color
<1>1. Seated(r) /\ room[r].first # room[r].second
  BY DEF Paired, Seated
<1>2. room[r].first \in Client
  BY <1>1 DEF MeetInv, Creators, Created
<1>3. room[r].second \in Client
  BY <1>1 DEF Seated, IndInv, TypeOK, RoomType
<1>4. room[r].color \in Color
  BY DEF SeatInv, Suited
<1>5. Client = {room[r].first, room[r].second}
  BY <1>1, <1>2, <1>3, TwoClients
<1>6. \A p \in Client : /\ Peer(r, p) \in Client \ {p}
                        /\ Peer(r, Peer(r, p)) = p
                        /\ Seat(r, Peer(r, p)) = Reverse(Seat(r, p))
                        /\ Seat(r, p) \in Color
  BY <1>1, <1>4, <1>5, Reverses DEF Peer, Seat
<1> QED BY <1>1, <1>2, <1>3, <1>5, <1>6

LEMMA OneSide ==
    ASSUME OneGame, IndInv, MeetInv, SeatInv, NEW r \in Room, Paired(r),
           NEW p \in Client, NEW q \in Client, Seat(r, p) = Seat(r, q)
    PROVE  p = q
BY Opponents, Reverses DEF Seat

\* What a step of t may do to the daemon of a room: nothing where no game was started,
\* and otherwise the listeners stay and only the side of a player is unblocked.
Hears(t) ==
    \A r \in Room :
        /\ ~Seated(r) => game'[r] = game[r]
        /\ Seated(r) => Awake(game'[r])
        /\ game'[r].heard = game[r].heard
        /\ game'[r].pending \subseteq game[r].pending \cup game[r].heard
        /\ \/ game'[r].unblocked = game[r].unblocked
           \/ /\ t \in Client /\ pc[t] \in Sitting
              /\ game'[r].unblocked = game[r].unblocked \cup {frame[t].color}

LEMMA RoomsStay ==
    ASSUME NEW t, Keeps(t), NEW r \in Room
    PROVE  /\ Seated(r)' = Seated(r) /\ Paired(r)' = Paired(r)
           /\ \A p : /\ Seat(r, p)' = Seat(r, p) /\ Peer(r, p)' = Peer(r, p)
                     /\ Ears(r, p)' = Ears(r, p)
BY DEF Keeps, Seated, Paired, Seat, Peer, Ears

\* Who sits has sat before, and on the same side, unless it has just taken its seat.
LEMMA KeepsSeat ==
    ASSUME NEW t, Steady(t), t \in Client => pc[t] \notin Seating, NEW p \in Client,
           pc'[p] \in Sitting
    PROVE  /\ pc[p] \in Sitting
           /\ frame'[p].color = frame[p].color /\ frame'[p].peer = frame[p].peer
<1>1. CASE p = t
  BY <1>1 DEF Steady, Calm
<1>2. CASE p # t
  BY <1>2, Threads DEF Steady, Others, Sitting, InGame
<1> QED BY <1>1, <1>2

LEMMA SeatStep ==
    ASSUME OneGame, IndInv, MeetInv, SeatInv, NEW t, Steady(t),
           t \in Client => pc[t] \notin Seating, Hears(t)
    PROVE  SeatInv'
<1>1. \A r \in Room : /\ Seated(r)' = Seated(r) /\ Paired(r)' = Paired(r)
                      /\ \A p : /\ Seat(r, p)' = Seat(r, p) /\ Peer(r, p)' = Peer(r, p)
                                /\ Ears(r, p)' = Ears(r, p)
  BY RoomsStay DEF Steady
<1>2. Daemons'
  BY <1>1 DEF SeatInv, Daemons, Hears, NewGame, Awake, Asleep
<1>3. Suited'
  BY <1>1 DEF SeatInv, Suited, Wished, Steady, Keeps
<1>4. Facing'
  <2> SUFFICES ASSUME NEW r \in Room, Paired(r), NEW p \in Client
               PROVE  /\ pc'[p] \in Sitting => /\ frame'[p].color = Seat(r, p)
                                               /\ frame'[p].peer = Peer(r, p)
                                               /\ Ears(r, p) \in game'[r].heard
                      /\ Seat(r, p) \in game'[r].unblocked => Ears(r, p) \in game'[r].heard
    BY <1>1 DEF Facing, Sitting, InGame
  <2>1. game'[r].heard = game[r].heard
    BY DEF Hears
  <2>2. pc'[p] \in Sitting => /\ frame'[p].color = Seat(r, p)
                              /\ frame'[p].peer = Peer(r, p)
                              /\ Ears(r, p) \in game'[r].heard
    BY <2>1, KeepsSeat DEF SeatInv, Facing
  <2>3. ASSUME Seat(r, p) \in game'[r].unblocked PROVE Ears(r, p) \in game[r].heard
    <3>1. CASE Seat(r, p) \in game[r].unblocked
      BY <3>1 DEF SeatInv, Facing
    <3>2. CASE t \in Client /\ pc[t] \in Sitting /\ Seat(r, p) = frame[t].color
      <4>1. frame[t].color = Seat(r, t) /\ Ears(r, t) \in game[r].heard
        BY <3>2 DEF SeatInv, Facing
      <4>2. p = t
        BY <3>2, <4>1, OneSide
      <4> QED BY <4>1, <4>2
    <3> QED BY <2>3, <3>1, <3>2 DEF Hears
  <2> QED BY <2>1, <2>2, <2>3
<1>5. Listeners'
  <2> SUFFICES ASSUME NEW r \in Room, Paired(r)
               PROVE  /\ game'[r].pending \subseteq game'[r].heard
                      /\ game'[r].heard \subseteq {Ears(r, p) : p \in Client}
    BY <1>1 DEF Listeners
  <2> QED BY DEF SeatInv, Listeners, Hears
<1> QED BY <1>2, <1>3, <1>4, <1>5 DEF SeatInv

\* A step that leaves every daemon alone.
LEMMA SeatQuiet ==
    ASSUME OneGame, IndInv, MeetInv, SeatInv, NEW t, Steady(t),
           t \in Client => pc[t] \notin Seating, \A r \in Room : game'[r] = game[r]
    PROVE  SeatInv'
<1>1. Hears(t)
  BY DEF Hears, SeatInv, Daemons
<1> QED BY <1>1, SeatStep

\* Before a game is started there is nothing to say.
LEMMA SeatIdle ==
    ASSUME \A r \in Room : ~Seated(r)' /\ game'[r] = NewGame("none")
    PROVE  SeatInv'
<1>1. \A r \in Room : ~Paired(r)'
  BY DEF Paired, Seated
<1> QED BY <1>1 DEF SeatInv, Daemons, Suited, Facing, Listeners

-----------------------------------------------------------------------------
(* Sitting down: the actions.                                                *)

LEMMA QuietHandlerSeat ==
    ASSUME OneGame, IndInv, MeetInv, SeatInv, NEW c \in Client,
           \/ SpuriousWake(c) \/ Recheck(c) \/ SecondPlayer(c) \/ ColorConflict(c)
           \/ CheckRoomStatus(c) \/ Listen(c) \/ Chat(c) \/ Resign(c) \/ CloseRoom(c)
    PROVE  SeatInv'
<1>1. Steady(c)
  BY SpuriousWakeSteady, RecheckSteady, SecondPlayerSteady, ColorConflictSteady,
     CheckRoomStatusSteady, ListenSteady, ChatSteady, ResignSteady, CloseRoomSteady
<1>2. UNCHANGED game
  BY DEF SpuriousWake, Recheck, SecondPlayer, ColorConflict, Reject, CheckRoomStatus, Listen,
         Chat, Resign, CloseRoom, connVars
<1>3. pc[c] \notin Seating
  BY DEF SpuriousWake, Recheck, SecondPlayer, ColorConflict, CheckRoomStatus, Listen, Chat,
         Resign, CloseRoom, Seating
<1> QED BY <1>1, <1>2, <1>3, SeatQuiet

LEMMA QuietCleanUpSeat ==
    ASSUME OneGame, IndInv, MeetInv, SeatInv, NEW t \in Thread,
           TestJoinable(t) \/ TestWaiting(t) \/ StartFailed(t) \/ EraseRoom(t)
    PROVE  SeatInv'
<1>1. Steady(t)
  BY TestSteady, StartFailedSteady, EraseRoomSteady
<1>2. UNCHANGED game
  BY DEF TestJoinable, TestWaiting, StartFailed, EraseRoom, connVars
<1>3. pc[t] \notin Seating
  BY DEF TestJoinable, TestWaiting, StartFailed, EraseRoom, Seating
<1> QED BY <1>1, <1>2, <1>3, SeatQuiet

LEMMA AdminSeat ==
    ASSUME OneGame, IndInv, MeetInv, SeatInv, NEW t \in Admin, ShutdownService(t) \/ PickRoom(t)
    PROVE  SeatInv'
<1>1. Steady(t) /\ t \notin Client
  BY AdminSteady, ConstantsOK
<1>2. UNCHANGED game
  BY DEF ShutdownService, PickRoom, connVars
<1> QED BY <1>1, <1>2, SeatQuiet

\* Nobody takes a step of the service.
LEMMA StillSteady ==
    ASSUME UNCHANGED <<rooms, room, pc, frame, remained, sent>>
    PROVE  Steady(None)
<1>1. Others(None) /\ Calm(None)
  BY Threads DEF Others, Calm
<1>2. Keeps(None)
  BY RoomsKept
<1> QED BY <1>1, <1>2 DEF Steady

\* One room's daemon is changed, the others are left alone.
LEMMA OneDaemon ==
    ASSUME OneGame, IndInv, MeetInv, SeatInv, NEW t, NEW r \in Room, Steady(t),
           t \in Client => pc[t] \notin Seating,
           \A q \in Room \ {r} : game'[q] = game[q],
           Seated(r), Awake(game'[r]),
           game'[r].heard = game[r].heard,
           game'[r].pending \subseteq game[r].pending \cup game[r].heard,
           game'[r].unblocked = game[r].unblocked
    PROVE  SeatInv'
<1>1. Hears(t)
  BY DEF Hears, SeatInv, Daemons
<1> QED BY <1>1, SeatStep

\* A daemon that has not been started does nothing.
LEMMA HasDaemon ==
    ASSUME MeetInv, SeatInv, NEW r \in Room, game[r].daemon # "none"
    PROVE  Seated(r) /\ Awake(game[r])
BY DEF SeatInv, Daemons, NewGame

\* What a daemon does to its room: it is awake from then on.
LEMMA DaemonEffect ==
    ASSUME IndInv, NEW r \in Room, Daemon(r)
    PROVE  /\ \A q \in Room \ {r} : game'[q] = game[q]
           /\ game'[r].heard = game[r].heard
           /\ game'[r].pending \subseteq game[r].pending \cup game[r].heard
           /\ game'[r].unblocked = game[r].unblocked
           /\ game[r].daemon # "none"
           /\ game'[r].daemon \notin Asleep \cup {"lost"}
           /\ game[r].daemon = "setup" => game[r].unblocked = Color
<1>1. game \in [Room -> GameType]
  BY DEF IndInv, TypeOK
<1>2. CASE CreateAgents(r)
  BY <1>1, <1>2 DEF CreateAgents, Asleep, GameType
<1>3. CASE MakeMove(r)
  <2>1. PICK k \in Color :
          /\ game[r].daemon = Moved(k)
          /\ \/ GameOver(r)
             \/ \E d \in Color \cup {"done"} : game' = [game EXCEPT ![r].daemon = d]
    BY <1>3, Reverses DEF MakeMove
  <2>2. game[r].daemon \notin Asleep
    BY <2>1 DEF Moved, Asleep
  <2>3. CASE GameOver(r)
    BY <1>1, <2>2, <2>3 DEF GameOver, Asleep, GameType
  <2>4. CASE \E d \in Color \cup {"done"} : game' = [game EXCEPT ![r].daemon = d]
    BY <1>1, <2>2, <2>4 DEF Asleep, GameType, Color
  <2> QED BY <2>1, <2>3, <2>4
<1>4. CASE NextListener(r)
  <2>1. PICK d \in {"listener", "done"} : game' = [game EXCEPT ![r].daemon = d]
    BY <1>4 DEF NextListener
  <2> QED BY <1>1, <1>4, <2>1 DEF NextListener, Asleep, GameType
<1>5. CASE OnGameEnded(r)
  <2>1. CASE game' = [game EXCEPT ![r].daemon = "done"]
    BY <1>1, <1>5, <2>1 DEF OnGameEnded, Asleep, GameType
  <2>2. CASE \E l : game' = [game EXCEPT ![r].daemon = "over", ![r].pending = @ \ {l}]
    BY <1>1, <1>5, <2>2 DEF OnGameEnded, Asleep, GameType
  <2> QED BY <1>5, <2>1, <2>2 DEF OnGameEnded
<1> QED BY <1>2, <1>3, <1>4, <1>5 DEF Daemon

LEMMA DaemonSeat ==
    ASSUME OneGame, IndInv, MeetInv, SeatInv, NEW r \in Room, Daemon(r)
    PROVE  SeatInv'
<1>1. Steady(None) /\ None \notin Client
  BY DaemonSteady, Threads
<1>2. Seated(r) /\ Awake(game[r])
  BY DaemonEffect, HasDaemon
<1>3. game[r].unblocked = Color
  BY <1>2, DaemonEffect DEF Awake, Asleep
<1>4. Awake(game'[r])
  BY <1>3, DaemonEffect DEF Awake, Asleep
<1> QED BY <1>1, <1>2, <1>4, DaemonEffect, OneDaemon

LEMMA CommitMoveSeat ==
    ASSUME OneGame, IndInv, MeetInv, SeatInv, NEW c \in Client, CommitMove(c)
    PROVE  SeatInv'
<1>1. Steady(c) /\ pc[c] \notin Seating
  BY CommitMoveSteady DEF CommitMove, Seating
<1>2. CASE UNCHANGED game
  BY <1>1, <1>2, SeatQuiet
<1>3. CASE game' = [game EXCEPT ![At(c)].daemon = Moved(@)] /\ game[At(c)].daemon = frame[c].color
  <2>1. PICK r \in Room : r = At(c) /\ Seated(r)
    BY HasSent DEF CommitMove, Sitting, InGame
  <2>2. game \in [Room -> GameType]
    BY DEF IndInv, TypeOK
  <2>0. frame[c].color \in Request
    BY Threads DEF IndInv, TypeOK, FrameType
  <2>3. /\ \A q \in Room \ {r} : game'[q] = game[q]
        /\ game'[r].heard = game[r].heard /\ game'[r].pending = game[r].pending
        /\ game'[r].unblocked = game[r].unblocked /\ game'[r].attached = game[r].attached
        /\ game'[r].daemon \in {"BLACK moved", "WHITE moved"}
    BY <1>3, <2>1, <2>2 DEF GameType, Moved
  <2>4. Awake(game[r]) /\ game[r].daemon \notin Asleep
    BY <1>3, <2>0, <2>1 DEF SeatInv, Daemons, Asleep, Request, Color
  <2>5. Awake(game'[r])
    BY <2>3, <2>4 DEF Awake, Asleep
  <2> QED BY <1>1, <2>1, <2>3, <2>5, OneDaemon
<1> QED BY <1>2, <1>3 DEF CommitMove

LEMMA SendReadySeat ==
    ASSUME OneGame, IndInv, MeetInv, SeatInv, NEW c \in Client, SendReady(c)
    PROVE  SeatInv'
<1>1. Steady(c) /\ pc[c] \notin Seating
  BY SendReadySteady DEF SendReady, Seating
<1>2. CASE UNCHANGED game
  BY <1>1, <1>2, SeatQuiet
<1>3. CASE game' = [game EXCEPT ![At(c)].unblocked = @ \cup {frame[c].color}]
  <2>1. PICK r \in Room : r = At(c) /\ Seated(r)
    BY HasSent DEF SendReady, Sitting
  <2>2. game \in [Room -> GameType] /\ frame[c].color \in Color
    BY Threads, InAction DEF SendReady, TypeOK
  <2>3. /\ \A q \in Room \ {r} : game'[q] = game[q]
        /\ game'[r].heard = game[r].heard /\ game'[r].pending = game[r].pending
        /\ game'[r].unblocked = game[r].unblocked \cup {frame[c].color}
        /\ game'[r].attached = game[r].attached
        /\ game'[r].daemon = game[r].daemon
    BY <1>3, <2>1, <2>2 DEF GameType
  <2>4. Awake(game'[r])
    BY <2>1, <2>2, <2>3 DEF SeatInv, Daemons, Awake
  <2>5. Hears(c)
    BY <2>1, <2>3, <2>4 DEF Hears, SeatInv, Daemons, SendReady, Sitting
  <2> QED BY <1>1, <2>5, SeatStep
<1> QED BY <1>2, <1>3 DEF SendReady

\* A player takes the seat that is its own.
LEMMA TakeSeatSeat ==
    ASSUME OneGame, IndInv, MeetInv, SeatInv, NEW c \in Client, TakeSeat(c)
    PROVE  SeatInv'
<1> DEFINE R == room[At(c)]
           k == IF pc[c] = "seat1" THEN R.color ELSE Reverse(R.color)
           peer == IF pc[c] = "seat1" THEN R.second ELSE R.first
           l == [sock |-> c, color |-> k, peer |-> peer]
<1>1. PICK r \in Room : r = At(c) /\ Seated(r)
  BY HasSent DEF TakeSeat, Seating
<1>2. /\ frame' = [frame EXCEPT ![c].color = k, ![c].peer = peer]
      /\ game' = [game EXCEPT ![At(c)].heard = @ \cup {l}]
      /\ Steady(c)
  BY TakeSeatSteady DEF TakeSeat
<1>3. game \in [Room -> GameType] /\ frame \in [Thread -> FrameType] /\ c \in Thread
  BY Threads DEF IndInv, TypeOK
<1> HIDE DEF k, peer, l
<1>4. /\ \A q \in Room \ {r} : game'[q] = game[q]
      /\ game'[r].heard = game[r].heard \cup {l} /\ game'[r].pending = game[r].pending
      /\ game'[r].unblocked = game[r].unblocked /\ game'[r].attached = game[r].attached
      /\ game'[r].daemon = game[r].daemon
  BY <1>1, <1>2, <1>3 DEF GameType
<1>5. frame'[c].color = k /\ frame'[c].peer = peer
  BY <1>2, <1>3 DEF FrameType
<1>6. Paired(r) => k = Seat(r, c) /\ peer = Peer(r, c) /\ l = Ears(r, c)
  <2> SUFFICES ASSUME Paired(r) PROVE k = Seat(r, c) /\ peer = Peer(r, c)
    BY DEF l, Ears
  <2>1. pc[c] = "seat1" <=> c = room[r].first
    BY Opponents DEF TakeSeat, MeetInv, Seats
  <2> QED BY <1>1, <2>1 DEF k, peer, Seat, Peer
<1>7. \A q \in Room : /\ Seated(q)' = Seated(q) /\ Paired(q)' = Paired(q)
                      /\ \A p : /\ Seat(q, p)' = Seat(q, p) /\ Peer(q, p)' = Peer(q, p)
                                /\ Ears(q, p)' = Ears(q, p)
  BY <1>2, RoomsStay DEF Steady
<1>8. \A q \in Room : Paired(q) => q = r
  BY <1>1, Opponents DEF MeetInv, Single
<1>9. Daemons'
  BY <1>1, <1>4, <1>7 DEF SeatInv, Daemons, NewGame, Awake, Asleep
<1>10. Suited'
  BY <1>2, <1>7 DEF SeatInv, Suited, Wished, Steady, Keeps
<1>11. Facing'
  <2> SUFFICES ASSUME Paired(r), NEW p \in Client
               PROVE  /\ pc'[p] \in Sitting => /\ frame'[p].color = Seat(r, p)
                                               /\ frame'[p].peer = Peer(r, p)
                                               /\ Ears(r, p) \in game'[r].heard
                      /\ Seat(r, p) \in game'[r].unblocked => Ears(r, p) \in game'[r].heard
    BY <1>7, <1>8 DEF Facing, Sitting, InGame
  <2>1. CASE p = c
    BY <1>4, <1>5, <1>6, <2>1 DEF SeatInv, Facing
  <2>2. CASE p # c
    <3>1. pc'[p] \in Sitting => pc[p] \in Sitting /\ frame'[p] = frame[p]
      BY <1>2, <2>2, Threads DEF Steady, Others, Sitting, InGame
    <3> QED BY <1>4, <3>1 DEF SeatInv, Facing
  <2> QED BY <2>1, <2>2
<1>12. Listeners'
  <2> SUFFICES ASSUME Paired(r)
               PROVE  /\ game'[r].pending \subseteq game'[r].heard
                      /\ game'[r].heard \subseteq {Ears(r, p) : p \in Client}
    BY <1>7, <1>8 DEF Listeners
  <2> QED BY <1>4, <1>6 DEF SeatInv, Listeners
<1> QED BY <1>9, <1>10, <1>11, <1>12 DEF SeatInv

LEMMA CleanSeat ==
    ASSUME OneGame, IndInv, MeetInv, SeatInv, NEW t \in Thread, Clean(t)
    PROVE  SeatInv'
<1>1. Steady(t) /\ pc[t] \notin Seating
  BY CleanSteady DEF Clean, Seating
<1>2. CASE UNCHANGED game
  BY <1>1, <1>2, SeatQuiet
<1>3. CASE /\ game[At(t)].daemon # "none"
           /\ game' = [game EXCEPT ![At(t)].attached = FALSE, ![At(t)].killers = @ \cup {t}]
  <2>1. PICK r \in Room : r = At(t)
    BY InAction DEF Clean
  <2>2. game \in [Room -> GameType]
    BY DEF IndInv, TypeOK
  <2>3. Seated(r)
    BY <1>3, <2>1 DEF SeatInv, Daemons, NewGame
  <2>4. /\ \A q \in Room \ {r} : game'[q] = game[q]
        /\ game'[r].heard = game[r].heard /\ game'[r].pending = game[r].pending
        /\ game'[r].unblocked = game[r].unblocked /\ game'[r].daemon = game[r].daemon
        /\ game'[r].attached = FALSE
    BY <1>3, <2>1, <2>2 DEF GameType
  <2>5. Awake(game'[r])
    BY <2>3, <2>4 DEF SeatInv, Daemons, Awake
  <2> QED BY <1>1, <2>3, <2>4, <2>5, OneDaemon
<1> QED BY <1>2, <1>3 DEF Clean

LEMMA KillGameSeat ==
    ASSUME OneGame, IndInv, MeetInv, SeatInv, NEW t \in Thread, KillGame(t)
    PROVE  SeatInv'
<1>1. Steady(t) /\ pc[t] \notin Seating
  BY KillGameSteady DEF KillGame, Seating
<1>2. CASE UNCHANGED game
  BY <1>1, <1>2, SeatQuiet
<1>3. CASE CanKill(At(t)) /\ GameOver(At(t))
  <2>1. PICK r \in Room : r = At(t)
    BY InAction DEF KillGame
  <2>2. game \in [Room -> GameType]
    BY DEF IndInv, TypeOK
  <2>3. game[r].daemon \notin Asleep \cup {"lost"} /\ Seated(r) /\ Awake(game[r])
    BY <1>3, <2>1, HasDaemon DEF CanKill, Color, Asleep
  <2>4. /\ \A q \in Room \ {r} : game'[q] = game[q]
        /\ game'[r].heard = game[r].heard /\ game'[r].pending = game[r].heard
        /\ game'[r].unblocked = game[r].unblocked /\ game'[r].daemon = "over"
    BY <1>3, <2>1, <2>2 DEF GameOver, GameType
  <2>5. Awake(game'[r])
    BY <2>3, <2>4 DEF Awake, Asleep
  <2> QED BY <1>1, <2>3, <2>4, <2>5, OneDaemon
<1> QED BY <1>2, <1>3 DEF KillGame

LEMMA JoinDaemonSeat ==
    ASSUME OneGame, IndInv, MeetInv, SeatInv, NEW t \in Thread, JoinDaemon(t)
    PROVE  SeatInv'
<1>1. Steady(t) /\ pc[t] \notin Seating
  BY JoinDaemonSteady DEF JoinDaemon, Seating
<1>2. CASE UNCHANGED game
  BY <1>1, <1>2, SeatQuiet
<1>3. CASE game[At(t)].daemon \in {"done", "joined"} /\ game' = [game EXCEPT ![At(t)].daemon = "joined"]
  <2>1. PICK r \in Room : r = At(t)
    BY InAction DEF JoinDaemon
  <2>2. game \in [Room -> GameType]
    BY DEF IndInv, TypeOK
  <2>3. game[r].daemon \notin Asleep \cup {"lost"} /\ Seated(r) /\ Awake(game[r])
    BY <1>3, <2>1, HasDaemon DEF Asleep
  <2>4. /\ \A q \in Room \ {r} : game'[q] = game[q]
        /\ game'[r].heard = game[r].heard /\ game'[r].pending = game[r].pending
        /\ game'[r].unblocked = game[r].unblocked /\ game'[r].daemon = "joined"
    BY <1>3, <2>1, <2>2 DEF GameType
  <2>5. Awake(game'[r])
    BY <2>3, <2>4 DEF Awake, Asleep
  <2> QED BY <1>1, <2>3, <2>4, <2>5, OneDaemon
<1> QED BY <1>2, <1>3 DEF JoinDaemon

\* Whoever is on its way into a room finds that no game has been started.
LEMMA NoGameYet ==
    ASSUME MeetInv, SeatInv, NEW c \in Client, ~Past(c)
    PROVE  \A r \in Room : ~Seated(r) /\ ~Paired(r) /\ game[r] = NewGame("none")
BY DEF MeetInv, Waited, SeatInv, Daemons, Seated, Paired

LEMMA WaitReadySeat ==
    ASSUME OneGame, IndInv, MeetInv, SeatInv, NEW c \in Client, WaitReady(c)
    PROVE  SeatInv'
<1>1. ASSUME NEW m \in Input(RoomId), NEW r \in Room, ComesIn(c, m, r) PROVE SeatInv'
  <2>1. \A q \in Room : ~Seated(q) /\ game[q] = NewGame("none")
    BY <1>1, NoGameYet DEF ComesIn, Past
  <2>2. \A q \in Room : ~Seated(q)' /\ game'[q] = NewGame("none")
    <3>1. CASE UNCHANGED <<room, game>>
      BY <2>1, <3>1 DEF Seated
    <3>2. CASE /\ room' = [room EXCEPT ![r] = NewRoom(m.id, c, m.color)]
               /\ game' = [game EXCEPT ![r] = NewGame("none")]
      BY <2>1, <3>2 DEF Seated, NewRoom, IndInv, TypeOK
    <3> QED BY <1>1, <3>1, <3>2 DEF ComesIn, GetOrCreateRoom
  <2> QED BY <2>2, SeatIdle
<1>2. CASE Steady(c) /\ UNCHANGED <<rooms, room, game, out, open>>
  BY <1>2, SeatQuiet DEF WaitReady, Seating
<1> QED BY <1>1, <1>2, WaitReadyCases

LEMMA WaitingIfIsFirstSeat ==
    ASSUME OneGame, IndInv, MeetInv, SeatInv, NEW c \in Client, WaitingIfIsFirst(c)
    PROVE  SeatInv'
<1>1. \A r \in Room : ~Seated(r) /\ game'[r] = NewGame("none")
  BY NoGameYet DEF WaitingIfIsFirst, Past, connVars
<1>2. \A r \in Room : room'[r].second = room[r].second
  <2>1. room \in [Room -> RoomType] /\ At(c) \in Room
    BY Threads, InAction DEF WaitingIfIsFirst, TypeOK
  <2>2. UNCHANGED room \/ room' = [room EXCEPT ![At(c)].status = "WAITING"]
    BY DEF WaitingIfIsFirst, SetStatus
  <2> QED BY <2>1, <2>2 DEF RoomType
<1> QED BY <1>1, <1>2, SeatIdle DEF Seated

LEMMA StartRoomSeat ==
    ASSUME OneGame, IndInv, MeetInv, SeatInv, NEW c \in Client, StartRoom(c)
    PROVE  SeatInv'
<1>0. PICK r \in Room : r = At(c)
  BY Threads, InAction DEF StartRoom
<1>1. TypeOK /\ c \in Thread /\ pc[c] = "pair"
  BY Threads DEF StartRoom, IndInv
<1>2. /\ \A q \in Room : ~Seated(q) /\ game[q] = NewGame("none")
      /\ \A p \in Client : pc[p] \notin Seating \cup Sitting
  BY <1>1, NoGameYet DEF Past, MeetInv, Single
<1>3. PICK k \in Resolved(c) :
        room' = [room EXCEPT ![r].second = c, ![r].color = k, ![r].status = "PLAYING"]
  BY <1>0 DEF StartRoom
<1>4. /\ \A q \in Room \ {r} : room'[q].second = room[q].second
      /\ room'[r].first = room[r].first /\ room'[r].second = c /\ room'[r].color = k
  BY <1>1, <1>3 DEF TypeOK, RoomType
<1>5. game' = [game EXCEPT ![r] = NewGame("setup")]
  <2>1. game[r].daemon = "none"
    BY <1>2 DEF NewGame
  <2> QED BY <1>0, <2>1 DEF StartRoom
<1>6. /\ game'[r] = NewGame("setup") /\ \A q \in Room \ {r} : game'[q] = NewGame("none")
      /\ \A q \in Room : Seated(q)' <=> q = r
      /\ \A q \in Room : Paired(q)' => q = r
  BY <1>1, <1>2, <1>4, <1>5, Threads DEF Seated, Paired, TypeOK
<1>7. \A p \in Client : pc'[p] \notin Sitting
  <2>1. \A u \in Thread : pc'[u] \in {pc[u], "woken", "seat2"}
    BY <1>1, NotifyAllEffect DEF StartRoom
  <2> QED BY <1>2, <2>1, Threads DEF Sitting, InGame
<1>8. Daemons'
  BY <1>6, <1>2 DEF Daemons, NewGame, Awake, Asleep
<1>9. Suited'
  <2> SUFFICES ASSUME Paired(r)'
               PROVE  room'[r].color \in Color /\ \A p \in Client : Wished(p, Seat(r, p)')
    BY <1>6 DEF Suited, Wished
  <2>1. /\ k \in Color
        /\ room[r].asked \in {"NONE", k} /\ frame[c].msg.color \in {"NONE", Reverse(k)}
    BY <1>0 DEF Resolved, ResolveColor
  <2>2. Asks(room[r].first, room[r].asked) /\ room[r].first \in Client
    BY <1>0 DEF MeetInv, Creators, Created
  <2>3. Asks(c, frame[c].msg.color)
    BY <1>1 DEF MeetInv, Requests
  <2>4. Wished(room[r].first, k) /\ Wished(c, Reverse(k))
    BY <2>1, <2>2, <2>3 DEF Asks, Wished
  <2>5. c # room[r].first /\ \A p \in Client : p = c \/ p = room[r].first
    BY <1>4, <2>2, TwoClients DEF Paired
  <2> QED BY <1>4, <2>1, <2>4, <2>5 DEF Seat
<1>10. Facing' /\ Listeners'
  BY <1>6, <1>7 DEF Facing, Listeners, NewGame
<1> QED BY <1>8, <1>9, <1>10 DEF SeatInv

\* The players face each other from the start of their game on.
LEMMA NextSeat == ASSUME OneGame, IndInv, MeetInv, SeatInv, [Next]_vars PROVE SeatInv'
<1>1. ASSUME NEW c \in Client, Disconnect(c) \/ UNCHANGED vars PROVE SeatInv'
  <2>1. UNCHANGED <<rooms, room, game, pc, frame, remained, sent>>
    BY <1>1 DEF Disconnect, vars, connVars
  <2> QED BY <2>1, StillSteady, SeatQuiet, Threads
<1>2. CASE \E c \in Client : SpuriousWake(c) \/ Handler(c)
  BY <1>2, QuietHandlerSeat, WaitReadySeat, WaitingIfIsFirstSeat, StartRoomSeat, TakeSeatSeat,
     SendReadySeat, CommitMoveSeat DEF Handler
<1>3. CASE \E t \in Thread : CleanUp(t)
  BY <1>3, QuietCleanUpSeat, CleanSeat, KillGameSeat, JoinDaemonSeat DEF CleanUp
<1>4. CASE \E t \in Admin : ShutdownService(t) \/ PickRoom(t)
  BY <1>4, AdminSeat
<1>5. CASE \E r \in Room : Daemon(r)
  BY <1>5, DaemonSeat
<1> QED BY <1>1, <1>2, <1>3, <1>4, <1>5, TwoClients DEF Next

LEMMA InitSeat == Init => SeatInv
<1> SUFFICES ASSUME Init PROVE SeatInv
  OBVIOUS
<1>1. \A r \in Room : ~Seated(r) /\ ~Paired(r) /\ game[r] = NewGame("none")
  BY DEF Init, Seated, Paired, NewRoom
<1> QED BY <1>1 DEF SeatInv, Daemons, Suited, Facing, Listeners
=============================================================================
