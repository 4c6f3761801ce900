# surakarta-network in TLA+

Models, model-checking runs and proofs for surakarta-network, the network layer
of a Surakarta game: a server that matches clients into rooms and lets a game
daemon (of the submodule surakarta-core) play out their moves, a remote agent
through which a client's own daemon plays on that server, and a reverse proxy.
Line numbers are those of `src/surakarta_network_service.cpp` unless a file is
named. `PROJECT.json` maps each definition to the lines it models.

## 1. Inventory

| component | state | operations | modelled |
|---|---|---|---|
| Network service (`surakarta_network_service.cpp`) | `rooms` (vector, service mutex); per room: status, two sockets, colours, daemon, daemon thread, two handlers, Room::mutex, a condition variable; per handler thread: its room, colour, peer, message kept for the next iteration | `Execute` (one thread per connection), `GetOrCreateRoom`, `WaitingIfIsFirst`, `StartFailed`, `StartRoom`, the listeners `OnMoveCommitted` and `OnGameEnded`, `Resign`, `ShutdownAndRemoveRoom`, `ShutdownService` | RoomService |
| Message classes (`message.h/.cpp`, `opcode.h`) | none | encode and parse READY, REJECT, MOVE, RESIGN, LEAVE, CHAT, END | Protocol, Codec |
| Exception-as-EOF wrapper | none | `Receive` never throws, `Send` may | RoomService |
| Server program (`server.cpp`) | a flag and a condition variable | SIGINT, then `ShutdownService` on the main thread | partly (RoomService: `Admin`) |
| Remote agent (`surakarta_agent_remote.cpp`) | socket, assigned colour, agent and factory pointing at each other under two mutexes, `remote_game_ended_` | handshake, `CalculateMove`, the daemon's `OnGameEnded` listener, both destructors | RemoteAgent, Session |
| Client program (`client.cpp`, `play.h`) | the local daemon and board | `play()`: connect, choose who moves, run the daemon | RemoteAgent, partly |
| Reverse proxy (`reverse_proxy_service.cpp`) | two sockets, two threads | one pump per direction, joined by `Execute` | ReverseProxy |
| Logging wrappers, exceptions | none | forward and log; which exception ends what | partly (Codec, RemoteAgent) |
| `reverse_proxy.cpp`, `test.cpp` | none of their own, or glue | | see section 8 |
| surakarta-core, network-framework | submodules, not in the repository | | external, from use |

**Interaction.** A handler thread and the daemon thread of its room share the
`Room`, the daemon and two `SurakartaAgentInteractiveHandler`s. The handler
thread gives moves to its handler; the daemon calls back the listeners that the
two handler threads have added. The first player sleeps on the room's condition
variable until the second starts the game or fails to. Threads meet again when a
game ends, is resigned or breaks: one or more of them run
`ShutdownAndRemoveRoom`, which detaches the listeners, makes illegal moves until
the daemon has ended, joins its thread and erases the room. The main thread does
the same to every room in `ShutdownService`. A client program is one thread: its
local daemon asks its own agent and the remote agent in turn, and the remote agent
turns these calls into messages. A proxy connection is two threads that close each
other's sockets.

**What is hard.** Three to five threads per room, two mutexes and unlocked
accesses to the status (118, 141, 154, 388) and to the vector (400-401); locks
held while waiting for a thread that takes them (310, 355); check-then-act over
unlocks (56/224, 138/139, 302/336); messages read in one iteration and used in
another (207, 357); exceptions out of `Send` in every phase. On the client side, a
program that throws at any message it does not expect there, three boards that must
stay one game, and waits without a timeout. The server keeps
nothing on disk, so there is no crash recovery. `PROJECT.json` lists each hazard
at its line.

**What makes it correct.** Registry: one room per number, removed rooms gone.
Matching: two different players, opposite colours that respect both requests,
nobody left waiting. Play: READY, then alternating moves, then one END, the same
for both. Cleanup: one cleaner, a daemon thread joined exactly once before its
room is dropped, no deadlock on Room::mutex, and it ends. Remote agent: no message
that it does not expect, each move sent once, the end reported once, and the game
played to its end. Proxy: each direction is a FIFO that ends when its source ends.
Messages: what is meant is what is read.

## 2. Modules

```
Protocol            messages and colours
  RoomService       the service (state, actions, Spec, FairSpec)
    RoomProperties  invariants, action properties, liveness, statements the code breaks, IndInv
      RoomRefinement    the service implements Match
        RoomGame          one game of two clients: GameInv, JoinInv
          MCRoomService     traffics and symmetry for TLC, one .cfg per run
          RoomMeetProofs    proofs: how two clients meet and take their seats
            RoomGameProofs    proofs: what they are told; IsMatch; daemons are joined
      RoomServiceTypes  proofs: every action keeps the types
        RoomServiceProofs  proofs: IndInv is inductive; the theorems
      Session           the service and the programs of its clients (INSTANCE RemoteAgent)
        SessionProperties  what programs can rely on
          SessionGame       with RoomGame: the boards of two programs (Boards), the server's
                            (Hands), and why neither is surprised (Candid)
            MCSession         who plays, for TLC
            SessionProofs     with RoomGameProofs: a session is a behaviour of the service; the
                              end is reported once; the three boards are one game; no program
                              is surprised
  Match             abstract: what two players are promised
    MatchProofs     proofs: what follows for the players
  RemoteAgent       the program of one client
  Codec             fields to texts and back
    CodecProofs     proofs: the round trips
Channel             abstract: one direction of a proxy
ReverseProxy        two pumps and Execute
  ProxyProperties   invariants, liveness, two channels (INSTANCE Channel)
    ProxyMessages   between two programs that speak with Codec
      MCReverseProxy  with a few messages, for TLC
      ProxyProofs     proofs: the invariant, the refinement, the two ends understand each other
```

Operators called `X_Something`, each beside an operator `X`, are
faulty variants of `X` (a dropped guard, a swapped colour, a missing wakeup).
No specification uses them: put in the place of `X`, each makes the properties
that `PROJECT.json` names fail, which shows that those properties say something.

### RoomService: state

| variable | code |
|---|---|
| `rooms` | the vector, line 99 (a set: only its first match is ever looked for, see UniqueIds) |
| `room[r]` | `struct Room`, 25-43: `id`, `status` (`WAITING` is WAITING_SECOND_PLAYER), `first`/`second` sockets, `asked` = colour of `first_player_message`, `color` = `first_player_color` (the second player's is its reverse); `lock` is the thread that keeps Room::mutex over several steps |
| `game[r]` | the daemon, its thread, the two handlers and the listeners on them. `daemon`: none, setup (waiting for both handlers to be unblocked), the colour to move, a colour that has committed its move, over (ENDED), inside an OnGameEnded listener, done (the thread has finished), joined, lost (the `std::thread` was replaced unjoined). `killers`: the threads whose local `daemon` of line 120 is this one |
| `pc[t]`, `frame[t]` | where a thread is in `Execute`, `ShutdownAndRemoveRoom` or `ShutdownService`, and its locals |
| `remained[t]` | `message_remained_in_last_loop`, 205; `EOF` is nullopt |
| `open`, `sent`, `out` | the connection: the client's end is open, how many messages were received from it, everything sent to it |

### RoomService: actions

One action is what a thread does between two points where another thread can
interfere. A critical section that cannot block is one action, an access without
the lock is an action of its own, and the one critical section that blocks (the
cleaning at 310 and 355) keeps `room[r].lock` until the lock_guard's scope ends.

`WaitReady` 158-215 (a message kept from the last iteration is used before
receiving; `spin` is the loop of 164 on a message that is no READY; "BADREADY" is
a READY whose constructor throws) - `WaitingIfIsFirst`, `Recheck`, `SpuriousWake`
50-65 - `SecondPlayer` 224/270-275 - `ColorConflict` 229-240, one `Reject` for each of the
two sends 235-237 - `StartRoom` 241-269 and 73-95 - `TakeSeat` 276-298 - `CheckRoomStatus` 299-316 - `SendReady`
317-322 - `Listen`, `Dispatch` 342-385 - `CommitMove` 366-370 - `Chat` 379-382 - `Resign`,
`CloseRoom` 324-339 and 387-389 - the daemon's `CreateAgents`, `MakeMove`,
`NextListener` (external) and `OnGameEnded` 290-298 - the cleanup `Clean`,
`KillGame`, `TestJoinable`, `JoinDaemon`, `TestWaiting`, `StartFailed`,
`EraseRoom` 116-156 - `ShutdownService`, `PickRoom` 399-403 - `Disconnect`, the
client closing.

### RoomService as a Match

`Match` is what the two players of a room should see, with no thread in it: each is
told a colour that it may have asked for and the other has not; then moves are told
in turn, BLACK's first; then the end, to both or to the one that is still there; and
who gives up makes the other one the winner, even before that one is told its colour
(ReadyThenEnd is the reason). `RoomRefinement` computes the match from what the two
connections have carried: `color`, `moves`, `ends` and `won` of a player are the
READYs, MOVEs and ENDs in `out`. The match begins once a room has two different
players. `IsMatch` then says that no step of any thread of the service shows the
players anything that a match would not.

### RemoteAgent and Session

`agent[c]` is the one thread of a program: `pc` is `connect` (before the factory's
constructor has sent READY), `handshake` (94), `think` (the program's own agent is
asked), `receive` (the label in CalculateMove), `ended` (in the OnGameEnded listener,
133), and how it ended: `played`, or by an exception `rejected`, `unexpected`, `eof`,
or `crashed`. `own` says that the local board has a move which is not sent yet, which
is what `UpdateAndGetTrace` finds; `moves` counts the moves on the local board;
`remote_game_ended` is the flag of line 53; `reports` counts the calls of
OnRemoteGameEnded. `Connect` 84-93, `Handshake` 94-124, `SendOwnMove` 26-39 and 136-144
(`Sends`: not once the flag is set), `CalculateMove` 40-64 (an END there sets the flag
and leads to the listener by an illegal move), `GameEnded` 133-155 (with the flag set it
has nothing to do; without, it waits for the END, 145-151), `Close`: play() is left, agent,
factory and socket are destroyed; `Crash`: the process is killed (lines of `surakarta_agent_remote.cpp`).

`Session` lets programs play through RoomService. The programs share the connections
with the server: what a handler receives from a program is the next message that the
program has posted (`Honest`, where RoomService alone may receive any message of
`Traffic`), what a program receives is `out`, in order, and then EOF when its handler
has returned. `cast` says who is a program, who may be killed, and after how many
legal moves the game ends; `Rules` makes the daemon of the server agree with that.
Everything else is RoomService unchanged: every session is one of its behaviours,
which SessionProofs proves.

### ReverseProxy

`pump[e]` is where the thread is that receives from end `e`; `input[e]` is all that
the peer at `e` has sent, `read[e]` how much of it was received, `output[e]` what it
was given; `shut[e]` that Close was called on the socket to it; `peer[e]` whether it
is there, has closed, or its link is broken. Receive on a socket that the other pump
has closed gives nullopt or throws, while there may still be messages in it; a Send
to a peer that is gone is lost or throws. `Channel` is one direction: messages come
out in order, and the end is told only after everything, unless the sink is gone.

### Codec

A text is what `stoi`, `ToPosition` and the comparisons of message.cpp can tell of
it: empty, a colour's name, a number, two characters at some distance from 'A' and
'1', or another text. `From...` are the constructors from fields, `To...` those from
a received message, with the exception they throw. `Parse` is the choice by opcode
that LogMessage, the service and the agent make.

### Abstractions and assumptions

* User names, chat texts, reject reasons, squares and move reasons are left out.
  A message is its opcode, with room number and colour where they matter.
* What a client may send is a constant: `Traffic[c]` is a finite sequence of sets
  of messages, one of which is received at a time; end of file comes when the
  client (a member of `Quitters`) has closed.
* surakarta-core and network-framework are read from their use. BLACK moves
  first; the daemon creates its agents when both handlers are unblocked, and only
  then are the listeners of lines 282 and 290 attached to it; a move given out of
  turn is ignored or throws; any move may end the game; `Status()` is ENDED once
  the game is over or the daemon thread has failed.
* A `Send` to a peer that has closed is lost or, if `SendFails`, may throw.
* Undefined behaviour is one of the outcomes a build shows: of two `join()` calls
  on one `std::thread` the later returns or throws; `rooms[0]` of a vector that
  has just become empty aborts; a `std::thread` replaced or destroyed joinable is
  `std::terminate` (`Terminated`, after which nothing happens).
* Unlocked reads and writes of the status are atomic with respect to a critical
  section that does not block. The references the OnGameEnded listener captures
  (290) are taken to be alive, and `RemoveListeners` (122) not to disturb a call
  of the listeners that is under way.
* The END that a listener sends twice to one socket, when its `peer_socket` is its own
  (see NormalGameEnds), is counted once.
* The room objects are finitely many and reused once nothing refers to them.
* In Session, a move that a program sends before the daemon asks for it is kept until
  the daemon does (`Patient`: BLACK may be told READY and move while WHITE's handler is
  not unblocked yet); legal moves are the same on all boards. That a program's Send to
  a server that has closed may throw is left out: the program would then end with
  that exception instead of the EOF that it gets.

## 3. What is checked

No run checks for deadlock: a state in which every client waits for a message or for
a peer is a normal one (and after `Terminated` there is no step at all). Every run
that passes takes less than three minutes with two workers.

| run | instance | properties |
|---|---|---|
| `Duel` | 2 clients; colours BLACK and any; up to three moves, CHAT, LEAVE and RESIGN; one may close; sends may throw (1.2 million states) | NoTerminate, RemovedIsJoined, ColorsAsAsked, WinnerIsSurvivor, EndsAgree, ReadyBeforeMoves, MovesAlternate, GameInv, JoinInv, IsMatch |
| `Crowd` | 3 clients, one room number; equal colours, a second READY, READYs that do not parse | TypeOK, UniqueIds, RemovedUnregistered, NoSelfDeadlock, LockDiscipline |
| `Resign` | 2 clients; a move of either one, in turn or not; one may give up by RESIGN, the other by LEAVE, or chat; one may close; sends may throw; FairSpec (220 thousand states) | MatchedAreAnswered, ClosedIsRemoved, PlayerCanLeave, StayerIsTold |
| `Shutdown` | 3 clients in two rooms, one Admin, FairSpec | ServiceStops |
| `Session` | 2 clients of one room, FairSession: two programs and games of 1 to 3 moves; two programs of which one may be killed at any point, 2 moves; a program against a client that moves, chats and resigns; sends may throw | NoSurprise, InStep, EndReportedOnce, Boards, Hands, Candid, ProgramsFinish, SurvivorEnds |
| `Proxy` | two ends, two messages each way out of three (a READY and a MOVE at the edges of what can be said, and a READY that cannot be parsed), either link may break, FairSpec | InOrder, NothingLost, ProxyInv, Understood, ProxyIsChannels, CloseIsForwarded, ExecuteReturns |

The properties are commented in RoomProperties, RoomRefinement, RoomGame, SessionProperties,
SessionGame, ProxyProperties and ProxyMessages. `Duel` claims that whatever the schedule of the
two handlers, the daemon and a second cleaner, the players see one game; `Crowd`
claims that the registry and Room::mutex survive clients that come and go at any
point, including those that WaitingIfIsFirst lets into a room that is being played in
or cleaned; `Session` that play() works at both ends of a game once it was matched;
`Proxy` that a proxy in between changes nothing.

**Bounds.** Room objects: two. With two clients each thread refers to one room at
most, and a room that is registered under the only number is found instead of
created, so a third object is never needed; for `Crowd` and `Shutdown` a third
object was tried and nothing changes (`Crowd` has the same number of states up to
symmetry). Clients: two are a whole game; three are enough for every pair of roles
in one room (first, second, late comer; two cleaners and a joiner) and the proofs
of section 5 cover any number. Messages: one READY to three per client, which
reaches a move by each side and a third one, a second game, and each way to end;
longer games repeat the states of `game[r].daemon`. The room symmetry of the safety
runs is sound: room objects are interchangeable model values. It is not used in the
liveness runs. `Session` needs one room object: each client sends one READY, and with
two objects every state occurs twice and nothing else. Games of three moves have each
side moving after having received a move; the server's part repeats from there.
`Proxy`: two messages each way are enough for one to be held by a pump while the other
one is still in the socket, or out already. Its messages are the largest room number and the next one, no colour, and two corners of the board;
the theorems of Codec cover all the other fields and sizes.

**Fairness.** `FairSpec` has weak fairness of every handler thread's step that
needs no new message from the client (`UNCHANGED sent`: a client need not send
anything, but end of file is seen), of the cleaning steps of every thread, of
ShutdownService and of every daemon. This is what an operating system that runs
every runnable thread gives; weak fairness of the lock steps is enough because a
lock that is free again and again is not required to be won. Spurious wakeups,
disconnections and messages are not fair. `FairSession` has the same for the server,
with messages of programs, which are received since they are there, and weak fairness
of every program: it goes on whenever it can. Nobody has to be killed. The proxy's
threads are weakly fair, its peers need not send nor leave. `Running` says that nothing is scheduled
after std::terminate.

**Premises.** The `Duel` and `Session` properties speak of rooms with two different
players (`Paired`), because of NormalGameEnds below. SurvivorEnds asks that both
programs have been sent READY: when the Send of READY at line 320 throws because the
client was killed, the exception leaves the handler without closing the room (the try
of line 342 has not begun), and the other program waits for ever. NoSurprise and
InStep speak of two programs: a free client may send a CHAT after its last move, and
the program that waits for END throws (`surakarta_agent_remote.cpp`:145-151).
ExecuteReturns asks that one end closes in order or both links break: after one
broken link nothing tells the other end. ClosedIsRemoved and PlayerCanLeave
ask for both agents unblocked, because of ClosedIsCleaned, and allow for a cleaner that
found the room ENDED and joins a listener that waits for its lock (`Deadlocked`, because
of EndedIsCleaned). StayerIsTold is about a player in its listen loop whose own handler
does not leave that loop: it does when the player gives up too, and when a message of its
own cannot be handled (a move that the agent refuses, a chat to a peer that is gone),
after which the player is told nothing. ServiceStops starts when
the clients are settled: if a game starts after ShutdownAndRemoveRoom has read
`daemon` as null (120), `join` (139) waits for a game that nothing ends. NoTerminate and
RemovedIsJoined hold for two clients that do not come back; with a third client the
overwriting of line 59 lets StartRoom replace an unjoined thread.

## 4. Where the code does not do what it says

Each run checks one sentence of a comment or of the test and finds it broken; the
quotations are in `PROJECT.json`.

| run | shortest story |
|---|---|
| `ReadyThenEnd` | the resigner's thread sends END (333) before the peer's thread sends READY (320) |
| `ClosedIsCleaned` | the peer finds CLOSED at 313 and leaves without unblocking its agent; the kill loop (124) spins for ever |
| `EndedIsCleaned` | the first OnGameEnded listener ends the room; a handler takes Room::mutex, cleans (355) and joins the daemon thread, whose second listener waits for that mutex (291) |
| `NormalGameEnds` | the creator is at 215, the other program passes it and waits first; the creator takes the second seat, and StartRoom wakes the other one (94), which plays with its own socket as the first player. But `first_player_socket`, the creator's `peer_socket` (280), is the creator's own: if its OnGameEnded listener runs first it sends both ENDs to itself and sets ENDED (292-296). The other program, told READY and every move, waits for END and its play() never returns |
| `PlayingIsNotAvailable` | a third client reaches line 59 while a game is on |
| `InvalidIsIgnored` | LEAVE is sent when the room is already closed, is kept (357) and read as the next READY: line 164 loops |

The liveness ones are refuted under `FairSpec`, NormalGameEnds under `FairSession`.
NormalGameEnds is about two programs that ask for no colour, as in test.cpp. A creator
that asks for one and is overtaken conflicts with its own READY instead: it is sent REJECT
twice (236-237), and StartFailed wakes the other client, whose handler removes the room and
tells it nothing.
EndedIsCleaned bites after an ordinary game too: the programs end, and the server
keeps a deadlocked cleaner, daemon and room.

Found on the way, without a sentence in the repository that they contradict: rooms
are erased by number (148), so that with three clients a late cleaner erases the room
that was created since; the agent reports its own colour as the winner
(`surakarta_agent_remote.cpp`:52, 149).

## 5. What is proved

TLAPS proves, for any finite or infinite sets of clients, admins, rooms and room
numbers and any traffic, from `ConstantsOK` alone (clients and admins are
different threads, `None` is none of the others, the traffic consists of messages):

| theorem of RoomServiceProofs | statement |
|---|---|
| `Inductive` | `Spec => []IndInv` |
| `TypeCorrect` | `Spec => []TypeOK` |
| `RegistryUnique` | `Spec => []UniqueIds` |
| `RemovedLeaves` | `Spec => []RemovedUnregistered` |
| `LockKept` | `Spec => []LockDiscipline` |
| `NoRelock` | `Spec => []NoSelfDeadlock` |

The other proof modules:

| theorem | statement | assumes |
|---|---|---|
| `MatchProofs!MatchGuarantee` | `First # Second => (Spec => []MatchInv)` of Match: opposite colours, the survivor wins, alternation, the end told to both | nothing else |
| `ProxyProofs!ProxyInvariant`, `ForwardsInOrder`, `LosesNothing` | `Spec => []ProxyInv`, `[]InOrder`, `[]NothingLost` | `ProxyConstants` |
| `ProxyProofs!Implements` | `Spec => ProxyIsChannels` | `ProxyConstants` |
| `SessionProofs!SessionIsService`, `SessionKeepsRegistry` | `SessionSpec => Spec`, and so `[](UniqueIds /\ NoSelfDeadlock)` | `SessionConstants`, `ConstantsOK` |
| `SessionProofs!ReportsOnce` | `SessionSpec => []EndReportedOnce`, for any number of programs | the same |
| `CodecProofs!CodecRoundTrip`, `CodecSentOn` | `RoundTrip`, `SentOn`: every sent message is read as it was meant, and what was read can be sent on | `CodecConstants` |

`MatchInv` adds to what players care about that a resignation's winner is the reverse
of the resigner's colour (`Survives`), without which SurvivorWins is not inductive.
`ProxyInv` adds `InFlight` (what a working pump owes its sink: nothing, or the message
it holds) and `Excused` (a pump that has finished had its peer close, or the other
pump close its socket, and some peer has closed in order). From `Excused`, NothingLost:
a direction cut off by the other pump has a sink that has left.

EndReportedOnce compares a program's reports with the ENDs it has read, which a server
that tells a game's end and a resignation's may send twice. A program reads an END in two
places, in CalculateMove (48-54) and in its listener (145-151), and what keeps it from
reading the second one there is the flag. `ReportInv` ties the two together: a program
that is playing has reported nothing until the flag is set, and once it is set it has
reported one END and has only its listener before it. The count of ENDs comes from what
it has `taken`, which `Boards` bounds by what it was sent.

None of the last five theorems of RoomServiceProofs is inductive by itself. `IndInv` is their
conjunction, which `Crowd` checks part by part (NoSelfDeadlock follows from it); it adds `InRoom` (a thread
that is past GetOrCreateRoom refers to a room object, so that the updates through
`At(t)` are updates of a room), and `Colored` (a room that is or was PLAYING has a
colour, which a thread on its way to its seat reads without the lock and then
sends): types of messages depend on it. UniqueIds needs that a room object is
initialised only when no thread and no vector entry refers to it; RemovedUnregistered
needs UniqueIds' companion fact that the eraser's own room has the number it erases;
NoSelfDeadlock follows from LockDiscipline: a thread that holds the mutex while it
cleans can read no WAITING, since a room stays CLOSED or REMOVED while it is locked.

The proof has three layers. RoomServiceTypes shows that each action keeps the types
(helpers first, then one lemma per action). RoomServiceProofs reduces the invariant
to what a step of thread `t` has to respect: `Others(t)` (other threads stay or are
woken), `Arrives(t)` (where `t` gets), `Respects(t)` (what happens to rooms), lemma
`StepInv`; then one lemma per action shows these three. The theorems combine them
with `PTL`.

### One game of two clients

RoomGameProofs is about the instance that `Duel` is one of: `OneGame` says that there
are two clients and that each sends READY as its first message or never. Everything
else is arbitrary: the colours and room numbers they ask for, how many messages of the
game follow, who disconnects when, which sends throw, how many room objects there are,
and who calls ShutdownService when. (MCRoomService assumes `DuelIsOneGame`, which TLC
evaluates.) The premise is the one under which the properties are true: with a second
READY or a third client the overwriting of line 59 (PlayingIsNotAvailable) can start a
second game in a room that is still played in. The three joining theorems also ask for
`Admin = {}`: with it TLC finds ShutdownService passing the join (138) just before the
second player starts the game, and removing the room while the daemon runs; or taking
`rooms[0]` of a vector that a player has just emptied (400-401).

| theorem of RoomGameProofs | statement | premise |
|---|---|---|
| `GameInductive` | `Spec => []GameInv` | OneGame |
| `ColorsRespected` | `Spec => []ColorsAsAsked` | OneGame |
| `SurvivorIsWinner` | `Spec => []WinnerIsSurvivor` | OneGame |
| `EndToldOnce` | `Spec => []EndsAgree` | OneGame |
| `ReadyFirst` | `Spec => []ReadyBeforeMoves` | OneGame |
| `TurnsAlternate` | `Spec => []MovesAlternate` | OneGame |
| `ServiceIsMatch` | `Spec => IsMatch` | OneGame |
| `JoinInductive` | `Spec => []JoinInv` | OneGame, `Admin = {}` |
| `RemovedAreJoined` | `Spec => []RemovedIsJoined` | OneGame, `Admin = {}` |
| `NeverTerminates` | `Spec => []NoTerminate` | OneGame, `Admin = {}` |

The invariant is proved in four layers, each of which uses the ones before it and is
kept by every step of every thread. `Duel` checks them too.

1. `MeetInv`, how the two come together. The core is `Waited`: only a client that has
   gone past the start of a game (`Past`) makes a room WAITING, so the one that finds
   it WAITING is the last one on its way, and once a game is started (`Seated`) nobody
   else will come into any room. Hence at most one game is started (`Single`), between
   the clients that the room names (`Creators`, `Seats`), and no READY is replayed
   through `remained` (`NoReplay`). A creator may still be overtaken and take the second seat of a
   room whose `first_player_socket` is its own (NormalGameEnds); such a room is Seated but
   not Paired.
2. `SeatInv`, where they sit. There is a daemon exactly where a game was started; each
   player carries its own colour and the other one's socket (`Facing`), so that the two
   listeners that it adds are the right ones (`Listeners`), and they are added before
   its agent is unblocked.
3. `ToldInv`, what they are told: only READY of their own colour and END naming their
   own colour (`Colours`), the daemon's turn against the number of moves in the two
   connections (`Turns`), and no END of a game that can still be told (`Endings`,
   `InPlay`).
4. `JoinInv`, what is joined: while anybody is still on its way nobody cleans
   (`Meeting`), so that every cleaner sees the daemon that there is; a room leaves the
   registry, or passes the tests after the join, only when its daemon has been joined.

In each layer a lemma says what a step of thread `t` has to respect (`Steady`, `Hears`,
`Tells`, `Joins`), and one lemma per action shows that it does. ServiceIsMatch takes
`GameInv` before and after a step (`GameSoFar`, `Seen`) and maps each action to a
stutter or to the step of Match that it shows the players: StartRoom begins the match,
SendReady and Resign tell, MakeMove and OnGameEnded move and end it.

`EndsUnderstand` (ProxyProofs) is `Spec => []Understood` of the proxy under `Speaks`:
each message that an end sends is the encoding of a value that Codec can send, or a
READY with a number that no int holds. It combines `InOrder` and `CodecRoundTrip`.

### The boards of two programs

SessionProofs is about Session with any set of programs and free clients, any of which
may be killed, and any length of the games; `BoardsAgree` is about two programs.

| theorem of SessionProofs | statement | premise |
|---|---|---|
| `MovesComeFromPlayers` | `Spec => []Hands` | OneGame |
| `BoardsInductive` | `SessionSpec => []Boards` | `SessionConstants` |
| `BoardsAgree` | `SessionSpec => []InStep` | OneGame, `SessionConstants` |

InStep compares three boards that have no common step: the two programs' and the
server's. What ties them together is two invariants, one of each side.

* `Boards`, of one program alone: how many of the moves on its board are its own
  (`Own`: those it has posted, and the one that waits to be sent) and how many the
  opponent's (`Theirs`). They alternate; where the program is says whose turn it is
  (`Lead`); the opponent's are no more than the MOVEs it has received (`Heard`), and all
  of them while it still plays; its handler has received no message that it has not sent.
  Nothing is said of the server, so that it is kept by each program's steps and, except
  for `sent` and `out`, by all others.
* `Hands`, of the server alone: what the daemon has told the opponent, the move that it
  is about to tell and the one that waits for the daemon are no more than what the
  player's handler has received after READY (`InHand`). It uses GameInv (who sits
  where, whose listener tells whom) and holds for any clients, so it is proved of
  RoomService and carried to Session by SessionIsService.

With w WHITE, b BLACK and `Count(p)` the moves that p was told, the lemmas give

    Own(w) <= Theirs(w) <= Count(w) <= Own(b) <= Theirs(b) + 1 <= Count(b) + 1 <= Own(w) + 1

in which the first and fourth step are the alternation on one board, the second and
fifth what was received, the third and last `Hands` with what was posted. So each board
is within a move of the others, the server's included; and if both programs thought,
the two ends would be equal where `Lead` makes them differ.

### No program is surprised

| theorem of SessionProofs | statement | premise |
|---|---|---|
| `CandidInductive` | `SessionSpec => []Candid` | OneGame, `Admin = {}`, `SessionConstants` |
| `ProgramsNotSurprised` | `SessionSpec => []NoSurprise` | the same |

A program throws when the next message, or the end of its connection, does not fit
where it is. So NoSurprise is about every reason for which the server may stop a game,
drop a player or tell something early. (`Admin = {}`, because ShutdownService does stop
games.) `Candid` says, of two programs:

* `Letters`: they post READY and moves, and leave the game only by closing.
* `Meetings`: a REJECT is told when no game can be started any more, for everybody is past
  the start of one or being rejected (`Dismissed`); a room is WAITING only while its creator sleeps in it, so that
  WaitingIfIsFirst matches the next one; before a game only a rejected or dropped
  program fails.
* `Reading`: a program reads its colour first, and no END while it plays on (`PlaysOn`: before the flag).
* `ReadyOnce`: READY is told once.
* `StillOn`, the core: until everybody who has not left has been told the end, the game is
  `On`: the room is PLAYING, no handler cleans or returns except for a player that has
  left, and the daemon has decided nothing (`Decided`) unless all moves of the game are
  made or it could not tell the opponent one (`Untold`).
* `Undisturbed`: if nobody may be killed, nobody leaves before the END, and each
  connection begins with READY.

`StillOn` is inductive because a handler that has a move in hand has one that the daemon
waits for: with `Hands`, the chain of inequalities above leaves no room for a further
move on a full board, nor beside an `Untold` one (lemma `MoveInHand`). So CommitMove
never finds a game that is decided, and no handler goes on to clean until a listener, or
a peer that resigns for a player that has left, has informed the last one
(`ResignInforms`, `OnGameEndedOn`). The same chain shows that a program with a full
board is told no more moves (`NoMoveLeft`): what it gets there is END. An EOF means that
the handler has returned, which `On` allows only for who has left.

The premises are those of the model: legal moves are the same on all boards (`Rules`)
and a move that arrives before the daemon asks for it is kept (`Patient`).

### What is only model-checked

The liveness properties (MatchedAreAnswered, ClosedIsRemoved, PlayerCanLeave, StayerIsTold,
ServiceStops, ProgramsFinish, SurvivorEnds, CloseIsForwarded, ExecuteReturns): fairness and
ENABLED are outside the prover's reach. Every safety invariant and every refinement that a
passing run checks is also a theorem.

## 6. Plan

All modules, runs and theorems of the plan are done. What could be added lies outside
what is proved today: games with ShutdownService at work (section 5 says what it breaks),
and clients that come back with a second READY or a third client, under which
PlayingIsNotAvailable happens.

## 7. Running it

`tlc -config Duel.cfg MCRoomService.tla`; `Session.cfg` and `NormalGameEnds.cfg` belong
to MCSession, `Proxy.cfg` to MCReverseProxy, the others to MCRoomService. `tlapm` on
each module called ...Proofs and on RoomServiceTypes (seconds to five minutes each from
nothing).

## 8. Not modelled

* Agent and factory of a remote agent point at each other under two mutexes, which
  their destructors take in opposite orders, and neither pointer is initialised by a
  constructor. In play() one thread creates the factory, lets the daemon create the
  agent, and destroys the agent first, so that neither can be observed; a program that
  used them from two threads is not in the repository.
* The texts of the logs and of the exceptions. That a wrapper logs and forwards is in
  the model where it matters (the proxy forwards what does not parse).
* Argument parsing in `client.cpp`, `server.cpp` and `reverse_proxy.cpp`, the display of
  boards and the return value of play(), signal handlers.
* `test.cpp` is a test: its normal game is the instance of `Session`, two of its other
  clients are the traffic of `ReadyThenEnd` and `ClosedIsCleaned`.
* `Server::Shutdown`, the acceptance of connections and TCP itself belong to
  network-framework; the search for moves and the rules of the game to surakarta-core.
