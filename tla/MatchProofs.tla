----------------------------- MODULE MatchProofs -----------------------------
(***************************************************************************)
(* What a match guarantees to any two players: MatchInv is inductive.  With  *)
(* RoomRefinement!IsMatch it is what RoomService guarantees to two clients.  *)
(***************************************************************************)
EXTENDS Match, TLAPS

\* Whether an odd number of moves has been told is the lead of WHITE over BLACK.
THEOREM Parity ==
    ASSUME NEW n \in Nat, NEW k \in Nat, n - k \in {0, 1}
    PROVE  (n + k) % 2 = n - k
<1>1. CASE n = k
  <2>1. (k + k) % 2 = 0
    OBVIOUS
  <2>2. QED
    BY <1>1, <2>1
<1>2. CASE n = k + 1
  <2>1. (k + 1 + k) % 2 = 1
    OBVIOUS
  <2>2. QED
    BY <1>2, <2>1
<1>3. QED
    BY <1>1, <1>2

\* Two different players are each other's rivals.
THEOREM Rivals ==
    ASSUME First # Second, NEW p \in Player
    PROVE  /\ Rival(p) \in Player
           /\ Rival(p) # p
           /\ Rival(Rival(p)) = p
           /\ Player = {p, Rival(p)}
BY DEF Player, Rival

\* The colours: two of them, neither of which is "NONE".
THEOREM Colors ==
    /\ \A k \in Color : Reverse(k) \in Color /\ Reverse(k) # k /\ Reverse(Reverse(k)) = k
    /\ \A k \in Color : k # "NONE"
    /\ \A k, m \in Color : k # m => m = Reverse(k)
    /\ Request = Color \cup {"NONE"}
BY DEF Color, Reverse, Request

\* Before the match nothing has been told.
THEOREM InitMatch == Init => MatchInv
BY DEF Init, MatchInv, MatchTypeOK, Opposite, SurvivorWins, Survives, Alternate, EndsTogether,
       Started, Player, Request

\* Telling p its colour k.
THEOREM ReadyKeeps ==
    ASSUME First # Second, MatchInv, NEW p \in Player, NEW k \in Color, Ready(p, k)
    PROVE  MatchInv'
<1> USE DEF MatchInv
<1>1. /\ Rival(p) \in Player
      /\ Rival(p) # p
      /\ Rival(Rival(p)) = p
      /\ Player = {p, Rival(p)}
    BY Rivals
<1>2. /\ color'[p] = k
      /\ color'[Rival(p)] = color[Rival(p)]
      /\ color[p] = "NONE"
    BY <1>1 DEF Ready, MatchTypeOK
<1>3. UNCHANGED <<moves, ends, won, gone>>
    BY DEF Ready
<1>4. ~Started /\ (Started' => color[Rival(p)] = Reverse(k))
    BY <1>1, <1>2, Colors DEF Started, Ready
<1>5. MatchTypeOK'
    BY <1>3, Colors DEF MatchTypeOK, Ready
<1>6. Opposite'
    BY <1>1, <1>2, <1>4, Colors DEF Opposite, Rival, Player
<1>7. SurvivorWins' /\ Survives'
    BY <1>1, <1>2, <1>3, Colors DEF SurvivorWins, Survives, Ready, MatchTypeOK
<1>8. Alternate'
    BY <1>1, <1>2, <1>3, <1>4 DEF Alternate
<1>9. EndsTogether'
    BY <1>1, <1>3, <1>4 DEF EndsTogether, MatchTypeOK
<1>10. QED
    BY <1>5, <1>6, <1>7, <1>8, <1>9

\* Telling p a move of the other player.
THEOREM MoveKeeps ==
    ASSUME First # Second, MatchInv, NEW p \in Player, Move(p)
    PROVE  MatchInv'
<1> USE DEF MatchInv
<1>1. /\ Rival(p) \in Player
      /\ Rival(p) # p
      /\ Rival(Rival(p)) = p
      /\ Player = {p, Rival(p)}
    BY Rivals
<1>2. Started /\ color[p] = Reverse(Turn)
    BY DEF Move, Running
<1>3. UNCHANGED <<color, ends, won, gone>>
    BY DEF Move
<1>4. /\ moves \in [Player -> Nat]
      /\ moves'[p] = moves[p] + 1
      /\ moves'[Rival(p)] = moves[Rival(p)]
    BY <1>1 DEF Move, MatchTypeOK
<1>5. MatchTypeOK'
    BY <1>3 DEF MatchTypeOK, Move
<1>6. Opposite' /\ SurvivorWins' /\ Survives' /\ EndsTogether'
    BY <1>3 DEF Opposite, SurvivorWins, Survives, EndsTogether, Started
<1>7. moves[First] + moves[Second] = moves[p] + moves[Rival(p)]
    BY <1>4, <1>1 DEF Rival, Player
<1>8. CASE color[p] = "WHITE"
  <2>1. moves[p] - moves[Rival(p)] \in {0, 1} /\ color[Rival(p)] # "WHITE"
    <3>1. moves[p] - moves[Rival(p)] \in {0, 1}
        BY <1>2, <1>8 DEF Alternate
    <3>2. color[Rival(p)] # "WHITE"
        BY <1>1, <1>2, <1>8 DEF Opposite, Reverse, Player, Rival
    <3>3. QED
        BY <3>1, <3>2
  <2>2. (moves[p] + moves[Rival(p)]) % 2 = 0
    BY <1>2, <1>7, <1>8 DEF Turn, Reverse
  <2>3. moves[p] = moves[Rival(p)]
    BY <1>1, <1>4, <2>1, <2>2, Parity
  <2>4. moves'[p] - moves'[Rival(p)] = 1
    BY <1>1, <1>4, <2>3
  <2>5. Alternate'
    BY <1>1, <1>2, <1>3, <2>1, <2>4 DEF Alternate, Started
  <2>6. QED
    BY <1>5, <1>6, <2>5
<1>9. CASE color[p] # "WHITE"
  <2>1. color[p] = "BLACK" /\ color[Rival(p)] = "WHITE"
    <3>1. color[p] = "BLACK"
        BY <1>2, <1>9 DEF Reverse
    <3>2. color[Rival(p)] = "WHITE"
        BY <1>1, <1>2, <3>1 DEF Opposite, Reverse, Player, Rival, MatchTypeOK, Request, Color, Started
    <3>3. QED
        BY <3>1, <3>2
  <2>2. (moves[Rival(p)] + moves[p]) % 2 # 0
    BY <1>1, <1>2, <1>4, <1>7, <1>9 DEF Turn, Reverse
  <2>3. moves[Rival(p)] - moves[p] \in {0, 1}
    BY <1>1, <1>2, <2>1 DEF Alternate
  <2>4. moves[Rival(p)] = moves[p] + 1
    BY <1>1, <1>4, <2>2, <2>3, Parity
  <2>5. moves'[Rival(p)] - moves'[p] = 0
    BY <1>1, <1>4, <2>4
  <2>6. Alternate'
    BY <1>1, <1>2, <1>3, <2>1, <2>5 DEF Alternate, Started
  <2>7. QED
    BY <1>5, <1>6, <2>6
<1>10. QED
    BY <1>8, <1>9

\* Telling the end of the game.
THEOREM FinishKeeps ==
    ASSUME First # Second, MatchInv, Finish
    PROVE  MatchInv'
<1> USE DEF MatchInv
<1>1. Started /\ UNCHANGED <<color, moves, won, gone>>
    BY DEF Finish, Running
<1>2. PICK S \in {Player} \cup {{p} : p \in {q \in Player : Rival(q) \in gone}} :
        ends' = [p \in Player |-> IF p \in S THEN 1 ELSE 0]
    BY DEF Finish
<1>3. ASSUME NEW p \in Player, ends'[p] = 1
      PROVE  ends'[Rival(p)] = 1 \/ Rival(p) \in gone
  <2>1. p \in S /\ Rival(p) \in Player
    BY <1>2, <1>3, Rivals
  <2>2. CASE S = Player
    BY <1>2, <2>1, <2>2
  <2>3. CASE S # Player
    BY <1>2, <2>1, <2>3
  <2>4. QED
    BY <2>2, <2>3
<1>4. EndsTogether'
    BY <1>1, <1>3 DEF EndsTogether, Started
<1>5. MatchTypeOK'
    BY <1>1, <1>2 DEF MatchTypeOK
<1>6. Opposite' /\ SurvivorWins' /\ Survives' /\ Alternate'
    BY <1>1 DEF Opposite, SurvivorWins, Survives, Alternate, Started
<1>7. QED
    BY <1>4, <1>5, <1>6

\* Telling the other player that p has given up.
THEOREM ResignKeeps ==
    ASSUME First # Second, MatchInv, NEW p \in Player, Resign(p)
    PROVE  MatchInv'
<1> USE DEF MatchInv
<1>1. /\ Rival(p) \in Player
      /\ Rival(p) # p
      /\ Rival(Rival(p)) = p
      /\ Player = {p, Rival(p)}
    BY Rivals
<1>2. UNCHANGED <<color, moves, ends, gone>>
    BY DEF Resign
<1>3. /\ won'[Rival(p)] = Reverse(color[p])
      /\ won'[p] = won[p]
      /\ color[p] \in Color
    BY <1>1 DEF Resign, MatchTypeOK, Request
<1>4. MatchTypeOK'
    BY <1>2, <1>3, Colors DEF MatchTypeOK, Resign
<1>5. color[Rival(p)] # "NONE" => color[Rival(p)] = Reverse(color[p])
    BY <1>1, <1>3, Colors DEF Opposite, Started, Player, Rival, MatchTypeOK
<1>6. SurvivorWins'
    BY <1>1, <1>2, <1>3, <1>5 DEF SurvivorWins
<1>7. Survives'
    BY <1>1, <1>2, <1>3, Colors DEF Survives
<1>8. Opposite' /\ Alternate' /\ EndsTogether'
    BY <1>2 DEF Opposite, Alternate, EndsTogether, Started
<1>9. QED
    BY <1>4, <1>6, <1>7, <1>8

\* The colours are opposite, the survivor wins, the moves alternate and the end is
\* told to both players, in every match of any two players.
THEOREM MatchGuarantee == First # Second => (Spec => []MatchInv)
<1> SUFFICES ASSUME First # Second PROVE Spec => []MatchInv
    OBVIOUS
<1>1. MatchInv /\ [Next]_vars => MatchInv'
  <2> SUFFICES ASSUME MatchInv, [Next]_vars PROVE MatchInv'
    OBVIOUS
  <2>1. ASSUME NEW p \in Player, Move(p) PROVE MatchInv'
    BY <2>1, MoveKeeps
  <2>2. ASSUME NEW p \in Player, Resign(p) PROVE MatchInv'
    BY <2>2, ResignKeeps
  <2>3. ASSUME NEW p \in Player, Leave(p) PROVE MatchInv'
    BY <2>3 DEF Leave, MatchInv, MatchTypeOK, Opposite, SurvivorWins, Survives, Alternate,
                EndsTogether, Started
  <2>4. ASSUME NEW p \in Player, NEW k \in Color, Ready(p, k) PROVE MatchInv'
    BY <2>4, ReadyKeeps
  <2>5. CASE Finish
    BY <2>5, FinishKeeps
  <2>6. CASE UNCHANGED vars
    BY <2>6 DEF vars, MatchInv, MatchTypeOK, Opposite, SurvivorWins, Survives, Alternate,
                EndsTogether, Started
  <2>7. QED
    BY <2>1, <2>2, <2>3, <2>4, <2>5, <2>6 DEF Next
<1>2. QED
    BY InitMatch, <1>1, PTL DEF Spec
=============================================================================
