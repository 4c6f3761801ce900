----------------------------- MODULE ProxyProofs -----------------------------
(***************************************************************************)
(* Proofs about the reverse proxy, for any set of messages and any number   *)
(* of them: ProxyInv is inductive, and each direction implements Channel;   *)
(* and the two ends understand each other through it, if they use Codec.    *)
(***************************************************************************)
EXTENDS ProxyMessages, CodecProofs

\* The two ends are each other's other end.
LEMMA Ends ==
    /\ "client" \in End /\ "server" \in End
    /\ Other("client") = "server" /\ Other("server") = "client"
    /\ \A e \in End : Other(e) \in End /\ Other(e) # e /\ Other(Other(e)) = e
    /\ \A e, p \in End : p = e \/ p = Other(e)
BY DEF End, Other

\* Nothing has happened yet: ReverseProxyService::Execute has just been entered.
LEMMA InitInv == Init => ProxyInv
<1> SUFFICES ASSUME Init PROVE ProxyInv
    OBVIOUS
<1> USE Ends DEF Init
<1>1. ProxyTypeOK
    BY DEF ProxyTypeOK
<1>2. InOrder
    BY DEF InOrder
<1>3. NothingLost /\ InFlight /\ Excused /\ Unstarted
    BY DEF NothingLost, InFlight, Excused, Finished, Unstarted
<1>4. QED
    BY <1>1, <1>2, <1>3 DEF ProxyInv

-----------------------------------------------------------------------------
(* The steps of the peers.                                                  *)

\* A peer that sends is open, so its pump has not finished in order for want of
\* messages, and what it adds comes after everything that has been read.
LEMMA SendsInv ==
    ASSUME ProxyInv, NEW e \in End, PeerSends(e) PROVE ProxyInv'
<1> USE Ends
<1>1. PICK m \in Message : input' = [input EXCEPT ![e] = Append(@, m)]
    BY DEF PeerSends
<1>2. UNCHANGED <<read, output, peer, shut, pump, service>> /\ peer[e] = "open"
    BY DEF PeerSends
<1>3. ProxyTypeOK /\ InOrder /\ NothingLost /\ InFlight /\ Excused /\ Unstarted
    BY DEF ProxyInv
<1>4. /\ Len(input'[e]) = Len(input[e]) + 1
      /\ \A i \in 1 .. Len(input[e]) : input'[e][i] = input[e][i]
      /\ input[e] \in Seq(Message) /\ input'[e] \in Seq(Message)
      /\ input'[Other(e)] = input[Other(e)]
    BY <1>1, <1>3 DEF ProxyTypeOK
<1>5. ProxyTypeOK'
    BY <1>1, <1>2, <1>3 DEF ProxyTypeOK
<1>6. InOrder'
  <2>1. \A p \in End : Len(input[p]) \in Nat /\ read[p] \in Nat /\ Len(output[Other(p)]) \in Nat
        BY <1>3 DEF ProxyTypeOK
  <2>2. ASSUME NEW p \in End
        PROVE  /\ Len(output[Other(p)]) <= read[p]
               /\ read[p] <= Len(input'[p])
               /\ \A i \in 1 .. Len(output[Other(p)]) : output[Other(p)][i] = input'[p][i]
    <3>1. CASE p = e
        BY <3>1, <2>1, <1>3, <1>4 DEF InOrder
    <3>2. CASE p = Other(e)
        BY <3>2, <1>3, <1>4 DEF InOrder
    <3>3. QED
        BY <3>1, <3>2
  <2>3. QED
        BY <2>2, <1>2 DEF InOrder
<1>7. NothingLost'
  <2>1. ASSUME NEW p \in End, Finished(p), peer[Other(p)] = "open"
        PROVE  p # e /\ output[Other(p)] = input[p]
        BY <2>1, <1>2, <1>3 DEF NothingLost, Excused
  <2>2. QED
        BY <2>1, <1>2, <1>4 DEF NothingLost, Finished
<1>8. InFlight' /\ Excused' /\ Unstarted'
    BY <1>2, <1>3 DEF InFlight, Excused, Finished, Unstarted
<1>9. QED
    BY <1>5, <1>6, <1>7, <1>8 DEF ProxyInv

\* A peer that leaves only weakens what is owed to it.
LEMMA LeavesInv ==
    ASSUME ProxyInv, NEW e \in End, PeerLeaves(e) PROVE ProxyInv'
<1> USE Ends
<1>1. PICK s \in {"closed", "broken"} : peer' = [peer EXCEPT ![e] = s]
    BY DEF PeerLeaves
<1>2. UNCHANGED <<input, read, output, shut, pump, service>> /\ peer[e] = "open"
    BY DEF PeerLeaves
<1>3. ProxyTypeOK /\ InOrder /\ NothingLost /\ InFlight /\ Excused /\ Unstarted
    BY DEF ProxyInv
<1>4. \A p \in End : peer'[p] = "open" => peer[p] = "open"
    BY <1>1, <1>3 DEF ProxyTypeOK
<1>5. \A p \in End : peer[p] = "closed" => peer'[p] = "closed"
    BY <1>1, <1>2, <1>3 DEF ProxyTypeOK
<1>6. ProxyTypeOK'
    BY <1>1, <1>2, <1>3 DEF ProxyTypeOK
<1>7. InOrder' /\ NothingLost' /\ InFlight' /\ Unstarted'
    BY <1>2, <1>3, <1>4 DEF InOrder, NothingLost, InFlight, Finished, Unstarted
<1>8. Excused'
    BY <1>2, <1>3, <1>5 DEF Excused, Finished
<1>9. QED
    BY <1>6, <1>7, <1>8 DEF ProxyInv

-----------------------------------------------------------------------------
(* The steps of the pumps.                                                  *)

\* A message is received, or nullopt: then the peer has closed and all has been
\* read, or the other pump has closed this socket and so its own peer has closed.
LEMMA ReceiveInv ==
    ASSUME ProxyInv, NEW e \in End, Receive(e) PROVE ProxyInv'
<1> USE Ends
<1>1. UNCHANGED <<input, output, peer, shut, service>> /\ pump[e] = "receive"
    BY DEF Receive
<1>2. ProxyTypeOK /\ InOrder /\ NothingLost /\ InFlight /\ Excused /\ Unstarted
    BY DEF ProxyInv
<1>3. \A p \in End : Len(input[p]) \in Nat /\ read[p] \in Nat /\ Len(output[Other(p)]) \in Nat
    BY <1>2 DEF ProxyTypeOK
<1>4. peer[Other(e)] = "open" => Len(output[Other(e)]) = read[e]
    BY <1>1, <1>2 DEF InFlight
<1>5. CASE read[e] < Len(input[e]) /\ read' = [read EXCEPT ![e] = @ + 1] /\ Goto(e, "send")
  <2>1. read'[e] = read[e] + 1 /\ read'[Other(e)] = read[Other(e)]
        BY <1>5, <1>2 DEF ProxyTypeOK
  <2>2. pump'[e] = "send" /\ pump'[Other(e)] = pump[Other(e)]
        BY <1>5, <1>2 DEF ProxyTypeOK, Goto
  <2>3. ProxyTypeOK'
        BY <1>1, <1>2, <1>5 DEF ProxyTypeOK, Goto
  <2>4. InOrder'
        BY <1>1, <1>2, <1>3, <1>5, <2>1 DEF InOrder
  <2>5. NothingLost' /\ Excused' /\ Unstarted'
        BY <1>1, <1>2, <2>2 DEF NothingLost, Excused, Finished, Unstarted
  <2>6. InFlight'
    <3>1. ASSUME NEW p \in End
          PROVE  /\ pump'[p] = "send" => read'[p] > 0
                 /\ peer[Other(p)] = "open" /\ pump'[p] # "failed" =>
                      Len(output[Other(p)]) = IF pump'[p] = "send" THEN read'[p] - 1 ELSE read'[p]
      <4>1. CASE p = e
            BY <4>1, <1>3, <1>4, <2>1, <2>2
      <4>2. CASE p = Other(e)
            BY <4>2, <1>2, <2>1, <2>2 DEF InFlight
      <4>3. QED
            BY <4>1, <4>2
    <3>2. QED
          BY <3>1, <1>1 DEF InFlight
  <2>7. QED
        BY <2>3, <2>4, <2>5, <2>6 DEF ProxyInv
<1>6. CASE ((Eof(e) /\ Goto(e, "close")) \/ (Fails(e) /\ Goto(e, "failed"))) /\ UNCHANGED read
  <2>1. PICK l \in {"close", "failed"} : Goto(e, l) /\ (l = "close" => Eof(e))
        BY <1>6
  <2>2. pump'[e] = l /\ pump'[Other(e)] = pump[Other(e)]
        BY <2>1, <1>2 DEF ProxyTypeOK, Goto
  <2>3. ProxyTypeOK'
        BY <1>1, <1>2, <1>6, <2>1 DEF ProxyTypeOK, Goto
  <2>4. InOrder'
        BY <1>1, <1>2, <1>6 DEF InOrder
  <2>5. ~shut[Other(e)]
        BY <1>1, <1>2 DEF Excused
  <2>6. ASSUME l = "close"
        PROVE  /\ peer[e] = "closed" \/ shut[e]
               /\ shut[e] => peer[Other(e)] = "closed"
               /\ peer[Other(e)] = "open" => read[e] = Len(input[e])
    <3>1. Eof(e)
          BY <2>1, <2>6
    <3>2. shut[e] => Finished(Other(e))
          BY <1>2 DEF Excused, Finished
    <3>3. shut[e] => peer[Other(e)] = "closed"
          BY <3>2, <2>5, <1>2 DEF Excused
    <3>4. QED
          BY <3>1, <3>3 DEF Eof
  <2>7. l = "close" /\ peer[Other(e)] = "open" => output[Other(e)] = input[e]
    <3>1. SUFFICES ASSUME l = "close", peer[Other(e)] = "open"
                   PROVE  output[Other(e)] = input[e]
          OBVIOUS
    <3>2. Len(output[Other(e)]) = Len(input[e])
          BY <3>1, <2>6, <1>4
    <3>3. output[Other(e)] \in Seq(Message) /\ input[e] \in Seq(Message)
          BY <1>2 DEF ProxyTypeOK
    <3>4. \A i \in 1 .. Len(input[e]) : output[Other(e)][i] = input[e][i]
          BY <3>2, <1>2 DEF InOrder
    <3>5. QED
          BY <3>2, <3>3, <3>4
  <2>8. NothingLost'
        BY <1>1, <1>2, <2>2, <2>7 DEF NothingLost, Finished
  <2>9. InFlight'
        BY <1>1, <1>2, <1>4, <1>6, <2>2 DEF InFlight
  <2>10. Excused' /\ Unstarted'
        BY <1>1, <1>2, <2>2, <2>6 DEF Excused, Finished, Unstarted
  <2>11. QED
        BY <2>3, <2>4, <2>8, <2>9, <2>10 DEF ProxyInv
<1>7. \/ read[e] < Len(input[e]) /\ read' = [read EXCEPT ![e] = @ + 1] /\ Goto(e, "send")
      \/ ((Eof(e) /\ Goto(e, "close")) \/ (Fails(e) /\ Goto(e, "failed"))) /\ UNCHANGED read
    BY DEF Receive
<1>8. QED
    BY <1>5, <1>6, <1>7

\* What the pump of e holds is the next message its sink has not been given.
LEMMA NextOut ==
    ASSUME ProxyInv, NEW e \in End, pump[e] = "send", peer[Other(e)] = "open"
    PROVE  /\ read[e] = Len(output[Other(e)]) + 1
           /\ Len(output[Other(e)]) < Len(input[e])
           /\ Held(e) = input[e][Len(output[Other(e)]) + 1]
           /\ Held(e) \in Message
<1> USE Ends
<1>1. ProxyTypeOK /\ InOrder /\ InFlight
    BY DEF ProxyInv
<1>2. /\ Len(input[e]) \in Nat /\ read[e] \in Nat /\ Len(output[Other(e)]) \in Nat
      /\ input[e] \in Seq(Message)
    BY <1>1 DEF ProxyTypeOK
<1>3. read[e] = Len(output[Other(e)]) + 1 /\ read[e] <= Len(input[e])
    BY <1>1, <1>2 DEF InFlight, InOrder
<1>4. QED
    BY <1>2, <1>3 DEF Held

LEMMA SendInv ==
    ASSUME ProxyInv, NEW e \in End, Send(e) PROVE ProxyInv'
<1> USE Ends
<1>1. UNCHANGED <<input, read, peer, shut, service>> /\ pump[e] = "send"
    BY DEF Send
<1>2. ProxyTypeOK /\ InOrder /\ NothingLost /\ InFlight /\ Excused /\ Unstarted
    BY DEF ProxyInv
<1>3. \A p \in End : Len(input[p]) \in Nat /\ read[p] \in Nat /\ Len(output[Other(p)]) \in Nat
    BY <1>2 DEF ProxyTypeOK
<1>4. CASE /\ peer[Other(e)] = "open"
           /\ output' = [output EXCEPT ![Other(e)] = Append(@, Held(e))]
           /\ Goto(e, "receive")
  <2>1. /\ read[e] = Len(output[Other(e)]) + 1
        /\ Len(output[Other(e)]) < Len(input[e])
        /\ Held(e) = input[e][Len(output[Other(e)]) + 1]
        /\ Held(e) \in Message
        BY <1>1, <1>4, NextOut
  <2>2. /\ output[Other(e)] \in Seq(Message)
        /\ output'[Other(e)] = Append(output[Other(e)], Held(e))
        /\ output'[e] = output[e]
        BY <1>2, <1>4 DEF ProxyTypeOK
  <2>3. /\ Len(output'[Other(e)]) = Len(output[Other(e)]) + 1
        /\ \A i \in 1 .. Len(output[Other(e)]) : output'[Other(e)][i] = output[Other(e)][i]
        /\ output'[Other(e)][Len(output[Other(e)]) + 1] = Held(e)
        BY <2>1, <2>2
  <2>4. pump'[e] = "receive" /\ pump'[Other(e)] = pump[Other(e)]
        BY <1>2, <1>4 DEF ProxyTypeOK, Goto
  <2>5. ProxyTypeOK'
        BY <1>1, <1>2, <1>4, <2>1 DEF ProxyTypeOK, Goto
  <2>6. InOrder'
    <3>1. ASSUME NEW p \in End
          PROVE  /\ Len(output'[Other(p)]) <= read[p]
                 /\ read[p] <= Len(input[p])
                 /\ \A i \in 1 .. Len(output'[Other(p)]) : output'[Other(p)][i] = input[p][i]
      <4>1. CASE p = e
        <5>1. \A i \in 1 .. Len(output[Other(e)]) : output'[Other(e)][i] = input[e][i]
              BY <1>2, <2>3 DEF InOrder
        <5>2. \A i \in 1 .. Len(output'[Other(e)]) :
                 i \in 1 .. Len(output[Other(e)]) \/ i = Len(output[Other(e)]) + 1
              BY <1>3, <2>3
        <5>3. read[e] <= Len(input[e])
              BY <1>2 DEF InOrder
        <5>4. QED
              BY <4>1, <5>1, <5>2, <5>3, <1>3, <2>1, <2>3
      <4>2. CASE p = Other(e)
            BY <4>2, <1>2, <2>2 DEF InOrder
      <4>3. QED
            BY <4>1, <4>2
    <3>2. QED
          BY <3>1, <1>1 DEF InOrder
  <2>7. NothingLost'
    <3>1. ASSUME NEW p \in End, Finished(p)', peer[Other(p)] = "open"
          PROVE  output'[Other(p)] = input[p]
      <4>1. p = Other(e)
            BY <3>1, <2>4 DEF Finished
      <4>2. QED
            BY <3>1, <4>1, <1>2, <2>2, <2>4 DEF NothingLost, Finished
    <3>2. QED
          BY <3>1, <1>1 DEF NothingLost
  <2>8. InFlight'
    <3>1. ASSUME NEW p \in End
          PROVE  /\ pump'[p] = "send" => read[p] > 0
                 /\ peer[Other(p)] = "open" /\ pump'[p] # "failed" =>
                      Len(output'[Other(p)]) = IF pump'[p] = "send" THEN read[p] - 1 ELSE read[p]
      <4>1. CASE p = e
            BY <4>1, <2>1, <2>3, <2>4
      <4>2. CASE p = Other(e)
            BY <4>2, <1>2, <2>2, <2>4 DEF InFlight
      <4>3. QED
            BY <4>1, <4>2
    <3>2. QED
          BY <3>1, <1>1 DEF InFlight
  <2>9. Excused' /\ Unstarted'
        BY <1>1, <1>2, <2>4 DEF Excused, Finished, Unstarted
  <2>10. QED
        BY <2>5, <2>6, <2>7, <2>8, <2>9 DEF ProxyInv
<1>5. CASE peer[Other(e)] # "open" /\ (Goto(e, "receive") \/ Goto(e, "failed")) /\ UNCHANGED output
  <2>1. pump'[e] \in {"receive", "failed"} /\ pump'[Other(e)] = pump[Other(e)]
        BY <1>2, <1>5 DEF ProxyTypeOK, Goto
  <2>2. ProxyTypeOK'
        BY <1>1, <1>2, <1>5 DEF ProxyTypeOK, Goto
  <2>3. InOrder'
        BY <1>1, <1>2, <1>5 DEF InOrder
  <2>4. NothingLost' /\ Excused' /\ Unstarted'
        BY <1>1, <1>2, <1>5, <2>1 DEF NothingLost, Excused, Finished, Unstarted
  <2>5. InFlight'
        BY <1>1, <1>2, <1>5, <2>1 DEF InFlight
  <2>6. QED
        BY <2>2, <2>3, <2>4, <2>5 DEF ProxyInv
<1>6. QED
    BY <1>4, <1>5 DEF Send

LEMMA CloseInv ==
    ASSUME ProxyInv, NEW e \in End, Close(e) PROVE ProxyInv'
<1> USE Ends
<1>1. UNCHANGED <<input, read, output, peer, service>> /\ pump[e] = "close"
    BY DEF Close
<1>2. ProxyTypeOK /\ InOrder /\ NothingLost /\ InFlight /\ Excused /\ Unstarted
    BY DEF ProxyInv
<1>3. pump'[e] = "done" /\ pump'[Other(e)] = pump[Other(e)]
    BY <1>2 DEF Close, ProxyTypeOK, Goto
<1>4. shut'[Other(e)] = TRUE /\ shut'[e] = shut[e]
    BY <1>2 DEF Close, ProxyTypeOK, ShutBy
<1>5. ProxyTypeOK'
    BY <1>1, <1>2 DEF Close, ProxyTypeOK, Goto, ShutBy
<1>6. InOrder' /\ NothingLost' /\ InFlight'
    BY <1>1, <1>2, <1>3 DEF InOrder, NothingLost, InFlight, Finished
<1>7. Excused' /\ Unstarted'
    BY <1>1, <1>2, <1>3, <1>4 DEF Excused, Finished, Unstarted
<1>8. QED
    BY <1>5, <1>6, <1>7 DEF ProxyInv

-----------------------------------------------------------------------------
(* Execute, and all steps together.                                         *)

\* The pumps are started once, so none of them has finished when they are.
LEMMA ExecuteInv ==
    ASSUME ProxyInv, Connect \/ Join PROVE ProxyInv'
<1> USE Ends
<1>1. UNCHANGED <<input, read, output, peer, shut>> /\ service' # "connect"
    BY DEF Connect, Join
<1>2. ProxyTypeOK /\ InOrder /\ NothingLost /\ InFlight /\ Excused /\ Unstarted
    BY DEF ProxyInv
<1>3. UNCHANGED pump \/ \A e \in End : pump[e] = "none" /\ pump'[e] = "receive"
    BY <1>2 DEF Connect, Join, Unstarted
<1>4. ProxyTypeOK'
    BY <1>1, <1>2 DEF Connect, Join, ProxyTypeOK
<1>5. InOrder'
    BY <1>1, <1>2 DEF InOrder
<1>6. NothingLost' /\ Excused' /\ Unstarted'
    BY <1>1, <1>2, <1>3 DEF NothingLost, Excused, Finished, Unstarted
<1>7. InFlight'
    BY <1>1, <1>2, <1>3 DEF InFlight
<1>8. QED
    BY <1>4, <1>5, <1>6, <1>7 DEF ProxyInv

LEMMA StepInv == ProxyInv /\ [Next]_vars => ProxyInv'
<1>1. ASSUME ProxyInv, Next PROVE ProxyInv'
    BY <1>1, SendsInv, LeavesInv, ReceiveInv, SendInv, CloseInv, ExecuteInv DEF Next, Pump
<1>2. ASSUME ProxyInv, UNCHANGED vars PROVE ProxyInv'
    BY <1>2 DEF vars, ProxyInv, ProxyTypeOK, InOrder, NothingLost, InFlight, Excused, Unstarted, Finished
<1>3. QED
    BY <1>1, <1>2

\* The two pumps of a proxied connection, its peers and Execute keep the invariant.
THEOREM ProxyInvariant == Spec => []ProxyInv
<1>1. QED
    BY InitInv, StepInv, PTL DEF Spec

\* What a peer is given through the proxy is what the other one has sent, in order.
THEOREM ForwardsInOrder == Spec => []InOrder
<1>1. ProxyInv => InOrder
    BY DEF ProxyInv
<1>2. QED
    BY <1>1, ProxyInvariant, PTL

\* A pump that ends in order has given everything to a sink that is still there.
THEOREM LosesNothing == Spec => []NothingLost
<1>1. ProxyInv => NothingLost
    BY DEF ProxyInv
<1>2. QED
    BY <1>1, ProxyInvariant, PTL

\* What an end means, whatever it wants to say, the other end reads through the proxy.
THEOREM EndsUnderstand == ASSUME Speaks PROVE Spec => []Understood
<1>1. ASSUME NEW v \in Meant PROVE Parse(Encode(v)) = v
  <2>1. v \in Value /\ (v.op = "MOVE" => {v.from, v.to} \subseteq Board)
    BY <1>1 DEF Speaks, Sendable
  <2> QED BY <2>1, CodecRoundTrip DEF RoundTrip
<1>2. ASSUME NEW m, TooLarge(m) PROVE Parse(m) = Error("std::out_of_range")
  <2>1. Parse(m) = ToReady(m)
    BY <1>2 DEF TooLarge, Parse, Named
  <2>2. ~Fits(m.data3) /\ NumberError(m.data3) = Error("std::out_of_range")
    BY <1>2 DEF TooLarge, Fits, NumberError
  <2> QED BY <1>2, <2>1, <2>2 DEF TooLarge, ToReady
<1>3. ASSUME ProxyInv PROVE Understood
  <2> SUFFICES ASSUME NEW e \in End, NEW i \in DOMAIN output[e]
               PROVE  \/ TooLarge(input[Other(e)][i]) /\ Parse(output[e][i]) = Error("std::out_of_range")
                      \/ \E v \in Meant : input[Other(e)][i] = Encode(v) /\ Parse(output[e][i]) = v
    BY DEF Understood
  <2>1. output[e] \in Seq(Message) /\ i \in 1 .. Len(output[e]) /\ output[e][i] \in Message
    BY <1>3 DEF ProxyInv, ProxyTypeOK
  <2>2. output[e][i] = input[Other(e)][i]
    BY <1>3, <2>1, Ends DEF ProxyInv, InOrder
  <2> QED BY <1>1, <1>2, <2>1, <2>2 DEF Speaks
<1> QED BY <1>3, ProxyInvariant, PTL

-----------------------------------------------------------------------------
(* The refinement: every step is a step or a stutter of either channel.     *)

\* The step of an action on the input, output, peer and sockets of one direction.
Same(e) ==
    /\ input'[e] = input[e] /\ output'[Other(e)] = output[Other(e)]
    /\ (peer'[Other(e)] # "open") = (peer[Other(e)] # "open")
    /\ shut'[Other(e)] = shut[Other(e)]
Puts(e) ==
    /\ shut[Other(e)] => peer[Other(e)] # "open"
    /\ \E m \in Message : input'[e] = Append(input[e], m)
    /\ UNCHANGED <<output, peer, shut>>
Delivers(e) ==
    /\ peer[Other(e)] = "open" /\ ~shut[Other(e)]
    /\ Len(output[Other(e)]) < Len(input[e])
    /\ output'[Other(e)] = Append(output[Other(e)], input[e][Len(output[Other(e)]) + 1])
    /\ UNCHANGED <<input, peer, shut>>
SinkLeaves(e) ==
    /\ peer[Other(e)] = "open" /\ peer'[Other(e)] # "open"
    /\ UNCHANGED <<input, output, shut>>
Finishes(e) ==
    /\ ~shut[Other(e)] /\ shut'[Other(e)] = TRUE
    /\ peer[Other(e)] = "open" => output[Other(e)] = input[e]
    /\ UNCHANGED <<input, output, peer>>
ChannelStep(e) == Same(e) \/ Puts(e) \/ Delivers(e) \/ SinkLeaves(e) \/ Finishes(e)

LEMMA StepIsChannelStep ==
    ASSUME ProxyInv, [Next]_vars, NEW e \in End PROVE ChannelStep(e)
<1> USE Ends
<1>1. ProxyTypeOK /\ InOrder /\ NothingLost /\ InFlight /\ Excused
    BY DEF ProxyInv
<1>2. ASSUME NEW p \in End, PeerSends(p) PROVE ChannelStep(e)
  <2>1. CASE p = e
    <3>1. peer[e] = "open" /\ UNCHANGED <<output, peer, shut>>
          BY <1>2, <2>1 DEF PeerSends
    <3>2. \E m \in Message : input'[e] = Append(input[e], m)
          BY <1>1, <1>2, <2>1 DEF PeerSends, ProxyTypeOK
    <3>3. shut[Other(e)] => peer[Other(e)] # "open"
          BY <3>1, <1>1 DEF Excused, Finished
    <3>4. QED
          BY <3>1, <3>2, <3>3 DEF ChannelStep, Puts
  <2>2. CASE p = Other(e)
        BY <1>1, <1>2, <2>2 DEF PeerSends, ProxyTypeOK, ChannelStep, Same
  <2>3. QED
        BY <2>1, <2>2
<1>3. ASSUME NEW p \in End, PeerLeaves(p) PROVE ChannelStep(e)
    BY <1>1, <1>3 DEF PeerLeaves, ProxyTypeOK, ChannelStep, Same, SinkLeaves
<1>4. ASSUME NEW p \in End, Receive(p) PROVE ChannelStep(e)
    BY <1>4 DEF Receive, ChannelStep, Same
<1>5. ASSUME NEW p \in End, Send(p) PROVE ChannelStep(e)
  <2>1. UNCHANGED <<input, peer, shut>> /\ pump[p] = "send"
        BY <1>5 DEF Send
  <2>2. CASE UNCHANGED output
        BY <2>1, <2>2 DEF ChannelStep, Same
  <2>3. CASE peer[Other(p)] = "open" /\ output' = [output EXCEPT ![Other(p)] = Append(@, Held(p))]
    <3>1. CASE p = e
      <4>1. ~shut[Other(e)]
            BY <3>1, <2>1, <1>1 DEF Excused
      <4>2. output'[Other(e)] = Append(output[Other(e)], Held(e))
            BY <3>1, <2>3, <1>1 DEF ProxyTypeOK
      <4>3. QED
            BY <3>1, <4>1, <4>2, <2>1, <2>3, NextOut DEF ChannelStep, Delivers
    <3>2. CASE p = Other(e)
          BY <3>2, <2>1, <2>3, <1>1 DEF ProxyTypeOK, ChannelStep, Same
    <3>3. QED
          BY <3>1, <3>2
  <2>4. QED
        BY <2>2, <2>3, <1>5 DEF Send
<1>6. ASSUME NEW p \in End, Close(p) PROVE ChannelStep(e)
  <2>1. UNCHANGED <<input, output, peer>> /\ pump[p] = "close"
        BY <1>6 DEF Close
  <2>2. CASE p = e
    <3>1. ~shut[Other(e)] /\ shut'[Other(e)] = TRUE
          BY <2>1, <2>2, <1>1, <1>6 DEF Excused, Close, ShutBy, ProxyTypeOK
    <3>2. peer[Other(e)] = "open" => output[Other(e)] = input[e]
          BY <2>1, <2>2, <1>1 DEF NothingLost, Finished
    <3>3. QED
          BY <2>1, <3>1, <3>2 DEF ChannelStep, Finishes
  <2>3. CASE p = Other(e)
        BY <2>1, <2>3, <1>1, <1>6 DEF Close, ShutBy, ProxyTypeOK, ChannelStep, Same
  <2>4. QED
        BY <2>2, <2>3
<1>7. ASSUME Connect \/ Join \/ UNCHANGED vars PROVE ChannelStep(e)
    BY <1>7 DEF Connect, Join, vars, ChannelStep, Same
<1>8. QED
    BY <1>2, <1>3, <1>4, <1>5, <1>6, <1>7 DEF Next, Pump

\* Every step of the two pumps, the peers and Execute is a step or a stutter of the
\* channel from client to server, and of the channel back.
LEMMA UpStep == ProxyInv /\ [Next]_vars => [Up!Next]_(Up!vars)
<1> SUFFICES ASSUME ProxyInv, [Next]_vars PROVE [Up!Next]_(Up!vars)
    OBVIOUS
<1>1. ChannelStep("client")
    BY StepIsChannelStep, Ends
<1>2. QED
    BY <1>1, Ends DEF ChannelStep, Same, Puts, Delivers, SinkLeaves, Finishes,
        Up!Next, Up!Put, Up!Deliver, Up!Leave, Up!End, Up!vars

LEMMA DownStep == ProxyInv /\ [Next]_vars => [Down!Next]_(Down!vars)
<1> SUFFICES ASSUME ProxyInv, [Next]_vars PROVE [Down!Next]_(Down!vars)
    OBVIOUS
<1>1. ChannelStep("server")
    BY StepIsChannelStep, Ends
<1>2. QED
    BY <1>1, Ends DEF ChannelStep, Same, Puts, Delivers, SinkLeaves, Finishes,
        Down!Next, Down!Put, Down!Deliver, Down!Leave, Down!End, Down!vars

\* The proxy implements the pair of channels that it promises to its two ends.
THEOREM Implements == Spec => ProxyIsChannels
<1>1. Init => Up!Init /\ Down!Init
    BY Ends DEF Init, Up!Init, Down!Init
<1>2. Spec => Up!Spec
    BY <1>1, UpStep, ProxyInvariant, PTL DEF Spec, Up!Spec
<1>3. Spec => Down!Spec
    BY <1>1, DownStep, ProxyInvariant, PTL DEF Spec, Down!Spec
<1>4. QED
    BY <1>2, <1>3 DEF ProxyIsChannels
=============================================================================
