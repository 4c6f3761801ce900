----------------------------- MODULE CodecProofs -----------------------------
(***************************************************************************)
(* The message classes understand each other, for every size of the board   *)
(* and of int, and every text.                                              *)
(***************************************************************************)
EXTENDS Codec, TLAPS

\* The number that the sender writes for an int fits the receiver's int.
LEMMA NumberFits == ASSUME NEW n \in CInt PROVE Fits(Number(n)) /\ Number(n).value = n
BY DEF Fits, Number

\* What is sent is understood as it was meant.
THEOREM CodecRoundTrip == RoundTrip
<1> SUFFICES ASSUME NEW v \in Value
             PROVE  IF v.op = "MOVE" /\ ~({v.from, v.to} \subseteq Board)
                    THEN Encode(v) = Unparsable
                    ELSE Parse(Encode(v)) = v
  BY DEF RoundTrip
<1>1. CASE v \in [op : {"READY"}, user : Text, color : Request, room : CInt]
  <2>1. Encode(v) = Wired("READY", v.user, ColorText(v.color), Number(v.room))
    BY <1>1 DEF Encode, FromReady, FromMove, FromEnd, FromNamed, Named
  <2>2. Parse(Encode(v)) = ToReady(Encode(v))
    BY <2>1 DEF Parse, Wired, Named
  <2>3. Fits(Encode(v).data3) /\ Encode(v).data3.value = v.room /\ Encode(v).data1 = v.user
    BY <1>1, <2>1, NumberFits DEF Wired
  <2>4. /\ Encode(v).data2.kind \in {"blank", "colour"}
        /\ (IF Encode(v).data2 = Blank THEN "NONE" ELSE Encode(v).data2.color) = v.color
    BY <1>1, <2>1 DEF Wired, ColorText, Name, Blank, Request, Color
  <2>5. ToReady(Encode(v)) = [op |-> "READY", user |-> v.user, room |-> v.room, color |-> v.color]
    BY <2>3, <2>4 DEF ToReady
  <2> QED BY <1>1, <2>2, <2>5
<1>2. CASE v \in [op : {"MOVE"}, from : Position, to : Position]
  <2>1. \A p \in Position : p \in Board <=> OnBoard(p)
    BY DEF Position, Board, OnBoard
  <2>2. \A p : OnBoard(p) => IsPosition(Square(p)) /\ Square(p).at = p
    BY DEF OnBoard, IsPosition, Square
  <2>3. Encode(v) = IF OnBoard(v.from) /\ OnBoard(v.to)
                    THEN Wired("MOVE", Square(v.from), Square(v.to), Blank)
                    ELSE Unparsable
    BY <1>2 DEF Encode, FromReady, FromMove, FromEnd, FromNamed, Named
  <2>4. ASSUME OnBoard(v.from), OnBoard(v.to) PROVE Parse(Encode(v)) = v
    <3>1. Parse(Encode(v)) = ToMove(Encode(v))
      BY <2>3, <2>4 DEF Parse, Wired, Named
    <3>2. ToMove(Encode(v)) = [op |-> "MOVE", from |-> v.from, to |-> v.to]
      BY <2>2, <2>3, <2>4 DEF ToMove, Wired
    <3> QED BY <1>2, <3>1, <3>2
  <2> QED BY <1>2, <2>1, <2>3, <2>4
<1>3. CASE v \in [op : {"END"}, illegal : {{}} \cup {{n} : n \in CInt}, reason : CInt, winner : CInt]
  <2>1. Encode(v) = Wired("END", Optional(v.illegal), Number(v.reason), Number(v.winner))
    BY <1>3 DEF Encode, FromReady, FromMove, FromEnd, FromNamed, Named
  <2>2. Parse(Encode(v)) = ToEnd(Encode(v))
    BY <2>1 DEF Parse, Wired, Named
  <2>3. /\ Fits(Encode(v).data2) /\ Encode(v).data2.value = v.reason
        /\ Fits(Encode(v).data3) /\ Encode(v).data3.value = v.winner
    BY <1>3, <2>1, NumberFits DEF Wired
  <2>4. /\ Encode(v).data1 # Blank => Fits(Encode(v).data1)
        /\ (IF Encode(v).data1 = Blank THEN {} ELSE {Encode(v).data1.value}) = v.illegal
    <3>1. Encode(v).data1 = Optional(v.illegal)
      BY <2>1 DEF Wired
    <3>2. CASE v.illegal = {}
      BY <3>1, <3>2 DEF Optional, Blank
    <3>3. CASE v.illegal # {}
      <4>1. PICK n \in CInt : v.illegal = {n}
        BY <1>3, <3>3
      <4>2. Optional(v.illegal) = Number(n)
        BY <4>1 DEF Optional
      <4>3. Number(n) # Blank
        BY DEF Number, Blank
      <4> QED BY <3>1, <4>1, <4>2, <4>3, NumberFits
    <3> QED BY <3>2, <3>3
  <2>5. ToEnd(Encode(v)) = [op |-> "END", reason |-> v.reason, winner |-> v.winner, illegal |-> v.illegal]
    BY <2>3, <2>4 DEF ToEnd
  <2> QED BY <1>3, <2>2, <2>5
<1>4. CASE v \in [op : Named, user : Text, text : Text]
  <2>1. Encode(v) = Wired(v.op, v.user, v.text, Blank) /\ v.op # "MOVE"
    BY <1>4 DEF Encode, FromReady, FromMove, FromEnd, FromNamed, Named
  <2>2. Parse(Encode(v)) = [op |-> v.op, user |-> v.user, text |-> v.text]
    BY <1>4, <2>1 DEF Parse, ToNamed, Wired, Named
  <2> QED BY <1>4, <2>1, <2>2
<1>5. CASE v = [op |-> "RESIGN"]
  BY <1>5 DEF Encode, Parse, Wired, Named
<1> QED BY <1>1, <1>2, <1>3, <1>4, <1>5 DEF Value

\* What was parsed is a value that can be sent, and a move is on the board.
LEMMA ParsedIsValue ==
    ASSUME NEW m \in Wire, Parse(m).op # "error"
    PROVE  /\ Parse(m) \in Value
           /\ Parse(m).op = "MOVE" => {Parse(m).from, Parse(m).to} \subseteq Board
<1> USE DEF Wire, Opcode
<1>1. CASE m.op = "READY"
  <2>1. Parse(m) = ToReady(m)
    BY <1>1 DEF Parse, Named
  <2>2. m.data2.kind \in {"blank", "colour"} /\ Fits(m.data3)
    BY <2>1 DEF ToReady, NumberError, Unparsable, Error
  <2>3. /\ ToReady(m).op = "READY"
        /\ ToReady(m) = [op |-> "READY", user |-> m.data1, room |-> m.data3.value,
                         color |-> IF m.data2 = Blank THEN "NONE" ELSE m.data2.color]
    BY <2>2 DEF ToReady
  <2>4. (IF m.data2 = Blank THEN "NONE" ELSE m.data2.color) \in Request
    BY <2>2 DEF Text, Blank, Name, Plain, Number, Square, Request, Color
  <2>5. m.data3.value \in CInt
    BY <2>2 DEF Fits
  <2>6. Parse(m) \in [op : {"READY"}, user : Text, color : Request, room : CInt]
    BY <2>1, <2>3, <2>4, <2>5
  <2> QED BY <2>6 DEF Value
<1>2. CASE m.op = "MOVE"
  <2>1. Parse(m) = ToMove(m)
    BY <1>2 DEF Parse, Named
  <2>2. IsPosition(m.data1) /\ IsPosition(m.data2)
    BY <2>1 DEF ToMove, Unparsable, Error
  <2>3. \A t \in Text : IsPosition(t) => t.at \in Position /\ t.at \in Board
    BY DEF Text, Blank, Name, Plain, Number, Square, IsPosition, Position, Board
  <2>4. Parse(m) = [op |-> "MOVE", from |-> m.data1.at, to |-> m.data2.at]
    BY <2>1, <2>2 DEF ToMove
  <2>5. Parse(m) \in [op : {"MOVE"}, from : Position, to : Position]
    BY <2>2, <2>3, <2>4
  <2> QED BY <2>2, <2>3, <2>4, <2>5 DEF Value
<1>3. CASE m.op = "END"
  <2>1. Parse(m) = ToEnd(m)
    BY <1>3 DEF Parse, Named
  <2>2. (m.data1 = Blank \/ Fits(m.data1)) /\ Fits(m.data2) /\ Fits(m.data3)
    BY <2>1 DEF ToEnd, NumberError, Unparsable, Error
  <2>3. Parse(m) = [op |-> "END", reason |-> m.data2.value, winner |-> m.data3.value,
                    illegal |-> IF m.data1 = Blank THEN {} ELSE {m.data1.value}]
    BY <2>1, <2>2 DEF ToEnd
  <2>4. (IF m.data1 = Blank THEN {} ELSE {m.data1.value}) \in {{}} \cup {{n} : n \in CInt}
    BY <2>2 DEF Fits
  <2>5. m.data2.value \in CInt /\ m.data3.value \in CInt
    BY <2>2 DEF Fits
  <2>6. Parse(m) \in [op : {"END"}, illegal : {{}} \cup {{n} : n \in CInt},
                      reason : CInt, winner : CInt]
    BY <2>3, <2>4, <2>5
  <2> QED BY <2>6 DEF Value
<1>4. CASE m.op \in Named
  <2>1. Parse(m) = [op |-> m.op, user |-> m.data1, text |-> m.data2]
    BY <1>4 DEF Parse, ToNamed, Named
  <2>2. Parse(m) \in [op : Named, user : Text, text : Text]
    BY <1>4, <2>1
  <2> QED BY <2>2 DEF Value, Named
<1>5. CASE m.op = "RESIGN"
  BY <1>5 DEF Parse, Named, Value
<1>6. CASE m.op = "OTHER"
  BY <1>6 DEF Parse, Named, Unparsable, Error
<1> QED BY <1>1, <1>2, <1>3, <1>4, <1>5, <1>6 DEF Named

\* What was understood can be sent on, and is understood the same.
THEOREM CodecSentOn == SentOn
<1> SUFFICES ASSUME NEW m \in Wire, Parse(m).op # "error"
             PROVE  Parse(Encode(Parse(m))) = Parse(m)
  BY DEF SentOn
<1>1. Parse(m) \in Value
  BY ParsedIsValue
<1>2. Parse(m).op = "MOVE" => {Parse(m).from, Parse(m).to} \subseteq Board
  BY ParsedIsValue
<1> QED BY <1>1, <1>2, CodecRoundTrip DEF RoundTrip
=============================================================================
