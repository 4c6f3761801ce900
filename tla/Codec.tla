-------------------------------- MODULE Codec --------------------------------
(***************************************************************************)
(* The message classes (message.cpp): how the fields of a message become   *)
(* the three texts that are sent, and what a constructor makes of three    *)
(* texts that were received.  A text is abstracted to what these functions *)
(* can tell: is it empty, the name of a colour, a number, two characters?  *)
(***************************************************************************)
EXTENDS Protocol, Integers

CONSTANTS
    MaxInt,     \* the largest int
    BoardSize,  \* BOARD_SIZE (surakarta-core)
    Word        \* the texts that are none of the below: names, reasons, chat

ASSUME CodecConstants == MaxInt \in Nat /\ BoardSize \in Nat /\ BoardSize <= MaxInt

CInt == -MaxInt - 1 .. MaxInt

-----------------------------------------------------------------------------
(* Texts.                                                                   *)

Blank == [kind |-> "blank"]
Name(k) == [kind |-> "colour", color |-> k]
Plain(w) == [kind |-> "word", word |-> w]

\* A text that begins with the decimal n: std::to_string(n), and what stoi reads as n.
Number(n) == [kind |-> "number", value |-> n]

\* Two characters, x after 'A' and y after '1', that are no number (which begins with
\* a character before 'A', so that no number is a square of the board).
Square(p) == [kind |-> "square", at |-> p]

Position == [x : CInt, y : CInt]

Text ==
    {Blank} \cup {Name(k) : k \in Color} \cup {Plain(w) : w \in Word}
      \cup {Number(n) : n \in -MaxInt - 2 .. MaxInt + 1} \cup {Square(p) : p \in Position}

\* std::stoi throws invalid_argument for a text that is no number, and out_of_range.
Fits(t) == t.kind = "number" /\ t.value \in CInt

Error(e) == [op |-> "error", what |-> e]
Unparsable == Error("SurakartaNetworkMessageParsingException")
NumberError(t) == IF t.kind = "number" THEN Error("std::out_of_range") ELSE Unparsable

-----------------------------------------------------------------------------
(* From fields to texts.                                                    *)

Wired(o, d1, d2, d3) == [op |-> o, data1 |-> d1, data2 |-> d2, data3 |-> d3]
Named == {"REJECT", "LEAVE", "CHAT"}

ColorText_Chosen(k) == IF k = "BLACK" THEN Name("BLACK") ELSE Name("WHITE")   \* no NONE
ColorText(k) == IF k = "NONE" THEN Blank ELSE Name(k)

\* In END a piece colour and the reasons are numbers; an illegal move's reason is a
\* set of one or none.
Optional(S) == IF S = {} THEN Blank ELSE Number(CHOOSE n \in S : TRUE)

\* Only a move on the board is sent.
OnBoard(p) == p.x \in 0 .. BoardSize - 1 /\ p.y \in 0 .. BoardSize - 1

FromReady(v) == Wired("READY", v.user, ColorText(v.color), Number(v.room))
FromMove(v) ==
    IF OnBoard(v.from) /\ OnBoard(v.to)
    THEN Wired("MOVE", Square(v.from), Square(v.to), Blank)
    ELSE Unparsable
FromEnd(v) == Wired("END", Optional(v.illegal), Number(v.reason), Number(v.winner))
FromNamed(v) == Wired(v.op, v.user, v.text, Blank)

Encode(v) ==
    CASE v.op = "READY" -> FromReady(v)
      [] v.op = "MOVE" -> FromMove(v)
      [] v.op = "END" -> FromEnd(v)
      [] v.op \in Named -> FromNamed(v)
      [] v.op = "RESIGN" -> Wired("RESIGN", Blank, Blank, Blank)

-----------------------------------------------------------------------------
(* From texts to fields.                                                    *)

ToReady(m) ==
    CASE m.data2.kind \notin {"blank", "colour"} -> Unparsable
      [] ~Fits(m.data3) -> NumberError(m.data3)
      [] OTHER -> [op |-> "READY", user |-> m.data1, room |-> m.data3.value,
                   color |-> IF m.data2 = Blank THEN "NONE" ELSE m.data2.color]

IsPosition(t) ==
    t.kind = "square" /\ t.at.x \in 0 .. BoardSize - 1 /\ t.at.y \in 0 .. BoardSize - 1
ToMove(m) ==
    IF IsPosition(m.data1) /\ IsPosition(m.data2)
    THEN [op |-> "MOVE", from |-> m.data1.at, to |-> m.data2.at]
    ELSE Unparsable

\* The three numbers are read one after the other; the casts to the enumerations take
\* any int.
ToEnd(m) ==
    CASE m.data1 # Blank /\ ~Fits(m.data1) -> NumberError(m.data1)
      [] ~Fits(m.data2) -> NumberError(m.data2)
      [] ~Fits(m.data3) -> NumberError(m.data3)
      [] OTHER -> [op |-> "END", reason |-> m.data2.value, winner |-> m.data3.value,
                   illegal |-> IF m.data1 = Blank THEN {} ELSE {m.data1.value}]

ToNamed(m) == [op |-> m.op, user |-> m.data1, text |-> m.data2]

\* The class that a receiver chooses by the opcode.
Parse(m) ==
    CASE m.op = "READY" -> ToReady(m)
      [] m.op = "MOVE" -> ToMove(m)
      [] m.op = "END" -> ToEnd(m)
      [] m.op \in Named -> ToNamed(m)
      [] m.op = "RESIGN" -> [op |-> "RESIGN"]
      [] OTHER -> Unparsable

-----------------------------------------------------------------------------
\* What a program can want to say, and what can arrive.
Value ==
    [op : {"READY"}, user : Text, color : Request, room : CInt]
      \cup [op : {"MOVE"}, from : Position, to : Position]
      \cup [op : {"END"}, illegal : {{}} \cup {{n} : n \in CInt}, reason : CInt, winner : CInt]
      \cup [op : Named, user : Text, text : Text]
      \cup {[op |-> "RESIGN"]}
Opcode == {"READY", "MOVE", "END", "RESIGN", "OTHER"} \cup Named
Wire == [op : Opcode, data1 : Text, data2 : Text, data3 : Text]

Board == [x : 0 .. BoardSize - 1, y : 0 .. BoardSize - 1]

\* What is sent is understood as it was meant, whatever the colours, numbers and
\* squares: a move that is not on the board is not sent, everything else is.
RoundTrip ==
    \A v \in Value :
        IF v.op = "MOVE" /\ ~({v.from, v.to} \subseteq Board)
        THEN Encode(v) = Unparsable
        ELSE Parse(Encode(v)) = v

\* What a program has understood it can send on, and the next one understands the
\* same: the two sides of the code agree on every bound.
SentOn == \A m \in Wire : Parse(m).op # "error" => Parse(Encode(Parse(m))) = Parse(m)
=============================================================================
