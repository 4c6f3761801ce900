--------------------------- MODULE MCReverseProxy ---------------------------
(***************************************************************************)
(* The reverse proxy with messages of Codec, for TLC.                       *)
(***************************************************************************)
EXTENDS ProxyMessages

CONSTANT hello  \* a text

BothEnds == End

\* Two messages at the edges of what can be said, and one beyond.
Meanings ==
    {[op |-> "READY", user |-> Plain(hello), color |-> "NONE", room |-> MaxInt],
     [op |-> "MOVE", from |-> [x |-> 0, y |-> BoardSize - 1], to |-> [x |-> BoardSize - 1, y |-> 0]]}
LargeRoom == Wired("READY", Plain(hello), Blank, Number(MaxInt + 1))
Samples == {Encode(v) : v \in Meant} \cup {LargeRoom}

\* The instance is one that the theorem about Understood is about.
ASSUME SamplesSpeak == Speaks
=============================================================================
