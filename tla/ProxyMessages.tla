---------------------------- MODULE ProxyMessages ----------------------------
(***************************************************************************)
(* The reverse proxy between two programs that speak with Codec.  It        *)
(* forwards what it cannot parse like everything else: its log wrapper      *)
(* decodes each message, and catches whatever the decoding throws.          *)
(***************************************************************************)
EXTENDS ProxyProperties, Codec

CONSTANT Meant  \* what the two ends want to say

\* Encode throws for a move off the board: then nothing is sent.
Sendable == {v \in Value : v.op = "MOVE" => {v.from, v.to} \subseteq Board}

\* A READY whose room number no int of the receiver holds.
TooLarge(m) ==
    /\ m.op = "READY"
    /\ m.data2.kind \in {"blank", "colour"}
    /\ m.data3.kind = "number" /\ m.data3.value \notin CInt

\* The ends send what they mean, or what a program with a larger int would mean.
Speaks ==
    /\ Meant \subseteq Sendable
    /\ \A m \in Message : TooLarge(m) \/ \E v \in Meant : m = Encode(v)

\* What one end has meant is what the other end reads, message by message, through the
\* encoding, the proxy and the parsing; a number that is too large throws out_of_range.
Understood ==
    \A e \in End : \A i \in DOMAIN output[e] :
        \/ TooLarge(input[Other(e)][i]) /\ Parse(output[e][i]) = Error("std::out_of_range")
        \/ \E v \in Meant : input[Other(e)][i] = Encode(v) /\ Parse(output[e][i]) = v
=============================================================================
