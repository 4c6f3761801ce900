------------------------------ MODULE Channel ------------------------------
(***************************************************************************)
(* What each direction of a reverse proxy promises to the two ends it      *)
(* connects: a FIFO that loses nothing as long as its sink is there, and    *)
(* that is seen to end by the sink only after everything has come through.  *)
(***************************************************************************)
EXTENDS Naturals, Sequences

CONSTANT Message

VARIABLES
    input,      \* everything the source has sent
    output,     \* everything the sink has been given
    gone,       \* the sink has closed its end, or its link is broken
    ended       \* the sink has been told that there is nothing more to come

vars == <<input, output, gone, ended>>

Init == input = <<>> /\ output = <<>> /\ ~gone /\ ~ended

\* An ended channel takes no more messages, unless nobody is there to miss them.
Put ==
    /\ ended => gone
    /\ \E m \in Message : input' = Append(input, m)
    /\ UNCHANGED <<output, gone, ended>>

Deliver ==
    /\ ~gone
    /\ ~ended
    /\ Len(output) < Len(input)
    /\ output' = Append(output, input[Len(output) + 1])
    /\ UNCHANGED <<input, gone, ended>>

Leave == ~gone /\ gone' = TRUE /\ UNCHANGED <<input, output, ended>>

End ==
    /\ ~ended
    /\ gone \/ output = input
    /\ ended' = TRUE
    /\ UNCHANGED <<input, output, gone>>

Next == Put \/ Deliver \/ Leave \/ End

Spec == Init /\ [][Next]_vars
=============================================================================
