---------------------------- MODULE FifoChannel ----------------------------
(***************************************************************************)
(* What a reliable ordered channel promises, whatever it carries: input is *)
(* everything put into it, output everything taken out of it, and output   *)
(* only ever grows along input.                                            *)
(***************************************************************************)
EXTENDS Naturals, Sequences

VARIABLES input, output

\* t begins with s.
Extends(s, t) ==
    /\ Len(s) <= Len(t)
    /\ \A i \in 1..Len(s) : s[i] = t[i]

Init ==
    /\ input = <<>>
    /\ output = <<>>

Put ==
    /\ Extends(input, input')
    /\ UNCHANGED output

Get ==
    /\ Extends(output, output')
    /\ Extends(output', input)
    /\ UNCHANGED input

Next == Put \/ Get

Spec == Init /\ [][Next]_<<input, output>>
=============================================================================
