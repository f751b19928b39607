------------------------------ MODULE SliceCopy ------------------------------
(***************************************************************************)
(* What the slicer's copy promises (spec 4.J): an output file is opened    *)
(* empty at a start offset of the input, receives the input from there on, *)
(* in order, with no gap and no repetition, and is closed only once it     *)
(* reaches the end offset or the end of the input.  Offsets count packets  *)
(* from 0, and the output is the sequence of input offsets it holds.  How  *)
(* many packets one write carries is left open, and so is how far past the *)
(* end offset the output may run: the exact length is a separate question. *)
(***************************************************************************)
EXTENDS Integers, Sequences

VARIABLES
    input,  \* the input file, never written
    out,    \* the output file: the input offsets it holds, in order
    from,   \* the start offset of the open output, or None
    to      \* the end offset of the open output

None == -1

\* The n input offsets that follow offset at.
Span(at, n) == [i \in 1..n |-> at + i - 1]

Init ==
    /\ out = << >>
    /\ from = None
    /\ to = 0

\* An output file is created, empty, for the range starting at from'.
Open ==
    /\ from = None
    /\ from' \in 0..Len(input)
    /\ to' \in Int
    /\ out' = << >>
    /\ UNCHANGED input

\* The next k packets of the input are appended to the output.
Write(k) ==
    LET at == from + Len(out)
    IN  /\ from # None
        /\ at + k <= Len(input)
        /\ out' = out \o Span(at, k)
        /\ UNCHANGED <<input, from, to>>

\* The output is closed once it covers the range or the input has ended.
Close ==
    /\ from # None
    /\ \/ from + Len(out) >= to
       \/ from + Len(out) = Len(input)
    /\ from' = None
    /\ to' = 0
    /\ UNCHANGED <<input, out>>

Next ==
    \/ Open
    \/ \E k \in 1..Len(input) : Write(k)
    \/ Close

Spec == Init /\ [][Next]_<<input, out, from, to>>
=============================================================================
