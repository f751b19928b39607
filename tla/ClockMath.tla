----------------------------- MODULE ClockMath -----------------------------
(***************************************************************************)
(* The clock primitives the clock inspector and the slicer rely on:        *)
(* wrap-safe differences of the 90 kHz PTS/DTS clock and of the 27 MHz     *)
(* PCR/SCR clock, and C's integer division.  These are library routines    *)
(* (ltntstools_pts_diff, ltntstools_scr_diff, MAX_PTS_VALUE, MAX_SCR_VALUE) *)
(* that are not under src/; they are written from the spec (section 4.A). *)
(*                                                                         *)
(* The moduli are constants so that a model can shrink them: in the        *)
(* program MaxPts = 2^33 and ScrPerPts = 300.                              *)
(***************************************************************************)
EXTENDS Integers

CONSTANTS
    MaxPts,     \* modulus of the 33-bit 90 kHz PTS/DTS clock
    ScrPerPts   \* 27 MHz ticks per 90 kHz tick

ASSUME ClockAssumption ==
    /\ MaxPts \in Nat \ {0}
    /\ ScrPerPts \in Nat \ {0}

\* MAX_SCR_VALUE: modulus of the 27 MHz clock.
MaxScr == MaxPts * ScrPerPts

\* ltntstools_pts_diff(prev, next): the forward distance from prev to next,
\* adding the modulus when next has wrapped below prev.
PtsDiff(prev, next) ==
    IF next >= prev THEN next - prev ELSE next + MaxPts - prev

\* ltntstools_scr_diff(prev, next), the same over the 27 MHz clock.
ScrDiff(prev, next) ==
    IF next >= prev THEN next - prev ELSE next + MaxScr - prev

\* C's "/" on signed integers truncates toward zero, where TLA+'s \div
\* rounds toward minus infinity.
CDiv(a, b) == IF a >= 0 THEN a \div b ELSE -((-a) \div b)
=============================================================================
