------------------------------- MODULE Videotime -------------------------------
(***************************************************************************)
(* The conversions between a 27 MHz PCR and a videotime (days, hours,      *)
(* minutes, seconds, milliseconds) of src/src/slicer.c: pcr_to_videotime   *)
(* (lines 23-40), which the slicer uses to print index records and the     *)
(* stream duration, and videotime_to_pcr (42-54), which turns the -s and   *)
(* -e times into the PCRs the index is searched for.  The fields of a      *)
(* videotime are C ints: the products the code forms in int arithmetic    *)
(* are wrapped to 32 bits (what the two's complement build computes for   *)
(* the signed overflow), and C division truncates toward zero.  The        *)
(* values are far beyond TLC's integers; the module is for the prover.    *)
(***************************************************************************)
EXTENDS Integers, TLAPS

TwoTo31 == 2147483648
TwoTo32 == 4294967296

\* Arithmetic of a 32-bit signed int.
Wrap32(x) == ((x + TwoTo31) % TwoTo32) - TwoTo31

\* C's / on integers: the quotient truncated toward zero.
CDiv(a, b) == IF a >= 0 THEN a \div b ELSE -((-a) \div b)

\* The 27 MHz ticks of a second and of a millisecond.
TicksPerSec == 27000000
TicksPerMs == 27000

\* struct videotime_s.
Videotime == [days : Int, hours : Int, mins : Int, secs : Int, msecs : Int]

\* pcr_to_videotime: whole seconds in an int, split into days, hours,
\* minutes and seconds; the milliseconds are computed and then zeroed.
PcrToVideotime(pcr) ==
    LET seconds == Wrap32(CDiv(pcr, TicksPerSec))
        days == CDiv(seconds, 86400)
        s1 == seconds - Wrap32(days * 86400)
        hours == CDiv(s1, 3600)
        s2 == s1 - hours * 3600
        mins == CDiv(s2, 60)
    IN  [days |-> days, hours |-> hours, mins |-> mins,
         secs |-> s2 - mins * 60, msecs |-> 0]

\* videotime_to_pcr: each term is formed in int, then summed in int64.
VideotimeToPcr(vt) ==
    (  Wrap32(Wrap32(vt.days * 3600) * 24)
     + Wrap32(vt.hours * 3600)
     + Wrap32(vt.mins * 60)
     + vt.secs) * TicksPerSec
    + Wrap32(vt.msecs * TicksPerMs)

\* The videotimes the tool prints and accepts back without loss: fields in
\* their clock ranges, whole seconds, and few enough days that the total
\* of seconds fits the int of line 25 (days * 3600 * 24 at line 46 fits one
\* day further).
MaxDays == 24854
Canonical(vt) ==
    /\ vt \in Videotime
    /\ vt.days \in Nat /\ vt.days <= MaxDays
    /\ vt.hours \in 0..23
    /\ vt.mins \in 0..59
    /\ vt.secs \in 0..59
    /\ vt.msecs = 0

\* The PCRs a stream can carry: 33 bits of 90 kHz base times 300 plus the
\* extension.
MaxPcr == 8589934592 * 300 - 1
-----------------------------------------------------------------------------
\* An int product inside the int range is not changed by the wrap.
LEMMA Wrap32Id ==
    ASSUME NEW x \in Int, -TwoTo31 <= x, x < TwoTo31
    PROVE  Wrap32(x) = x
BY DEF Wrap32, TwoTo31, TwoTo32

\* The arithmetic of the round trip, on the fields as integers.
LEMMA RoundTripFields ==
    ASSUME NEW d \in Nat, d <= MaxDays, NEW h \in 0..23, NEW m \in 0..59,
           NEW sec \in 0..59
    PROVE  LET vt == [days |-> d, hours |-> h, mins |-> m, secs |-> sec,
                      msecs |-> 0]
           IN  PcrToVideotime(VideotimeToPcr(vt)) = vt
<1> DEFINE S == d * 86400 + h * 3600 + m * 60 + sec
           vt == [days |-> d, hours |-> h, mins |-> m, secs |-> sec, msecs |-> 0]
<1>1. S \in Nat /\ S < TwoTo31
  BY DEF MaxDays, TwoTo31
<1>2. VideotimeToPcr(vt) = S * TicksPerSec
  <2>1. d * 3600 \in Int /\ -TwoTo31 <= d * 3600 /\ d * 3600 < TwoTo31
    BY DEF MaxDays, TwoTo31
  <2>2. d * 3600 * 24 \in Int /\ -TwoTo31 <= d * 3600 * 24 /\ d * 3600 * 24 < TwoTo31
    BY DEF MaxDays, TwoTo31
  <2>3. Wrap32(Wrap32(d * 3600) * 24) = d * 86400
    BY <2>1, <2>2, Wrap32Id
  <2>4. Wrap32(h * 3600) = h * 3600 /\ Wrap32(m * 60) = m * 60
    BY Wrap32Id DEF TwoTo31
  <2>5. Wrap32(0 * TicksPerMs) = 0
    BY Wrap32Id DEF TwoTo31, TicksPerMs
  <2>6. vt.days = d /\ vt.hours = h /\ vt.mins = m /\ vt.secs = sec /\ vt.msecs = 0
    OBVIOUS
  <2>. QED
    BY <2>3, <2>4, <2>5, <2>6 DEF VideotimeToPcr, TicksPerSec
<1>3. Wrap32(CDiv(S * TicksPerSec, TicksPerSec)) = S
  <2>1. CDiv(S * TicksPerSec, TicksPerSec) = S
    BY <1>1 DEF CDiv, TicksPerSec
  <2>. QED
    BY <1>1, <2>1, Wrap32Id DEF TwoTo31
<1>4. CDiv(S, 86400) = d
  BY DEF CDiv
<1>5. Wrap32(d * 86400) = d * 86400
  <2>1. d * 86400 \in Int /\ -TwoTo31 <= d * 86400 /\ d * 86400 < TwoTo31
    BY DEF MaxDays, TwoTo31
  <2>. QED
    BY <2>1, Wrap32Id
<1>6. CDiv(h * 3600 + m * 60 + sec, 3600) = h
  BY DEF CDiv
<1>7. CDiv(m * 60 + sec, 60) = m
  BY DEF CDiv
<1>. QED
  BY <1>2, <1>3, <1>4, <1>5, <1>6, <1>7 DEF PcrToVideotime

\* A time given to -s or -e in the form the slicer prints it comes back
\* unchanged through videotime_to_pcr and pcr_to_videotime: the conversions
\* agree on every canonical videotime; the int overflows of lines 25 and
\* 46 are reached only past MaxDays.
THEOREM VideotimeRoundTrip ==
    ASSUME NEW vt, Canonical(vt)
    PROVE  PcrToVideotime(VideotimeToPcr(vt)) = vt
<1>1. vt = [days |-> vt.days, hours |-> vt.hours, mins |-> vt.mins,
            secs |-> vt.secs, msecs |-> 0]
  BY DEF Canonical, Videotime
<1>2. vt.days \in Nat /\ vt.days <= MaxDays /\ vt.hours \in 0..23
      /\ vt.mins \in 0..59 /\ vt.secs \in 0..59
  BY DEF Canonical
<1>3. PcrToVideotime(VideotimeToPcr(
          [days |-> vt.days, hours |-> vt.hours, mins |-> vt.mins,
           secs |-> vt.secs, msecs |-> 0]))
        = [days |-> vt.days, hours |-> vt.hours, mins |-> vt.mins,
           secs |-> vt.secs, msecs |-> 0]
  BY <1>2, RoundTripFields, Zenon
<1>. QED
  BY <1>1, <1>3

\* Every PCR of a stream prints as the whole second it lies in: converting
\* the printed time back gives the PCR rounded down to its second, so a
\* printed time given to -s finds a record no later than the one printed.
THEOREM PcrFloorsToSecond ==
    ASSUME NEW pcr \in Nat, pcr <= MaxPcr
    PROVE  LET t == VideotimeToPcr(PcrToVideotime(pcr))
           IN  t <= pcr /\ pcr < t + TicksPerSec
<1> DEFINE sc == pcr \div TicksPerSec
           d == sc \div 86400
           h == (sc - d * 86400) \div 3600
           m == (sc - d * 86400 - h * 3600) \div 60
           sec == sc - d * 86400 - h * 3600 - m * 60
<1>1. sc \in Nat /\ sc <= 95443 /\ sc * TicksPerSec <= pcr /\ pcr < sc * TicksPerSec + TicksPerSec
  BY DEF MaxPcr, TicksPerSec
<1>2. /\ d \in 0..1 /\ h \in 0..23 /\ m \in 0..59 /\ sec \in 0..59
      /\ d * 86400 + h * 3600 + m * 60 + sec = sc
  BY <1>1
<1>3. PcrToVideotime(pcr) =
        [days |-> d, hours |-> h, mins |-> m, secs |-> sec, msecs |-> 0]
  <2>1. CDiv(pcr, TicksPerSec) = sc /\ Wrap32(sc) = sc
    BY <1>1, Wrap32Id DEF CDiv, TicksPerSec, TwoTo31
  <2>2. CDiv(sc, 86400) = d /\ Wrap32(d * 86400) = d * 86400
    BY <1>1, <1>2, Wrap32Id DEF CDiv, TwoTo31
  <2>3. CDiv(sc - d * 86400, 3600) = h
    BY <1>1, <1>2 DEF CDiv
  <2>4. CDiv(sc - d * 86400 - h * 3600, 60) = m
    BY <1>1, <1>2 DEF CDiv
  <2>. QED
    BY <2>1, <2>2, <2>3, <2>4 DEF PcrToVideotime
<1>4. VideotimeToPcr(PcrToVideotime(pcr)) = sc * TicksPerSec
  <2>1. Wrap32(d * 3600) = d * 3600 /\ Wrap32(d * 3600 * 24) = d * 3600 * 24
    BY <1>2, Wrap32Id DEF TwoTo31
  <2>2. Wrap32(h * 3600) = h * 3600 /\ Wrap32(m * 60) = m * 60
    BY <1>2, Wrap32Id DEF TwoTo31
  <2>3. Wrap32(0 * TicksPerMs) = 0
    BY Wrap32Id DEF TwoTo31, TicksPerMs
  <2>4. LET vt == PcrToVideotime(pcr)
        IN  vt.days = d /\ vt.hours = h /\ vt.mins = m /\ vt.secs = sec
            /\ vt.msecs = 0
    BY <1>3
  <2>. QED
    BY <1>2, <2>1, <2>2, <2>3, <2>4 DEF VideotimeToPcr, TicksPerSec
<1>. QED
  BY <1>1, <1>4
=============================================================================
