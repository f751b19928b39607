------------------------ MODULE InspectorClockProofs ------------------------
(***************************************************************************)
(* Proofs of the three results of the inspector that depend on the       *)
(* stream and not only on the shape of the state: the continuity-error     *)
(* count of processPacketStats, the SCR-DIFF column of processSCRStats and *)
(* the PTS step of processPESHeader, for every value of the constants.     *)
(*                                                                         *)
(* All hold because a ghost of the stream and the PID table stay in step:  *)
(* the last continuity counter the table saw is the generator's, the last  *)
(* SCR the table saw is the true time of the PID's last PCR reduced to the *)
(* 27 MHz clock, and the last PTS it holds is the true PTS reduced to 33   *)
(* bits.  The lemmas first show which stages of the pipeline leave which   *)
(* of those fields alone.                                                  *)
(***************************************************************************)
EXTENDS InspectorProofs

\* The inductive strengthening of CcErrorsCountLosses: a PID that has had a
\* packet remembers the counter the stream last sent on it.
CcIInv ==
    /\ TypeOK
    /\ \A p \in Pids : pids[p].pkt_count > 0 => pids[p].cc = g[p].seq
    /\ CcErrorsCountLosses

\* The inductive strengthening of ScrDiffTracksElapsed: the true times of
\* the last two PCRs of a PID are in order and not in the future, and with
\* -s the table has counted a PCR exactly when one was seen, and holds the
\* last one's true time modulo the 27 MHz clock.
ScrIInv ==
    /\ TypeOK
    /\ \A p \in Pids :
        /\ g[p].pcrPrev # None =>
              g[p].pcrLast # None /\ g[p].pcrPrev \in Nat /\ g[p].pcrPrev <= g[p].pcrLast
        /\ g[p].pcrLast # None => g[p].pcrLast \in Nat /\ g[p].pcrLast <= now
        /\ DoScrStats =>
              /\ pids[p].scr_updateCount > 0 <=> g[p].pcrLast # None
              /\ g[p].pcrLast # None => pids[p].scr = g[p].pcrLast % MaxScr
    /\ ScrDiffTracksElapsed

\* The inductive strengthening of PtsDiffTracksStep: once a PID has had a
\* PTS-bearing header, the parse buffer holds its PTS (a later header
\* without one keeps it), and while the buffered header carries no PTS,
\* pts_last already holds that PTS; so the next PTS-bearing header is
\* compared with the previous one whichever way the buffer is copied.
PtsIInv ==
    /\ TypeOK
    /\ \A p \in Pids :
        /\ g[p].ptsLast # None =>
              /\ g[p].ptsLast \in Nat
              /\ pids[p].pes.PTS = g[p].ptsLast % MaxPts
              /\ ~HasPts(pids[p].pes) => pids[p].pts_last.PTS = g[p].ptsLast % MaxPts
        /\ g[p].ptsPrev # None => g[p].ptsLast # None
    /\ PtsDiffTracksStep

\* The counters of a PID record that processPacketStats and
\* processSCRStats own.
SameCounters(a, b) ==
    /\ a.pkt_count = b.pkt_count /\ a.cc = b.cc /\ a.cc_errors = b.cc_errors
    /\ a.scr = b.scr /\ a.scr_updateCount = b.scr_updateCount
\* The fields of a PID record that the PTS step is computed from.
SamePts(a, b) ==
    a.pes = b.pes /\ a.pts_last = b.pts_last /\ a.pts_diff_ticks = b.pts_diff_ticks

\* The header pts_last holds once the prologue of processPESHeader has run:
\* the buffered header if it carries a PTS, else the one before.
LastPtsHdr(r) == IF HasPts(r.pes) THEN r.pes ELSE r.pts_last
-----------------------------------------------------------------------------
(* Arithmetic of the two clocks.                                           *)

\* The 4-bit continuity counter: a packet sent lost + 1 counts after the
\* one last seen matches "last + 1" exactly when lost is a multiple of 16.
LEMMA CcSkip ==
    ASSUME NEW x \in 0..(CcModulus - 1), NEW lost \in Int
    PROVE  ((x + 1) % CcModulus # (x + 1 + lost) % CcModulus) <=> (lost % CcModulus # 0)
BY DEF CcModulus

\* scr_diff of two readings of the 27 MHz clock is the true time between
\* them whenever that is less than a clock period, wrap or no wrap.
LEMMA ScrDiffElapsed ==
    ASSUME NEW a \in Nat, NEW t \in Nat, a <= t, t - a < MaxScr
    PROVE  ScrDiff(a % MaxScr, t % MaxScr) = t - a
<1> DEFINE qa == a \div MaxScr
           qt == t \div MaxScr
           ra == a % MaxScr
           rt == t % MaxScr
           D == IF rt >= ra THEN rt - ra ELSE rt + MaxScr - ra
<1>1. MaxScr \in Nat \ {0}
  BY ConstantFacts
<1>2. /\ qa \in Nat /\ ra \in 0..(MaxScr - 1) /\ a = qa * MaxScr + ra
      /\ qt \in Nat /\ rt \in 0..(MaxScr - 1) /\ t = qt * MaxScr + rt
  BY <1>1
<1>3. ScrDiff(a % MaxScr, t % MaxScr) = D
  BY DEF ScrDiff
<1> HIDE DEF qa, qt, ra, rt
<1>4. /\ qa * MaxScr + ra <= qt * MaxScr + rt
      /\ (qt * MaxScr + rt) - (qa * MaxScr + ra) < MaxScr
  BY <1>2
<1>5. D = (qt * MaxScr + rt) - (qa * MaxScr + ra)
  <2>1. CASE qt < qa
    <3>1. (qa - qt) * MaxScr >= MaxScr
      BY <1>1, <1>2, <2>1
    <3>. QED
      BY <1>1, <1>2, <1>4, <3>1
  <2>2. CASE qt > qa + 1
    <3>1. (qt - qa) * MaxScr >= 2 * MaxScr
      BY <1>1, <1>2, <2>2
    <3>. QED
      BY <1>1, <1>2, <1>4, <3>1
  <2>3. CASE qt = qa
    BY <1>1, <1>2, <1>4, <2>3 DEF D
  <2>4. CASE qt = qa + 1
    <3>1. qt * MaxScr = qa * MaxScr + MaxScr
      BY <1>1, <1>2, <2>4
    <3>. QED
      BY <1>1, <1>2, <1>4, <2>4, <3>1 DEF D
  <2>. QED
    BY <1>2, <2>1, <2>2, <2>3, <2>4
<1>6. D = t - a
  BY <1>2, <1>5
<1> HIDE DEF D
<1>. QED
  BY <1>3, <1>6
\* A multiple of a positive divisor leaves no remainder.
LEMMA MultipleMod ==
    ASSUME NEW x \in Int, NEW M \in Nat \ {0}
    PROVE  (x * M) % M = 0
<1> DEFINE q == (x * M) \div M
           r == (x * M) % M
<1>1. q \in Int /\ r \in 0..(M - 1) /\ x * M = q * M + r
  OBVIOUS
<1> HIDE DEF q, r
<1>2. r = (x - q) * M
  BY <1>1
<1>3. CASE x - q >= 1
  <2>1. (x - q) * M >= M
    BY <1>1, <1>3
  <2>. QED
    BY <1>1, <1>2, <2>1
<1>4. CASE x - q <= -1
  <2>1. (x - q) * M <= -M
    BY <1>1, <1>4
  <2>. QED
    BY <1>1, <1>2, <2>1
<1>5. CASE x - q = 0
  BY <1>2, <1>5
<1>. QED
  BY <1>1, <1>3, <1>4, <1>5 DEF r

\* The PTS step of lines 870-873 on two readings of the 90 kHz clock: it
\* lies in the window (WrapWindow - MaxPts, WrapWindow] and is congruent
\* to the true step modulo the clock, whatever the two true times.
LEMMA PtsStepTracks ==
    ASSUME NEW a \in Int, NEW b \in Int
    PROVE  /\ (PtsStep(a % MaxPts, b % MaxPts) - (b - a)) % MaxPts = 0
           /\ PtsStep(a % MaxPts, b % MaxPts) \in (WrapWindow - MaxPts + 1)..WrapWindow
<1> DEFINE qa == a \div MaxPts
           qb == b \div MaxPts
           ra == a % MaxPts
           rb == b % MaxPts
           D == IF rb >= ra THEN rb - ra ELSE rb + MaxPts - ra
           d == IF D > WrapWindow THEN D - MaxPts ELSE D
<1>1. MaxPts \in Nat \ {0} /\ WrapWindow \in 0..(MaxPts - 1)
  BY ConstantFacts, InspectorAssumption
<1>2. /\ qa \in Int /\ ra \in 0..(MaxPts - 1) /\ a = qa * MaxPts + ra
      /\ qb \in Int /\ rb \in 0..(MaxPts - 1) /\ b = qb * MaxPts + rb
  BY <1>1
<1>3. PtsStep(a % MaxPts, b % MaxPts) = d
  BY DEF PtsStep, PtsDiff
<1> HIDE DEF qa, qb, ra, rb
<1>4. \E c \in {-1, 0, 1} : d - (rb - ra) = c * MaxPts
  BY <1>1, <1>2
<1>5. d \in (WrapWindow - MaxPts + 1)..WrapWindow
  BY <1>1, <1>2
<1> HIDE DEF D, d
<1>6. PICK c \in {-1, 0, 1} : d - (rb - ra) = c * MaxPts
  BY <1>4
<1>7. d - (b - a) = (c - qb + qa) * MaxPts
  <2>1. (c - qb + qa) * MaxPts = c * MaxPts - qb * MaxPts + qa * MaxPts
    BY <1>1, <1>2
  <2>. QED
    BY <1>1, <1>2, <1>5, <1>6, <2>1
<1>8. ((c - qb + qa) * MaxPts) % MaxPts = 0
  <2>1. c - qb + qa \in Int
    BY <1>2
  <2>. QED
    BY <1>1, <2>1, MultipleMod
<1>. QED
  BY <1>3, <1>5, <1>7, <1>8

-----------------------------------------------------------------------------
(* processPESStats and processPESHeader leave the counters alone.          *)

LEMMA PrologueCounters ==
    ASSUME NEW r \in PidState
    PROVE  SameCounters(Prologue(r), r)
<1> DEFINE old == r.pes
           rp == IF HasPts(old)
                 THEN [r EXCEPT !.pts_last = old,
                                !.clk_pts_initialized = TRUE,
                                !.trend_pts = [r.trend_pts EXCEPT !.alloc = TRUE]]
                 ELSE r
<1>1. SameCounters(rp, r) /\ DOMAIN rp = DOMAIN r
  BY DEF PidState, SameCounters
<1> HIDE DEF rp
<1>. QED
  BY <1>1 DEF Prologue, rp, PidState, SameCounters

LEMMA DiffsCounters ==
    ASSUME NEW r \in PidState, NEW new \in Hdr
    PROVE  SameCounters(Diffs(r, new), r)
<1> DEFINE rp == IF HasPts(new)
                 THEN [r EXCEPT !.pts_diff_ticks = PtsStep(r.pts_last.PTS, new.PTS),
                                !.pts_count = r.pts_count + 1,
                                !.pts_last_scr = r.scr]
                 ELSE r
<1>1. SameCounters(rp, r) /\ DOMAIN rp = DOMAIN r
  BY DEF PidState, SameCounters
<1> HIDE DEF rp
<1>. QED
  BY <1>1 DEF Diffs, rp, PidState, SameCounters

LEMMA TrendsCounters ==
    ASSUME NEW r \in PidState, NEW new \in Hdr
    PROVE  SameCounters(Trends(r, new), r)
<1> DEFINE rp == IF HasPts(new) THEN [r EXCEPT !.trend_pts = Feed(r.trend_pts)] ELSE r
<1>1. SameCounters(rp, r) /\ DOMAIN rp = DOMAIN r
  BY DEF PidState, SameCounters
<1> HIDE DEF rp
<1>. QED
  BY <1>1 DEF Trends, rp, PidState, SameCounters


\* The PTS fields through processPESHeader: the prologue moves a buffered
\* header with a PTS to pts_last, the parse overwrites the buffer, and a
\* header with a PTS sets pts_diff_ticks to the step from pts_last.
LEMMA ProloguePts ==
    ASSUME NEW r \in PidState
    PROVE  /\ Prologue(r).pes = r.pes
           /\ Prologue(r).pts_last = LastPtsHdr(r)
           /\ Prologue(r).pts_diff_ticks = r.pts_diff_ticks
<1> DEFINE old == r.pes
           rp == IF HasPts(old)
                 THEN [r EXCEPT !.pts_last = old,
                                !.clk_pts_initialized = TRUE,
                                !.trend_pts = [r.trend_pts EXCEPT !.alloc = TRUE]]
                 ELSE r
<1>1. /\ rp.pes = r.pes /\ rp.pts_last = LastPtsHdr(r)
      /\ rp.pts_diff_ticks = r.pts_diff_ticks /\ DOMAIN rp = DOMAIN r
  BY DEF PidState, LastPtsHdr
<1> HIDE DEF rp
<1>. QED
  BY <1>1 DEF Prologue, rp, PidState

LEMMA DiffsPts ==
    ASSUME NEW r \in PidState, NEW new \in Hdr
    PROVE  /\ Diffs(r, new).pes = r.pes
           /\ Diffs(r, new).pts_last = r.pts_last
           /\ Diffs(r, new).pts_diff_ticks =
                 IF HasPts(new) THEN PtsStep(r.pts_last.PTS, new.PTS) ELSE r.pts_diff_ticks
<1> DEFINE rp == IF HasPts(new)
                 THEN [r EXCEPT !.pts_diff_ticks = PtsStep(r.pts_last.PTS, new.PTS),
                                !.pts_count = r.pts_count + 1,
                                !.pts_last_scr = r.scr]
                 ELSE r
<1>1. /\ rp.pes = r.pes /\ rp.pts_last = r.pts_last /\ DOMAIN rp = DOMAIN r
      /\ rp.pts_diff_ticks =
            IF HasPts(new) THEN PtsStep(r.pts_last.PTS, new.PTS) ELSE r.pts_diff_ticks
  BY DEF PidState
<1> HIDE DEF rp
<1>. QED
  BY <1>1 DEF Diffs, rp, PidState

LEMMA TrendsPts ==
    ASSUME NEW r \in PidState, NEW new \in Hdr
    PROVE  SamePts(Trends(r, new), r)
<1> DEFINE rp == IF HasPts(new) THEN [r EXCEPT !.trend_pts = Feed(r.trend_pts)] ELSE r
<1>1. SamePts(rp, r) /\ DOMAIN rp = DOMAIN r
  BY DEF PidState, SamePts
<1> HIDE DEF rp
<1>. QED
  BY <1>1 DEF Trends, rp, PidState, SamePts

LEMMA HeaderRecordPts ==
    ASSUME NEW r \in PidState, NEW h \in Hdr
    PROVE  /\ HeaderRecord(r, h).pes = ParsePes(r.pes, h)
           /\ HeaderRecord(r, h).pts_last = LastPtsHdr(r)
           /\ HeaderRecord(r, h).pts_diff_ticks =
                 IF HasPts(h) THEN PtsStep(LastPtsHdr(r).PTS, h.PTS) ELSE r.pts_diff_ticks
<1> DEFINE r1 == Prologue(r)
           new == ParsePes(r1.pes, h)
           r2 == [r1 EXCEPT !.pes = new]
           r3 == Diffs(r2, new)
<1>1. /\ r1 \in PidState /\ r1.pes = r.pes /\ r1.pts_last = LastPtsHdr(r)
      /\ r1.pts_diff_ticks = r.pts_diff_ticks
  BY PrologueType, ProloguePts
<1>2. new \in Hdr /\ new = ParsePes(r.pes, h)
      /\ (HasPts(new) <=> HasPts(h)) /\ (HasPts(h) => new.PTS = h.PTS)
  BY <1>1, PidFields, ParsePesType DEF ParsePes, HasPts
<1> HIDE DEF r1, new
<1>3. /\ r2 \in PidState /\ r2.pes = new /\ r2.pts_last = r1.pts_last
      /\ r2.pts_diff_ticks = r1.pts_diff_ticks
  BY <1>1, <1>2 DEF PidState
<1> HIDE DEF r2
<1>4. /\ r3 \in PidState /\ r3.pes = new /\ r3.pts_last = r1.pts_last
      /\ r3.pts_diff_ticks =
            IF HasPts(new) THEN PtsStep(r1.pts_last.PTS, new.PTS) ELSE r1.pts_diff_ticks
  BY <1>2, <1>3, DiffsType, DiffsPts
<1> HIDE DEF r3
<1>5. SamePts(Trends(r3, new), r3)
  BY <1>2, <1>4, TrendsPts
<1>6. HeaderRecord(r, h) = Trends(r3, new)
  BY DEF HeaderRecord, r1, new, r2, r3
<1>. QED
  BY <1>1, <1>2, <1>4, <1>5, <1>6 DEF SamePts

\* processPESHeader changes no counter of processPacketStats or
\* processSCRStats.
LEMMA HeaderRecordCounters ==
    ASSUME NEW r \in PidState, NEW h \in Hdr
    PROVE  SameCounters(HeaderRecord(r, h), r)
<1> DEFINE r1 == Prologue(r)
           new == ParsePes(r1.pes, h)
           r2 == [r1 EXCEPT !.pes = new]
           r3 == Diffs(r2, new)
<1>1. r1 \in PidState /\ SameCounters(r1, r)
  BY PrologueType, PrologueCounters
<1>2. new \in Hdr
  BY <1>1, PidFields, ParsePesType
<1> HIDE DEF r1, new
<1>3. r2 \in PidState /\ SameCounters(r2, r1)
  BY <1>1, <1>2 DEF PidState, SameCounters
<1> HIDE DEF r2
<1>4. r3 \in PidState /\ SameCounters(r3, r2)
  BY <1>2, <1>3, DiffsType, DiffsCounters
<1> HIDE DEF r3
<1>5. SameCounters(Trends(r3, new), r3)
  BY <1>2, <1>4, TrendsCounters
<1>6. HeaderRecord(r, h) = Trends(r3, new)
  BY DEF HeaderRecord, r1, new, r2, r3
<1>. QED
  BY <1>1, <1>3, <1>4, <1>5, <1>6 DEF SameCounters

\* processPESStats, and processPESHeader within it, change no counter of
\* any PID.
LEMMA PipelineCounters ==
    ASSUME NEW t \in [Pids -> PidState], NEW pkt \in PacketType
    PROVE  \A q \in Pids : SameCounters(Pipeline(t, pkt)[q], AfterScr(t, pkt)[q])
<1>1. pkt.pid \in Pids /\ pkt.hdr \in Hdr
  BY DEF PacketType
<1> DEFINE t2 == AfterScr(t, pkt)
<1>2. t2 \in [Pids -> PidState]
  BY PipelineType
<1> HIDE DEF t2
<1>3. CASE ~DoPesStats
  BY <1>3 DEF Pipeline, t2, SameCounters
<1>4. CASE DoPesStats
  <2> DEFINE r0 == t2[pkt.pid]
             t1 == IF pkt.pusi
                   THEN [t2 EXCEPT ![pkt.pid] = [r0 EXCEPT !.scr_at_pes_unit_header = t2[ScrPid].scr]]
                   ELSE [t2 EXCEPT ![pkt.pid] = [r0 EXCEPT !.scr_last_seen = t2[ScrPid].scr]]
  <2>1. t1 \in [Pids -> PidState] /\ \A q \in Pids : SameCounters(t1[q], t2[q])
    <3>1. t2[ScrPid].scr \in 0..(MaxScr - 1)
      BY <1>2, ConstantFacts, PidFields
    <3>2. CASE pkt.pusi
      <4>1. t1 = [t2 EXCEPT ![pkt.pid] = [r0 EXCEPT !.scr_at_pes_unit_header = t2[ScrPid].scr]]
        BY <3>2
      <4>0. r0 \in PidState
        BY <1>1, <1>2
      <4>2. [r0 EXCEPT !.scr_at_pes_unit_header = t2[ScrPid].scr] \in PidState
        BY <4>0, <3>1 DEF PidState
      <4>3. SameCounters([r0 EXCEPT !.scr_at_pes_unit_header = t2[ScrPid].scr], r0)
        BY <1>1, <1>2 DEF PidState, SameCounters
      <4>. QED
        BY <1>1, <1>2, <4>1, <4>2, <4>3 DEF SameCounters
    <3>3. CASE ~pkt.pusi
      <4>1. t1 = [t2 EXCEPT ![pkt.pid] = [r0 EXCEPT !.scr_last_seen = t2[ScrPid].scr]]
        BY <3>3
      <4>0. r0 \in PidState
        BY <1>1, <1>2
      <4>2. [r0 EXCEPT !.scr_last_seen = t2[ScrPid].scr] \in PidState
        BY <4>0, <3>1 DEF PidState
      <4>3. SameCounters([r0 EXCEPT !.scr_last_seen = t2[ScrPid].scr], r0)
        BY <1>1, <1>2 DEF PidState, SameCounters
      <4>. QED
        BY <1>1, <1>2, <4>1, <4>2, <4>3 DEF SameCounters
    <3>. QED
      BY <3>2, <3>3
  <2> HIDE DEF t1
  <2>2. SameCounters(HeaderRecord(t1[pkt.pid], pkt.hdr), t1[pkt.pid])
    BY <1>1, <2>1, HeaderRecordCounters
  <2>3. Pipeline(t, pkt) = IF HeaderProcessed(pkt)
                           THEN [t1 EXCEPT ![pkt.pid] = HeaderRecord(t1[pkt.pid], pkt.hdr)]
                           ELSE t1
    BY <1>4 DEF Pipeline, PesStats, t1, t2
  <2>4. \A q \in Pids : SameCounters(Pipeline(t, pkt)[q], t1[q])
    <3>1. CASE HeaderProcessed(pkt)
      <4>1. Pipeline(t, pkt)[pkt.pid] = HeaderRecord(t1[pkt.pid], pkt.hdr)
        BY <1>1, <2>1, <2>3, <3>1
      <4>2. \A q \in Pids \ {pkt.pid} : Pipeline(t, pkt)[q] = t1[q]
        BY <1>1, <2>1, <2>3, <3>1
      <4>. QED
        BY <2>2, <4>1, <4>2 DEF SameCounters
    <3>2. CASE ~HeaderProcessed(pkt)
      BY <2>3, <3>2 DEF SameCounters
    <3>. QED
      BY <3>1, <3>2
  <2>. QED
    BY <2>1, <2>4 DEF SameCounters, t2
<1>. QED
  BY <1>3, <1>4

\* What processPacketStats and processSCRStats do to the counters: the
\* packet's PID counts it, takes its continuity counter, counts an error
\* when CcError holds and, with -s, takes its PCR; no other PID changes.
LEMMA AfterScrCounters ==
    ASSUME NEW t \in [Pids -> PidState], NEW pkt \in PacketType
    PROVE  LET r == AfterScr(t, pkt)[pkt.pid]
               scrTaken == DoScrStats /\ pkt.pcr # NoPcr
           IN  /\ \A q \in Pids \ {pkt.pid} : SameCounters(AfterScr(t, pkt)[q], t[q])
               /\ r.pkt_count = t[pkt.pid].pkt_count + 1
               /\ r.cc = pkt.cc
               /\ r.cc_errors = IF CcError(t, pkt) THEN t[pkt.pid].cc_errors + 1
                                                  ELSE t[pkt.pid].cc_errors
               /\ r.scr_updateCount = IF scrTaken THEN t[pkt.pid].scr_updateCount + 1
                                                  ELSE t[pkt.pid].scr_updateCount
               /\ r.scr = IF scrTaken THEN pkt.pcr ELSE t[pkt.pid].scr
<1>1. pkt.pid \in Pids
  BY DEF PacketType
<1> DEFINE t1 == PacketStats(t, pkt)
<1>2. t1 \in [Pids -> PidState]
  BY PacketStatsType
<1>3. /\ \A q \in Pids \ {pkt.pid} : t1[q] = t[q]
      /\ t1[pkt.pid].pkt_count = t[pkt.pid].pkt_count + 1
      /\ t1[pkt.pid].cc = pkt.cc
      /\ t1[pkt.pid].cc_errors = IF CcError(t, pkt) THEN t[pkt.pid].cc_errors + 1
                                                   ELSE t[pkt.pid].cc_errors
      /\ t1[pkt.pid].scr_updateCount = t[pkt.pid].scr_updateCount
      /\ t1[pkt.pid].scr = t[pkt.pid].scr
  BY <1>1 DEF PacketStats, PidState
<1> HIDE DEF t1
<1>4. /\ \A q \in Pids \ {pkt.pid} : ScrStats(t1, pkt)[q] = t1[q]
      /\ ScrStats(t1, pkt)[pkt.pid].pkt_count = t1[pkt.pid].pkt_count
      /\ ScrStats(t1, pkt)[pkt.pid].cc = t1[pkt.pid].cc
      /\ ScrStats(t1, pkt)[pkt.pid].cc_errors = t1[pkt.pid].cc_errors
      /\ ScrStats(t1, pkt)[pkt.pid].scr_updateCount =
            IF pkt.pcr # NoPcr THEN t1[pkt.pid].scr_updateCount + 1
                               ELSE t1[pkt.pid].scr_updateCount
      /\ ScrStats(t1, pkt)[pkt.pid].scr =
            IF pkt.pcr # NoPcr THEN pkt.pcr ELSE t1[pkt.pid].scr
  BY <1>1, <1>2 DEF ScrStats, PidState
<1>5. CASE DoScrStats
  <2>1. AfterScr(t, pkt) = ScrStats(t1, pkt)
    BY <1>5 DEF AfterScr, t1
  <2>. QED
    BY <1>3, <1>4, <1>5, <2>1 DEF SameCounters
<1>6. CASE ~DoScrStats
  <2>1. AfterScr(t, pkt) = t1
    BY <1>6 DEF AfterScr, t1
  <2>. QED
    BY <1>3, <1>6, <2>1 DEF SameCounters
<1>. QED
  BY <1>5, <1>6
\* The PTS fields through one iteration of the ingest loop: only a header
\* that processPESHeader handles changes them, on its own PID.
LEMMA PipelinePts ==
    ASSUME NEW t \in [Pids -> PidState], NEW pkt \in PacketType
    PROVE  LET r == t[pkt.pid]
               hp == DoPesStats /\ HeaderProcessed(pkt)
               u == Pipeline(t, pkt)[pkt.pid]
           IN  /\ \A q \in Pids \ {pkt.pid} : SamePts(Pipeline(t, pkt)[q], t[q])
               /\ u.pes = IF hp THEN ParsePes(r.pes, pkt.hdr) ELSE r.pes
               /\ u.pts_last = IF hp THEN LastPtsHdr(r) ELSE r.pts_last
               /\ u.pts_diff_ticks =
                     IF hp /\ HasPts(pkt.hdr) THEN PtsStep(LastPtsHdr(r).PTS, pkt.hdr.PTS)
                                              ELSE r.pts_diff_ticks
<1>1. pkt.pid \in Pids /\ pkt.hdr \in Hdr
  BY DEF PacketType
<1> DEFINE t2 == AfterScr(t, pkt)
<1>2. t2 \in [Pids -> PidState] /\ \A q \in Pids : SamePts(t2[q], t[q])
  <2>1. \A q \in Pids : SamePts(PacketStats(t, pkt)[q], t[q])
    BY <1>1 DEF PacketStats, SamePts, PidState
  <2>2. \A w \in [Pids -> PidState] : \A q \in Pids : SamePts(ScrStats(w, pkt)[q], w[q])
    BY <1>1 DEF ScrStats, SamePts, PidState
  <2>3. PacketStats(t, pkt) \in [Pids -> PidState]
    BY PacketStatsType
  <2>. QED
    BY <2>1, <2>2, <2>3, PipelineType DEF AfterScr, SamePts
<1> HIDE DEF t2
<1>3. CASE ~DoPesStats
  <2>1. Pipeline(t, pkt) = t2
    BY <1>3 DEF Pipeline, t2
  <2>. QED
    BY <1>1, <1>2, <1>3, <2>1 DEF SamePts
<1>4. CASE DoPesStats
  <2> DEFINE r0 == t2[pkt.pid]
             t1 == IF pkt.pusi
                   THEN [t2 EXCEPT ![pkt.pid] = [r0 EXCEPT !.scr_at_pes_unit_header = t2[ScrPid].scr]]
                   ELSE [t2 EXCEPT ![pkt.pid] = [r0 EXCEPT !.scr_last_seen = t2[ScrPid].scr]]
  <2>1. t1 \in [Pids -> PidState] /\ \A q \in Pids : SamePts(t1[q], t[q])
    <3>1. t2[ScrPid].scr \in 0..(MaxScr - 1)
      BY <1>2, ConstantFacts, PidFields
    <3>2. CASE pkt.pusi
      <4>1. t1 = [t2 EXCEPT ![pkt.pid] = [r0 EXCEPT !.scr_at_pes_unit_header = t2[ScrPid].scr]]
        BY <3>2
      <4>0. r0 \in PidState
        BY <1>1, <1>2
      <4>2. [r0 EXCEPT !.scr_at_pes_unit_header = t2[ScrPid].scr] \in PidState
        BY <4>0, <3>1 DEF PidState
      <4>3. SamePts([r0 EXCEPT !.scr_at_pes_unit_header = t2[ScrPid].scr], r0)
        BY <1>1, <1>2 DEF PidState, SamePts
      <4>. QED
        BY <1>1, <1>2, <4>1, <4>2, <4>3 DEF SamePts
    <3>3. CASE ~pkt.pusi
      <4>1. t1 = [t2 EXCEPT ![pkt.pid] = [r0 EXCEPT !.scr_last_seen = t2[ScrPid].scr]]
        BY <3>3
      <4>0. r0 \in PidState
        BY <1>1, <1>2
      <4>2. [r0 EXCEPT !.scr_last_seen = t2[ScrPid].scr] \in PidState
        BY <4>0, <3>1 DEF PidState
      <4>3. SamePts([r0 EXCEPT !.scr_last_seen = t2[ScrPid].scr], r0)
        BY <1>1, <1>2 DEF PidState, SamePts
      <4>. QED
        BY <1>1, <1>2, <4>1, <4>2, <4>3 DEF SamePts
    <3>. QED
      BY <3>2, <3>3
  <2> HIDE DEF t1
  <2>2. Pipeline(t, pkt) = IF HeaderProcessed(pkt)
                           THEN [t1 EXCEPT ![pkt.pid] = HeaderRecord(t1[pkt.pid], pkt.hdr)]
                           ELSE t1
    BY <1>4 DEF Pipeline, PesStats, t1, t2
  <2>3. LastPtsHdr(t1[pkt.pid]) = LastPtsHdr(t[pkt.pid])
    BY <1>1, <2>1 DEF SamePts, LastPtsHdr
  <2>4. CASE HeaderProcessed(pkt)
    <3>1. Pipeline(t, pkt)[pkt.pid] = HeaderRecord(t1[pkt.pid], pkt.hdr)
      BY <1>1, <2>1, <2>2, <2>4
    <3>2. \A q \in Pids \ {pkt.pid} : Pipeline(t, pkt)[q] = t1[q]
      BY <1>1, <2>1, <2>2, <2>4
    <3>3. /\ HeaderRecord(t1[pkt.pid], pkt.hdr).pes = ParsePes(t1[pkt.pid].pes, pkt.hdr)
          /\ HeaderRecord(t1[pkt.pid], pkt.hdr).pts_last = LastPtsHdr(t1[pkt.pid])
          /\ HeaderRecord(t1[pkt.pid], pkt.hdr).pts_diff_ticks =
                IF HasPts(pkt.hdr) THEN PtsStep(LastPtsHdr(t1[pkt.pid]).PTS, pkt.hdr.PTS)
                                   ELSE t1[pkt.pid].pts_diff_ticks
      BY <1>1, <2>1, HeaderRecordPts
    <3>. QED
      BY <1>1, <1>4, <2>1, <2>3, <2>4, <3>1, <3>2, <3>3 DEF SamePts
  <2>5. CASE ~HeaderProcessed(pkt)
    BY <1>1, <2>1, <2>2, <2>5 DEF SamePts
  <2>. QED
    BY <2>4, <2>5
<1>. QED
  BY <1>3, <1>4

-----------------------------------------------------------------------------
(* One packet of the stream.                                               *)

\* The counters after one packet: the receiving PID's change as
\* AfterScrCounters says, with its PCR taken when -s is given and the
\* packet carries one; every other PID keeps its counters.
LEMMA ReceiveCounters ==
    ASSUME TypeOK,
           NEW p \in Pids, NEW k \in Kinds, NEW adv \in 0..MaxAdvance,
           NEW lost \in Losses,
           NEW h \in IF k.pes THEN HeadersAt(now + adv) ELSE NoHdrAt,
           Receive(p, k, adv, lost, h)
    PROVE  LET pkt == ReceivedPacket(p, k, adv, lost, h)
               scrTaken == DoScrStats /\ k.pcr
           IN  /\ \A q \in Pids \ {p} : SameCounters(pids'[q], pids[q])
               /\ pids'[p].pkt_count = pids[p].pkt_count + 1
               /\ pids'[p].cc = pkt.cc
               /\ pids'[p].cc_errors = IF CcError(pids, pkt) THEN pids[p].cc_errors + 1
                                                           ELSE pids[p].cc_errors
               /\ pids'[p].scr_updateCount = IF scrTaken THEN pids[p].scr_updateCount + 1
                                                         ELSE pids[p].scr_updateCount
               /\ pids'[p].scr = IF scrTaken THEN (now + adv) % MaxScr ELSE pids[p].scr
<1> DEFINE pkt == ReceivedPacket(p, k, adv, lost, h)
<1>1. pkt \in PacketType /\ pids' = Pipeline(pids, pkt)
  BY ReceivePacket
<1>2. pids \in [Pids -> PidState]
  BY DEF TypeOK
<1>3. pkt.pid = p /\ (pkt.pcr # NoPcr <=> k.pcr)
      /\ (k.pcr => pkt.pcr = (now + adv) % MaxScr)
  <2>1. now + adv \in Nat /\ MaxScr \in Nat \ {0}
    BY ConstantFacts DEF TypeOK
  <2>2. (now + adv) % MaxScr # NoPcr
    BY <2>1 DEF NoPcr
  <2>. QED
    BY <2>2 DEF ReceivedPacket
<1> HIDE DEF pkt
<1>4. \A q \in Pids : SameCounters(pids'[q], AfterScr(pids, pkt)[q])
  BY <1>1, <1>2, PipelineCounters
<1> DEFINE r == AfterScr(pids, pkt)[p]
<1>5. /\ \A q \in Pids \ {p} : SameCounters(AfterScr(pids, pkt)[q], pids[q])
      /\ r.pkt_count = pids[p].pkt_count + 1
      /\ r.cc = pkt.cc
      /\ r.cc_errors = IF CcError(pids, pkt) THEN pids[p].cc_errors + 1
                                            ELSE pids[p].cc_errors
      /\ r.scr_updateCount = IF DoScrStats /\ pkt.pcr # NoPcr
                             THEN pids[p].scr_updateCount + 1
                             ELSE pids[p].scr_updateCount
      /\ r.scr = IF DoScrStats /\ pkt.pcr # NoPcr THEN pkt.pcr ELSE pids[p].scr
  <2>1. pkt.pid = p
    BY <1>3
  <2>. QED
    BY <1>1, <1>2, <2>1, AfterScrCounters
<1> HIDE DEF r
<1>6. SameCounters(pids'[p], r)
  BY <1>4 DEF r
<1>7. \A q \in Pids \ {p} : SameCounters(pids'[q], pids[q])
  BY <1>4, <1>5 DEF SameCounters
<1>8. CASE DoScrStats /\ k.pcr
  <2>1. /\ r.scr_updateCount = pids[p].scr_updateCount + 1
        /\ r.scr = (now + adv) % MaxScr
    BY <1>3, <1>5, <1>8
  <2>. QED
    BY <1>5, <1>6, <1>7, <1>8, <2>1 DEF SameCounters, pkt
<1>9. CASE ~(DoScrStats /\ k.pcr)
  <2>1. /\ r.scr_updateCount = pids[p].scr_updateCount
        /\ r.scr = pids[p].scr
    BY <1>3, <1>5, <1>9
  <2>. QED
    BY <1>5, <1>6, <1>7, <1>9, <2>1 DEF SameCounters, pkt
<1>. QED
  BY <1>8, <1>9
\* The ghost after one packet: the receiving PID records the packet's
\* continuity counter, the loss a receiver can see, and the true time of
\* its PCR; every other PID's ghost is unchanged.
LEMMA ReceiveGhost ==
    ASSUME TypeOK,
           NEW p \in Pids, NEW k \in Kinds, NEW adv \in 0..MaxAdvance,
           NEW lost \in Losses,
           NEW h \in IF k.pes THEN HeadersAt(now + adv) ELSE NoHdrAt,
           Receive(p, k, adv, lost, h)
    PROVE  LET payload == k.afc \in {1, 3}
               ptsSeen == /\ DoPesStats
                          /\ HeaderProcessed(ReceivedPacket(p, k, adv, lost, h))
                          /\ HasPts(h)
           IN  /\ \A q \in Pids \ {p} : g'[q] = g[q]
               /\ g'[p].seq = IF payload THEN (g[p].seq + 1 + lost) % CcModulus
                                         ELSE g[p].seq
               /\ g'[p].losses = IF payload /\ pids[p].pkt_count > 0
                                    /\ lost % CcModulus # 0
                                 THEN g[p].losses + 1 ELSE g[p].losses
               /\ g'[p].pcrPrev = IF k.pcr THEN g[p].pcrLast ELSE g[p].pcrPrev
               /\ g'[p].pcrLast = IF k.pcr THEN now + adv ELSE g[p].pcrLast
               /\ g'[p].ptsPrev = IF ptsSeen THEN g[p].ptsLast ELSE g[p].ptsPrev
               /\ g'[p].ptsLast = IF ptsSeen THEN h.truePts ELSE g[p].ptsLast
               /\ now' = now + adv
               /\ out' = Report(pids, ReceivedPacket(p, k, adv, lost, h))
<1> DEFINE t == now + adv
           payload == k.afc \in {1, 3}
           cc == IF payload THEN (g[p].seq + 1 + lost) % CcModulus ELSE g[p].seq
           pkt == ReceivedPacket(p, k, adv, lost, h)
           ptsSeen == DoPesStats /\ HeaderProcessed(pkt) /\ HasPts(h)
           scrPcrTrue == IF p = ScrPid /\ k.pcr THEN t ELSE g[ScrPid].pcrLast
           gp == g[p]
           new == [gp EXCEPT
                     !.seq = cc,
                     !.losses = IF payload /\ pids[p].pkt_count > 0
                                   /\ lost % CcModulus # 0
                                THEN gp.losses + 1 ELSE gp.losses,
                     !.ptsPrev = IF ptsSeen THEN gp.ptsLast ELSE gp.ptsPrev,
                     !.ptsLast = IF ptsSeen THEN h.truePts ELSE gp.ptsLast,
                     !.pcrPrev = IF k.pcr THEN gp.pcrLast ELSE gp.pcrPrev,
                     !.pcrLast = IF k.pcr THEN t ELSE gp.pcrLast,
                     !.hdrScrPrev = IF ptsSeen THEN gp.hdrScrLast ELSE gp.hdrScrPrev,
                     !.hdrScrLast = IF ptsSeen THEN scrPcrTrue ELSE gp.hdrScrLast]
<1>1. /\ g' = [g EXCEPT ![p] = new]
      /\ now' = t
      /\ out' = Report(pids, pkt)
  BY DEF Receive, ReceivedPacket
<1>2. g \in [Pids -> GhostPid]
  BY DEF TypeOK
<1>3. /\ new.seq = cc
      /\ new.losses = IF payload /\ pids[p].pkt_count > 0 /\ lost % CcModulus # 0
                      THEN g[p].losses + 1 ELSE g[p].losses
      /\ new.pcrPrev = IF k.pcr THEN g[p].pcrLast ELSE g[p].pcrPrev
      /\ new.pcrLast = IF k.pcr THEN t ELSE g[p].pcrLast
      /\ new.ptsPrev = IF ptsSeen THEN g[p].ptsLast ELSE g[p].ptsPrev
      /\ new.ptsLast = IF ptsSeen THEN h.truePts ELSE g[p].ptsLast
  BY <1>2 DEF GhostPid
<1> HIDE DEF new
<1>. QED
  BY <1>1, <1>2, <1>3

-----------------------------------------------------------------------------
(* The continuity check.                                                   *)

\* One packet keeps the continuity invariant: a payload packet that is not
\* its PID's first raises "!CC Error" exactly when the packets lost before
\* it are not a multiple of 16, which is when the ghost counts a loss.
LEMMA CcStep ==
    ASSUME CcIInv,
           NEW p \in Pids, NEW k \in Kinds, NEW adv \in 0..MaxAdvance,
           NEW lost \in Losses,
           NEW h \in IF k.pes THEN HeadersAt(now + adv) ELSE NoHdrAt,
           Receive(p, k, adv, lost, h)
    PROVE  CcIInv'
<1> DEFINE pkt == ReceivedPacket(p, k, adv, lost, h)
           payload == k.afc \in {1, 3}
           cc == IF payload THEN (g[p].seq + 1 + lost) % CcModulus ELSE g[p].seq
           seen == payload /\ pids[p].pkt_count > 0 /\ lost % CcModulus # 0
<1>1. TypeOK /\ TypeOK'
  BY ReceiveType DEF CcIInv
<1>2. /\ \A q \in Pids \ {p} : SameCounters(pids'[q], pids[q])
      /\ pids'[p].pkt_count = pids[p].pkt_count + 1
      /\ pids'[p].cc = pkt.cc
      /\ pids'[p].cc_errors = IF CcError(pids, pkt) THEN pids[p].cc_errors + 1
                                                  ELSE pids[p].cc_errors
  BY <1>1, ReceiveCounters
<1>3. /\ g'[p].seq = cc
      /\ g'[p].losses = IF seen THEN g[p].losses + 1 ELSE g[p].losses
      /\ \A q \in Pids \ {p} : g'[q] = g[q]
  BY <1>1, ReceiveGhost
<1>4. pkt.cc = cc /\ pkt.pid = p /\ pkt.afc = k.afc
  BY DEF ReceivedPacket
<1>5. /\ pids[p].pkt_count \in Nat /\ pids[p].cc_errors \in Nat
      /\ g[p].seq \in 0..(CcModulus - 1) /\ lost \in Int
  BY <1>1, PidFields, ConstantFacts DEF TypeOK, GhostPid
<1> HIDE DEF pkt
<1>6. CcError(pids, pkt) <=> p # NullPid /\ seen
  <2>1. CASE payload /\ pids[p].pkt_count > 0
    <3>1. pids[p].cc = g[p].seq
      BY <2>1 DEF CcIInv
    <3>2. ((g[p].seq + 1) % CcModulus # (g[p].seq + 1 + lost) % CcModulus)
            <=> (lost % CcModulus # 0)
      BY <1>5, CcSkip
    <3>3. pkt.cc = (g[p].seq + 1 + lost) % CcModulus
      BY <1>4, <2>1
    <3>. QED
      BY <1>4, <1>5, <2>1, <3>1, <3>2, <3>3 DEF CcError
  <2>2. CASE ~(payload /\ pids[p].pkt_count > 0)
    BY <1>4, <1>5, <2>2 DEF CcError
  <2>. QED
    BY <2>1, <2>2
<1>7. pids'[p].pkt_count > 0 => pids'[p].cc = g'[p].seq
  BY <1>2, <1>3, <1>4
<1>8. pids'[p].cc_errors = IF p = NullPid THEN 0 ELSE g'[p].losses
  <2>1. pids[p].cc_errors = IF p = NullPid THEN 0 ELSE g[p].losses
    BY DEF CcIInv, CcErrorsCountLosses
  <2>. QED
    BY <1>2, <1>3, <1>6, <2>1
<1>9. \A q \in Pids \ {p} :
         /\ pids'[q].pkt_count > 0 => pids'[q].cc = g'[q].seq
         /\ pids'[q].cc_errors = IF q = NullPid THEN 0 ELSE g'[q].losses
  BY <1>2, <1>3 DEF CcIInv, CcErrorsCountLosses, SameCounters
<1>. QED
  BY <1>1, <1>7, <1>8, <1>9 DEF CcIInv, CcErrorsCountLosses

\* Continuity check (processPacketStats, lines 1181-1228): for every
\* stream, the "!CC Error" count of a PID other than the null PID is the
\* number of payload packets that followed a loss or duplicate not a
\* multiple of 16 packets long, and the null PID counts none.
THEOREM CcErrorsCorrect == Spec => []CcErrorsCountLosses
<1>1. Init => CcIInv
  BY InitType DEF Init, CcIInv, CcErrorsCountLosses, ZeroPid
<1>2. CcIInv /\ [Next]_vars => CcIInv'
  <2> SUFFICES ASSUME CcIInv, [Next]_vars PROVE CcIInv'
    OBVIOUS
  <2>1. CASE Next
    BY <2>1, CcStep DEF Next
  <2>2. CASE UNCHANGED vars
    BY <2>2 DEF CcIInv, CcErrorsCountLosses, TypeOK, vars
  <2>. QED
    BY <2>1, <2>2
<1>3. CcIInv => CcErrorsCountLosses
  BY DEF CcIInv
<1>. QED
  BY <1>1, <1>2, <1>3, PTL DEF Spec
-----------------------------------------------------------------------------
(* The SCR-DIFF column.                                                    *)

\* processPacketStats leaves the SCR counters of the packet's PID alone,
\* so the SCR-DIFF of a packet is taken against the previous PCR.
LEMMA PacketStatsScr ==
    ASSUME NEW t \in [Pids -> PidState], NEW pkt \in PacketType
    PROVE  /\ PacketStats(t, pkt)[pkt.pid].scr = t[pkt.pid].scr
           /\ PacketStats(t, pkt)[pkt.pid].scr_updateCount = t[pkt.pid].scr_updateCount
<1>1. pkt.pid \in Pids
  BY DEF PacketType
<1>. QED
  BY <1>1 DEF PacketStats, PidState

\* One packet keeps the SCR invariant: a PCR moves the PID's last PCR to
\* the previous one and takes the true time, which the table stores
\* reduced to the clock; the SCR-DIFF it reports is scr_diff of the two
\* stored values, which ScrDiffElapsed turns into the true gap.
LEMMA ScrStep ==
    ASSUME ScrIInv,
           NEW p \in Pids, NEW k \in Kinds, NEW adv \in 0..MaxAdvance,
           NEW lost \in Losses,
           NEW h \in IF k.pes THEN HeadersAt(now + adv) ELSE NoHdrAt,
           Receive(p, k, adv, lost, h)
    PROVE  ScrIInv'
<1> DEFINE t == now + adv
           pkt == ReceivedPacket(p, k, adv, lost, h)
<1>1. TypeOK /\ TypeOK'
  BY ReceiveType DEF ScrIInv
<1>2. /\ \A q \in Pids \ {p} : SameCounters(pids'[q], pids[q])
      /\ pids'[p].scr_updateCount = IF DoScrStats /\ k.pcr
                                    THEN pids[p].scr_updateCount + 1
                                    ELSE pids[p].scr_updateCount
      /\ pids'[p].scr = IF DoScrStats /\ k.pcr THEN t % MaxScr ELSE pids[p].scr
  BY <1>1, ReceiveCounters
<1>3. /\ \A q \in Pids \ {p} : g'[q] = g[q]
      /\ g'[p].pcrPrev = IF k.pcr THEN g[p].pcrLast ELSE g[p].pcrPrev
      /\ g'[p].pcrLast = IF k.pcr THEN t ELSE g[p].pcrLast
      /\ now' = t
      /\ out' = Report(pids, pkt)
  BY <1>1, ReceiveGhost
<1>4. /\ now \in Nat /\ t \in Nat /\ now <= t /\ MaxScr \in Nat \ {0}
      /\ pids[p].scr_updateCount \in Nat
  BY <1>1, ConstantFacts, PidFields DEF TypeOK
<1>5. /\ pkt \in PacketType /\ pkt.pid = p
      /\ pkt.pcr = IF k.pcr THEN t % MaxScr ELSE NoPcr
  <2>1. pkt \in PacketType
    BY <1>1, ReceivePacket
  <2>2. pkt.pid = p /\ pkt.pcr = IF k.pcr THEN t % MaxScr ELSE NoPcr
    BY Zenon DEF ReceivedPacket
  <2>. QED
    BY <2>1, <2>2
<1> HIDE DEF t, pkt
<1>6. \A q \in Pids \ {p} :
         /\ g'[q].pcrPrev # None =>
               g'[q].pcrLast # None /\ g'[q].pcrPrev \in Nat /\ g'[q].pcrPrev <= g'[q].pcrLast
         /\ g'[q].pcrLast # None => g'[q].pcrLast \in Nat /\ g'[q].pcrLast <= now'
         /\ DoScrStats =>
               /\ pids'[q].scr_updateCount > 0 <=> g'[q].pcrLast # None
               /\ g'[q].pcrLast # None => pids'[q].scr = g'[q].pcrLast % MaxScr
  BY <1>2, <1>3, <1>4 DEF ScrIInv, SameCounters
<1>7. /\ g'[p].pcrPrev # None =>
            g'[p].pcrLast # None /\ g'[p].pcrPrev \in Nat /\ g'[p].pcrPrev <= g'[p].pcrLast
      /\ g'[p].pcrLast # None => g'[p].pcrLast \in Nat /\ g'[p].pcrLast <= now'
      /\ DoScrStats =>
            /\ pids'[p].scr_updateCount > 0 <=> g'[p].pcrLast # None
            /\ g'[p].pcrLast # None => pids'[p].scr = g'[p].pcrLast % MaxScr
  <2>1. CASE k.pcr
    BY <1>2, <1>3, <1>4, <2>1 DEF ScrIInv, None
  <2>2. CASE ~k.pcr
    BY <1>2, <1>3, <1>4, <2>2 DEF ScrIInv
  <2>. QED
    BY <2>1, <2>2
<1>8. ScrDiffTracksElapsed'
  <2>1. out'.pid = p
    BY <1>3, <1>5 DEF Report
  <2>2. CASE DoScrStats /\ k.pcr
    <3>1. out'.scrDiff = IF pids[p].scr_updateCount > 0
                         THEN ScrDiff(pids[p].scr, t % MaxScr) ELSE 0
      <4>1. out'.scrDiff = ScrReportDiff(PacketStats(pids, pkt), pkt)
        BY <1>3, <1>4, <1>5, <2>2 DEF Report, NoPcr
      <4>2. /\ PacketStats(pids, pkt)[p].scr = pids[p].scr
            /\ PacketStats(pids, pkt)[p].scr_updateCount = pids[p].scr_updateCount
        BY <1>1, <1>5, PacketStatsScr DEF TypeOK
      <4>. QED
        BY <1>5, <2>2, <4>1, <4>2 DEF ScrReportDiff
    <3>2. SUFFICES ASSUME g'[p].pcrPrev # None, g'[p].pcrLast - g'[p].pcrPrev < MaxScr
                   PROVE  out'.scrDiff = g'[p].pcrLast - g'[p].pcrPrev
      BY <2>1 DEF ScrDiffTracksElapsed
    <3>3. /\ g[p].pcrLast # None /\ g[p].pcrLast \in Nat /\ g[p].pcrLast <= now
          /\ pids[p].scr_updateCount > 0 /\ pids[p].scr = g[p].pcrLast % MaxScr
          /\ g'[p].pcrPrev = g[p].pcrLast /\ g'[p].pcrLast = t
      BY <1>3, <2>2, <3>2 DEF ScrIInv
    <3>4. ScrDiff(g[p].pcrLast % MaxScr, t % MaxScr) = t - g[p].pcrLast
      BY <1>4, <3>2, <3>3, ScrDiffElapsed
    <3>. QED
      BY <3>1, <3>3, <3>4
  <2>3. CASE ~(DoScrStats /\ k.pcr)
    <3>1. out'.scrDiff = None
      BY <1>3, <1>5, <2>3 DEF Report
    <3>. QED
      BY <3>1 DEF ScrDiffTracksElapsed
  <2>. QED
    BY <2>2, <2>3
<1>. QED
  BY <1>1, <1>6, <1>7, <1>8 DEF ScrIInv

\* SCR report (processSCRStats, lines 1111-1179): for every clock modulus
\* and stream, the SCR-DIFF column of a PCR is the true number of 27 MHz
\* ticks since the previous PCR of its PID whenever that gap is shorter
\* than one period of the clock.
THEOREM ScrDiffCorrect == Spec => []ScrDiffTracksElapsed
<1>1. Init => ScrIInv
  BY InitType DEF Init, ScrIInv, ZeroPid, ScrDiffTracksElapsed, None
<1>2. ScrIInv /\ [Next]_vars => ScrIInv'
  <2> SUFFICES ASSUME ScrIInv, [Next]_vars PROVE ScrIInv'
    OBVIOUS
  <2>1. CASE Next
    BY <2>1, ScrStep DEF Next
  <2>2. CASE UNCHANGED vars
    BY <2>2 DEF ScrIInv, ScrDiffTracksElapsed, TypeOK, vars
  <2>. QED
    BY <2>1, <2>2
<1>3. ScrIInv => ScrDiffTracksElapsed
  BY DEF ScrIInv
<1>. QED
  BY <1>1, <1>2, <1>3, PTL DEF Spec
-----------------------------------------------------------------------------
(* The PTS step.                                                           *)

\* A generated PES header carries its true PTS reduced to the 33-bit
\* clock, and that true PTS is not before the start of time.
LEMMA HeaderTruth ==
    ASSUME NEW x \in Nat, NEW h \in HeadersAt(x)
    PROVE  h.truePts \in Nat /\ h.PTS = h.truePts % MaxPts
<1>1. PICK f \in Flags, l \in Leads, d \in DtsLags :
         h = [flags |-> f, PTS |-> (x \div ScrPerPts + l) % MaxPts,
              DTS |-> (x \div ScrPerPts + l - d) % MaxPts,
              truePts |-> x \div ScrPerPts + l, trueDts |-> x \div ScrPerPts + l - d]
  BY DEF HeadersAt, HeaderCandidates
<1>2. l \in Int /\ d \in Nat /\ ScrPerPts \in Nat \ {0}
  BY ConstantFacts
<1>3. x \div ScrPerPts + l - d >= 0
  BY <1>1 DEF HeadersAt
<1>. QED
  BY <1>1, <1>2, <1>3

\* The buffered header and pts_last as the proof needs them: once a PTS
\* has been seen, the header processPESHeader will compare with carries it.
LEMMA LastPtsOfInv ==
    ASSUME PtsIInv, NEW p \in Pids, g[p].ptsLast # None
    PROVE  LastPtsHdr(pids[p]).PTS = g[p].ptsLast % MaxPts
BY DEF PtsIInv, LastPtsHdr

\* One packet keeps the PTS invariant.  A header with a PTS is compared
\* with pts_last as the prologue leaves it, which holds the previous PTS;
\* PtsStepTracks turns that comparison into the true step.  A header
\* without a PTS keeps the buffered PTS and moves a buffered PTS-bearing
\* header into pts_last.
LEMMA PtsStepInv ==
    ASSUME PtsIInv,
           NEW p \in Pids, NEW k \in Kinds, NEW adv \in 0..MaxAdvance,
           NEW lost \in Losses,
           NEW h \in IF k.pes THEN HeadersAt(now + adv) ELSE NoHdrAt,
           Receive(p, k, adv, lost, h)
    PROVE  PtsIInv'
<1> DEFINE pkt == ReceivedPacket(p, k, adv, lost, h)
           hp == DoPesStats /\ HeaderProcessed(pkt)
           r == pids[p]
<1>1. TypeOK /\ TypeOK'
  BY ReceiveType DEF PtsIInv
<1>2. /\ pkt \in PacketType /\ pids' = Pipeline(pids, pkt)
      /\ pkt.pid = p /\ pkt.hdr = [flags |-> h.flags, PTS |-> h.PTS, DTS |-> h.DTS]
      /\ pkt.pes = k.pes
  BY <1>1, ReceivePacket DEF ReceivedPacket
<1>3. /\ \A q \in Pids \ {p} : g'[q] = g[q]
      /\ g'[p].ptsPrev = IF hp /\ HasPts(h) THEN g[p].ptsLast ELSE g[p].ptsPrev
      /\ g'[p].ptsLast = IF hp /\ HasPts(h) THEN h.truePts ELSE g[p].ptsLast
  BY <1>1, ReceiveGhost
<1> HIDE DEF pkt
<1>4. /\ \A q \in Pids \ {p} : SamePts(pids'[q], pids[q])
      /\ pids'[p].pes = IF hp THEN ParsePes(r.pes, pkt.hdr) ELSE r.pes
      /\ pids'[p].pts_last = IF hp THEN LastPtsHdr(r) ELSE r.pts_last
      /\ pids'[p].pts_diff_ticks =
            IF hp /\ HasPts(pkt.hdr) THEN PtsStep(LastPtsHdr(r).PTS, pkt.hdr.PTS)
                                     ELSE r.pts_diff_ticks
  BY <1>1, <1>2, PipelinePts DEF TypeOK
<1>5. (HasPts(pkt.hdr) <=> HasPts(h)) /\ pkt.hdr.PTS = h.PTS
  BY <1>2 DEF HasPts
<1> HIDE DEF hp, r
<1> DEFINE PAt(q) ==
             /\ g'[q].ptsLast # None =>
                   /\ g'[q].ptsLast \in Nat
                   /\ pids'[q].pes.PTS = g'[q].ptsLast % MaxPts
                   /\ ~HasPts(pids'[q].pes) => pids'[q].pts_last.PTS = g'[q].ptsLast % MaxPts
             /\ g'[q].ptsPrev # None => g'[q].ptsLast # None
             /\ g'[q].ptsPrev # None =>
                   /\ (pids'[q].pts_diff_ticks - (g'[q].ptsLast - g'[q].ptsPrev)) % MaxPts = 0
                   /\ pids'[q].pts_diff_ticks \in (WrapWindow - MaxPts + 1)..WrapWindow
<1>6. \A q \in Pids \ {p} : PAt(q)
  BY <1>3, <1>4 DEF PtsIInv, PtsDiffTracksStep, SamePts
<1>7. ASSUME hp /\ HasPts(h) PROVE PAt(p)
  <2>1. k.pes
    BY <1>2, <1>7 DEF hp, HeaderProcessed
  <2>2. h.truePts \in Nat /\ h.PTS = h.truePts % MaxPts
    BY <1>1, <2>1, HeaderTruth DEF TypeOK
  <2>3. /\ pids'[p].pes.PTS = h.truePts % MaxPts /\ HasPts(pids'[p].pes)
    BY <1>4, <1>5, <1>7, <2>2 DEF ParsePes, HasPts
  <2>4. g'[p].ptsLast = h.truePts /\ g'[p].ptsPrev = g[p].ptsLast
    BY <1>3, <1>7
  <2>5. g'[p].ptsPrev # None =>
          /\ (pids'[p].pts_diff_ticks - (g'[p].ptsLast - g'[p].ptsPrev)) % MaxPts = 0
          /\ pids'[p].pts_diff_ticks \in (WrapWindow - MaxPts + 1)..WrapWindow
    <3>1. SUFFICES ASSUME g[p].ptsLast # None
                   PROVE  /\ (pids'[p].pts_diff_ticks - (h.truePts - g[p].ptsLast)) % MaxPts = 0
                          /\ pids'[p].pts_diff_ticks \in (WrapWindow - MaxPts + 1)..WrapWindow
      BY <2>4
    <3>2. LastPtsHdr(r).PTS = g[p].ptsLast % MaxPts /\ g[p].ptsLast \in Nat
      BY <3>1, LastPtsOfInv DEF r, PtsIInv
    <3>3. pids'[p].pts_diff_ticks = PtsStep(g[p].ptsLast % MaxPts, h.truePts % MaxPts)
      BY <1>4, <1>5, <1>7, <2>2, <3>2
    <3>4. /\ (PtsStep(g[p].ptsLast % MaxPts, h.truePts % MaxPts)
              - (h.truePts - g[p].ptsLast)) % MaxPts = 0
          /\ PtsStep(g[p].ptsLast % MaxPts, h.truePts % MaxPts)
              \in (WrapWindow - MaxPts + 1)..WrapWindow
      <4>1. g[p].ptsLast \in Int /\ h.truePts \in Int
        BY <2>2, <3>2
      <4>. QED
        BY <4>1, PtsStepTracks, Zenon
    <3>. QED
      BY <3>3, <3>4
  <2>. QED
    BY <2>2, <2>3, <2>4, <2>5 DEF None, PAt
<1>8. ASSUME hp /\ ~HasPts(h) PROVE PAt(p)
  <2>1. g'[p].ptsLast = g[p].ptsLast /\ g'[p].ptsPrev = g[p].ptsPrev
    BY <1>3, <1>8
  <2>2. /\ pids'[p].pes.PTS = r.pes.PTS /\ ~HasPts(pids'[p].pes)
        /\ pids'[p].pts_last = LastPtsHdr(r)
        /\ pids'[p].pts_diff_ticks = r.pts_diff_ticks
    BY <1>4, <1>5, <1>8 DEF ParsePes, HasPts
  <2>3. g[p].ptsLast # None => LastPtsHdr(r).PTS = g[p].ptsLast % MaxPts
    BY LastPtsOfInv DEF r
  <2>. QED
    BY <2>1, <2>2, <2>3 DEF PtsIInv, PtsDiffTracksStep, r, PAt
<1>9. ASSUME ~hp PROVE PAt(p)
  <2>1. /\ g'[p].ptsLast = g[p].ptsLast /\ g'[p].ptsPrev = g[p].ptsPrev
        /\ pids'[p].pes = r.pes /\ pids'[p].pts_last = r.pts_last
        /\ pids'[p].pts_diff_ticks = r.pts_diff_ticks
    BY <1>3, <1>4, <1>9
  <2>. QED
    BY <2>1 DEF PtsIInv, PtsDiffTracksStep, r, PAt
<1>10. \A q \in Pids : PAt(q)
  BY <1>6, <1>7, <1>8, <1>9
<1> HIDE DEF PAt
<1>. QED
  BY <1>1, <1>10 DEF PtsIInv, PtsDiffTracksStep, PAt

\* PTS step (processPESHeader, lines 821-822 and 863-873): for every clock
\* modulus and wrap window, once a PID has had two PTS-bearing headers its
\* pts_diff_ticks is congruent to the true step between them and lies in
\* the window, although the code copies the header compared with one call
\* late from the parse buffer.
THEOREM PtsDiffCorrect == Spec => []PtsDiffTracksStep
<1>1. Init => PtsIInv
  BY InitType DEF Init, PtsIInv, PtsDiffTracksStep, None
<1>2. PtsIInv /\ [Next]_vars => PtsIInv'
  <2> SUFFICES ASSUME PtsIInv, [Next]_vars PROVE PtsIInv'
    OBVIOUS
  <2>1. CASE Next
    BY <2>1, PtsStepInv DEF Next
  <2>2. CASE UNCHANGED vars
    BY <2>2 DEF PtsIInv, PtsDiffTracksStep, TypeOK, vars
  <2>. QED
    BY <2>1, <2>2
<1>3. PtsIInv => PtsDiffTracksStep
  BY DEF PtsIInv
<1>. QED
  BY <1>1, <1>2, <1>3, PTL DEF Spec
=============================================================================
