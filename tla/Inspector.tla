----------------------------- MODULE Inspector -----------------------------
(***************************************************************************)
(* The per-packet pipeline of the clock inspector (src/src/slicer.c,       *)
(* clock_inspector and the process* functions).  For every 188-byte packet *)
(* the ingest loop calls, in this order, processPacketStats (continuity    *)
(* counter check), processSCRStats when -s or -p is given (PCR tracking),  *)
(* and processPESStats when -p is given (PES delivery span and, on a PES   *)
(* header, processPESHeader: PTS/DTS differences, conformance warnings,    *)
(* clock and trend bookkeeping).  One step of this module is one packet    *)
(* through all three, as one iteration of the loop at lines 1592-1619.    *)
(*                                                                         *)
(* The table ctx->pids[] is the variable pids.  Wallclock timestamps,      *)
(* report formatting, file positions and the clock trackers' wall anchors  *)
(* are left out: no property here reads them.  The environment is a       *)
(* transport stream generated from a ghost "true" 27 MHz time now that     *)
(* never wraps: a PCR carries now mod MaxScr, a PES header carries a PTS a *)
(* few ticks ahead of or behind now, and a payload packet carries the      *)
(* continuity counter of its PID advanced by one plus the number of        *)
(* packets lost before it.  The ghost record g[p] keeps the unwrapped      *)
(* values the properties compare the code's state with; out is what the   *)
(* last packet reported.                                                   *)
(***************************************************************************)
EXTENDS Integers, ClockMath

CONSTANTS
    Pids,              \* the PIDs of the stream
    ScrPid,            \* ctx->scr_pid, set by -S (default 0x31)
    DoScrStats,        \* ctx->doSCRStatistics (-s, or implied by -p)
    DoPesStats,        \* ctx->doPESStatistics > 0 (-p)
    EnableConformance, \* ctx->enableNonTimingConformantMessages (cleared by -Z)
    PtsTicksPerMs,     \* 90: PTS_TICKS_TO_MS divides by it
    WrapWindow,        \* 10 * 90000: a PTS step above it is taken as a wrap
    MaxDriftMs,        \* ctx->maxAllowablePTSDTSDrift (-D, default 700)
    TrendWarmup,       \* 16: PTS/DTS samples ignored before the trend is fed
    MaxPackets,        \* bound: packets per PID
    MaxAdvance,        \* bound: 27 MHz ticks between two packets
    InitNow,           \* the true time of the first packet
    Kinds,             \* packet shapes the stream may contain
    Flags,             \* PTS_DTS_flags values of PES headers
    Leads,             \* PTS minus true time, in 90 kHz ticks
    DtsLags,           \* PTS minus DTS, in 90 kHz ticks
    Losses,            \* packets lost before a payload packet (-1: duplicate)
    CcStarts           \* continuity counters a PID's stream may start from

NullPid == 8191     \* 0x1fff, excluded from the continuity check
CcModulus == 16     \* the 4-bit continuity counter: "& 0x0f"
NoPcr == -1         \* the packet carries no PCR (ltntstools_scr() < 0)
None == -1          \* ghost: no such value observed yet

\* Packet shapes: adaptation_field_control, PCR present, PUSI, PES header
\* found in the payload (ltntstools_contains_pes_header() >= 0).
PacketKind == [afc : 1..3, pcr : BOOLEAN, pusi : BOOLEAN, pes : BOOLEAN]

ASSUME InspectorAssumption ==
    /\ Pids \subseteq 1..8191
    /\ ScrPid \in Pids
    /\ DoScrStats \in BOOLEAN /\ DoPesStats \in BOOLEAN
    /\ DoPesStats => DoScrStats
    /\ EnableConformance \in BOOLEAN
    /\ PtsTicksPerMs \in Nat \ {0}
    /\ WrapWindow \in 0..(MaxPts - 1)
    /\ MaxDriftMs \in Nat
    /\ TrendWarmup \in Nat \ {0}
    /\ MaxPackets \in Nat /\ MaxAdvance \in Nat /\ InitNow \in Nat

\* The packet shapes the transport stream syntax allows: a PCR sits in an
\* adaptation field, a PUSI and a PES header in a payload.
ASSUME KindsAssumption ==
    /\ Kinds \subseteq PacketKind
    /\ \A k \in Kinds : /\ (k.pcr => k.afc \in {2, 3})
                         /\ (k.pusi => k.afc \in {1, 3})
                         /\ (k.pes => k.pusi)

ASSUME StreamAssumption ==
    /\ Flags \subseteq 0..3 /\ Leads \subseteq Int /\ DtsLags \subseteq Nat
    /\ Losses \subseteq Int
    /\ CcStarts \subseteq 0..(CcModulus - 1)

\* 27 MHz ticks per millisecond (27000 in the program).
ScrTicksPerMs == ScrPerPts * PtsTicksPerMs

-----------------------------------------------------------------------------
(* The state.                                                              *)

\* struct ltn_pes_packet_s, reduced to the fields the tool reads.
Hdr == [flags : 0..3, PTS : 0..(MaxPts - 1), DTS : 0..(MaxPts - 1)]
ZeroHdr == [flags |-> 0, PTS |-> 0, DTS |-> 0]

\* The linear trend of one clock: allocated yet, the counter of headers seen
\* (trend_pts.counter) and the number of samples added to the window.
Trend == [alloc : BOOLEAN, counter : Nat, samples : Nat]
NoTrend == [alloc |-> FALSE, counter |-> 0, samples |-> 0]

\* struct pid_s; calloc() zeroes all of it.
PidState == [pkt_count : Nat, cc : 0..(CcModulus - 1), cc_errors : Nat,
             scr_first : 0..(MaxScr - 1), scr : 0..(MaxScr - 1),
             scr_updateCount : Nat,
             scr_at_pes_unit_header : 0..(MaxScr - 1),
             scr_last_seen : 0..(MaxScr - 1),
             pes : Hdr,
             pts_count : Nat, pts_last : Hdr, pts_diff_ticks : Int,
             pts_last_scr : 0..(MaxScr - 1), clk_pts_initialized : BOOLEAN,
             trend_pts : Trend,
             dts_count : Nat, dts_last : Hdr, dts_diff_ticks : Int,
             dts_last_scr : 0..(MaxScr - 1), clk_dts_initialized : BOOLEAN,
             trend_dts : Trend]

ZeroPid == [pkt_count |-> 0, cc |-> 0, cc_errors |-> 0,
            scr_first |-> 0, scr |-> 0, scr_updateCount |-> 0,
            scr_at_pes_unit_header |-> 0, scr_last_seen |-> 0,
            pes |-> ZeroHdr,
            pts_count |-> 0, pts_last |-> ZeroHdr, pts_diff_ticks |-> 0,
            pts_last_scr |-> 0, clk_pts_initialized |-> FALSE,
            trend_pts |-> NoTrend,
            dts_count |-> 0, dts_last |-> ZeroHdr, dts_diff_ticks |-> 0,
            dts_last_scr |-> 0, clk_dts_initialized |-> FALSE,
            trend_dts |-> NoTrend]

VARIABLES
    pids,   \* ctx->pids[]
    out,    \* what the last packet reported
    now,    \* ghost: true (unwrapped) 27 MHz time of the last packet
    g       \* ghost: per PID, the true values the properties refer to

vars == <<pids, out, now, g>>

-----------------------------------------------------------------------------
(* processPacketStats (lines 1181-1228).                                   *)

\* Mutant of CcError: the expected counter is not reduced to 4 bits, so the
\* wrap 15 -> 0 is reported as a discontinuity.
CcErrorNoWrap(t, pkt) ==
    /\ pkt.afc \in {1, 3}
    /\ t[pkt.pid].pkt_count + 1 > 1
    /\ t[pkt.pid].cc + 1 # pkt.cc
    /\ pkt.pid # NullPid

\* The "!CC Error" condition: a payload-bearing packet that is not the first
\* of its PID and whose counter is not the previous packet's plus one.
CcError(t, pkt) ==
    /\ pkt.afc \in {1, 3}
    /\ t[pkt.pid].pkt_count + 1 > 1
    /\ (t[pkt.pid].cc + 1) % CcModulus # pkt.cc
    /\ pkt.pid # NullPid

PacketStats(t, pkt) ==
    LET r == t[pkt.pid]
    IN  [t EXCEPT ![pkt.pid] =
            [r EXCEPT !.pkt_count = r.pkt_count + 1,
                      !.cc_errors = IF CcError(t, pkt) THEN r.cc_errors + 1
                                                       ELSE r.cc_errors,
                      !.cc = pkt.cc]]

-----------------------------------------------------------------------------
(* processSCRStats (lines 1111-1179).                                      *)

\* Mutant of ScrReportDiff: a raw subtraction instead of scr_diff().
ScrReportDiffRaw(t, pkt) ==
    IF t[pkt.pid].scr_updateCount > 0
    THEN pkt.pcr - t[pkt.pid].scr
    ELSE 0

\* The SCR-DIFF column: ticks since the previous PCR of the PID, 0 at first.
ScrReportDiff(t, pkt) ==
    IF t[pkt.pid].scr_updateCount > 0
    THEN ScrDiff(t[pkt.pid].scr, pkt.pcr)
    ELSE 0

ScrStats(t, pkt) ==
    IF pkt.pcr = NoPcr THEN t
    ELSE LET r == t[pkt.pid]
         IN  [t EXCEPT ![pkt.pid] =
                [r EXCEPT !.scr_first = IF r.scr_updateCount > 0 THEN r.scr_first
                                                                 ELSE pkt.pcr,
                          !.scr = pkt.pcr,
                          !.scr_updateCount = r.scr_updateCount + 1]]

-----------------------------------------------------------------------------
(* processPESHeader (lines 809-1109).                                      *)

HasPts(h) == h.flags \in {2, 3}
HasDts(h) == h.flags = 3

\* Lines 821-857: the header parsed by the PREVIOUS call, still in p->pes,
\* becomes pts_last / dts_last; the clock and the trend of each clock it
\* carries are set up on first use.
Prologue(r) ==
    LET old == r.pes
        rp == IF HasPts(old)
              THEN [r EXCEPT !.pts_last = old,
                             !.clk_pts_initialized = TRUE,
                             !.trend_pts = [r.trend_pts EXCEPT !.alloc = TRUE]]
              ELSE r
    IN  IF HasDts(old)
        THEN [rp EXCEPT !.dts_last = old,
                        !.clk_dts_initialized = TRUE,
                        !.trend_dts = [rp.trend_dts EXCEPT !.alloc = TRUE]]
        ELSE rp

\* ltn_pes_packet_parse (line 863, a library routine): the fields the header
\* carries are overwritten, the others keep their previous values.
ParsePes(old, h) ==
    [flags |-> h.flags,
     PTS   |-> IF HasPts(h) THEN h.PTS ELSE old.PTS,
     DTS   |-> IF HasDts(h) THEN h.DTS ELSE old.DTS]

\* Mutant of PtsStep: a step of exactly the window is taken as a wrap.
PtsStepAtWindow(last, new) ==
    LET d == PtsDiff(last, new)
    IN  IF d >= WrapWindow THEN d - MaxPts ELSE d

\* Lines 870-873: the PTS step, corrected when above 10 seconds.
PtsStep(last, new) ==
    LET d == PtsDiff(last, new)
    IN  IF d > WrapWindow THEN d - MaxPts ELSE d

\* Lines 876 and 882: milliseconds of the PID's own SCR since the last header.
ScrMsSince(lastScr, r) == ScrDiff(lastScr, r.scr) \div ScrTicksPerMs

\* Lines 865-884: the differences, counters and SCR captures.
Diffs(r, new) ==
    LET rp == IF HasPts(new)
              THEN [r EXCEPT !.pts_diff_ticks = PtsStep(r.pts_last.PTS, new.PTS),
                             !.pts_count = r.pts_count + 1,
                             !.pts_last_scr = r.scr]
              ELSE r
    IN  IF HasDts(new)
        THEN [rp EXCEPT !.dts_diff_ticks = PtsDiff(r.pts_last.DTS, new.DTS),
                        !.dts_count = r.dts_count + 1,
                        !.dts_last_scr = r.scr]
        ELSE rp

\* Mutant of Feed: the warm-up comparison is off by one.
FeedEarly(tr) ==
    [tr EXCEPT !.counter = tr.counter + 1,
               !.samples = IF tr.counter + 1 >= TrendWarmup THEN tr.samples + 1
                                                            ELSE tr.samples]

\* Lines 906-933 and 1029-1055: count the header; past the warm-up the
\* sample goes into the trend (kllineartrend_add under the trend lock).
Feed(tr) ==
    [tr EXCEPT !.counter = tr.counter + 1,
               !.samples = IF tr.counter + 1 > TrendWarmup THEN tr.samples + 1
                                                           ELSE tr.samples]

Trends(r, new) ==
    LET rp == IF HasPts(new) THEN [r EXCEPT !.trend_pts = Feed(r.trend_pts)] ELSE r
    IN  IF HasDts(new) THEN [rp EXCEPT !.trend_dts = Feed(rp.trend_dts)] ELSE rp

\* The PID's record after processPESHeader with header h.
HeaderRecord(r, h) ==
    LET r1 == Prologue(r)
        new == ParsePes(r1.pes, h)
    IN  Trends(Diffs([r1 EXCEPT !.pes = new], new), new)

\* The warnings of processPESHeader (lines 935-964 and 1057-1077), from the
\* record r before the call and the SCR of the configured SCR PID.
HeaderWarnings(r, h, scrPidScr) ==
    LET r1 == Prologue(r)
        new == ParsePes(r1.pes, h)
        r2 == Diffs([r1 EXCEPT !.pes = new], new)
    IN  [ptsHdr  |-> HasPts(new),
         behind  |-> /\ HasPts(new) /\ EnableConformance
                     /\ new.PTS * ScrPerPts - scrPidScr < 0,
         ptsJump |-> HasPts(new) /\ CDiv(r2.pts_diff_ticks, PtsTicksPerMs) >= MaxDriftMs,
         ptsScr  |-> HasPts(new) /\ ScrMsSince(r1.pts_last_scr, r1) >= MaxDriftMs,
         dtsJump |-> HasDts(new) /\ CDiv(r2.dts_diff_ticks, PtsTicksPerMs) >= MaxDriftMs,
         dtsScr  |-> HasDts(new) /\ ScrMsSince(r1.dts_last_scr, r1) >= MaxDriftMs]

\* The warnings a PES header can raise.
Warnings == [ptsHdr : BOOLEAN, behind : BOOLEAN, ptsJump : BOOLEAN,
             ptsScr : BOOLEAN, dtsJump : BOOLEAN, dtsScr : BOOLEAN]

NoWarnings == [ptsHdr |-> FALSE, behind |-> FALSE, ptsJump |-> FALSE,
               ptsScr |-> FALSE, dtsJump |-> FALSE, dtsScr |-> FALSE]

-----------------------------------------------------------------------------
(* processPESStats (lines 1230-1258).                                      *)

\* Line 1255: a header is processed on a PUSI packet in which a PES start
\* code was found, on a PID other than 0.
HeaderProcessed(pkt) == pkt.pusi /\ pkt.pes /\ pkt.pid > 0

\* Line 1244: the SCR ticks the previous PES took to arrive.
PriorDelivery(t, pkt) ==
    t[pkt.pid].scr_last_seen - t[pkt.pid].scr_at_pes_unit_header

PesStats(t, pkt) ==
    LET scrNow == t[ScrPid].scr
        t1 == IF pkt.pusi
              THEN [t EXCEPT ![pkt.pid].scr_at_pes_unit_header = scrNow]
              ELSE [t EXCEPT ![pkt.pid].scr_last_seen = scrNow]
    IN  IF HeaderProcessed(pkt)
        THEN [t1 EXCEPT ![pkt.pid] = HeaderRecord(t1[pkt.pid], pkt.hdr)]
        ELSE t1

-----------------------------------------------------------------------------
(* One iteration of the ingest loop (lines 1592-1619).                     *)

AfterScr(t, pkt) ==
    LET t1 == PacketStats(t, pkt)
    IN  IF DoScrStats THEN ScrStats(t1, pkt) ELSE t1

Pipeline(t, pkt) ==
    LET t2 == AfterScr(t, pkt)
    IN  IF DoPesStats THEN PesStats(t2, pkt) ELSE t2

\* What the packet reported.
Report(t, pkt) ==
    LET t2 == AfterScr(t, pkt)
        hdr == DoPesStats /\ HeaderProcessed(pkt)
    IN  [pid      |-> pkt.pid,
         ccError  |-> CcError(t, pkt),
         scrDiff  |-> IF DoScrStats /\ pkt.pcr # NoPcr
                      THEN ScrReportDiff(PacketStats(t, pkt), pkt) ELSE None,
         hdr      |-> hdr,
         delivery |-> IF hdr THEN PriorDelivery(t2, pkt) ELSE 0,
         warn     |-> IF hdr
                      THEN HeaderWarnings(t2[pkt.pid], pkt.hdr, t2[ScrPid].scr)
                      ELSE NoWarnings]

-----------------------------------------------------------------------------
(* The environment: a stream generated from the true time.                 *)

\* Ghost record of a PID: seq is the counter of its last payload packet,
\* losses the number of loss events a receiver could see, and the last two
\* true PTS values, PCR values, and SCR-PID PCR values at PTS headers.
GhostPid == [seq : 0..(CcModulus - 1), losses : Nat,
             ptsPrev : Int, ptsLast : Int, pcrPrev : Int, pcrLast : Int,
             hdrScrPrev : Int, hdrScrLast : Int]

\* PES headers that can arrive at true time t, with their true PTS and DTS:
\* the PTS leads the true time by l ticks, the DTS trails the PTS by d.
HeaderCandidates(t) ==
    { [flags |-> f, PTS |-> (t \div ScrPerPts + l) % MaxPts,
       DTS |-> (t \div ScrPerPts + l - d) % MaxPts,
       truePts |-> t \div ScrPerPts + l, trueDts |-> t \div ScrPerPts + l - d] :
         f \in Flags, l \in Leads, d \in DtsLags }

\* Those of them whose DTS is not before the start of time.
HeadersAt(t) == {h \in HeaderCandidates(t) : h.trueDts >= 0}

\* A header with no time stamps stands for "no PES header in the packet".
NoHdrAt == {[flags |-> 0, PTS |-> 0, DTS |-> 0, truePts |-> None, trueDts |-> None]}

Init ==
    /\ pids = [p \in Pids |-> ZeroPid]
    /\ out = [pid |-> ScrPid, ccError |-> FALSE, scrDiff |-> None, hdr |-> FALSE,
              delivery |-> 0, warn |-> NoWarnings]
    /\ now = InitNow
    /\ \E s \in [Pids -> CcStarts] :
          g = [p \in Pids |-> [seq |-> s[p], losses |-> 0,
                               ptsPrev |-> None, ptsLast |-> None,
                               pcrPrev |-> None, pcrLast |-> None,
                               hdrScrPrev |-> None, hdrScrLast |-> None]]

\* The next packet of the stream, on PID p, of shape k, adv ticks after the
\* previous one, lost packets before it, carrying header h.
Receive(p, k, adv, lost, h) ==
    LET t == now + adv
        payload == k.afc \in {1, 3}
        cc == IF payload THEN (g[p].seq + 1 + lost) % CcModulus ELSE g[p].seq
        pkt == [pid |-> p, afc |-> k.afc, cc |-> cc,
                pcr |-> IF k.pcr THEN t % MaxScr ELSE NoPcr,
                pusi |-> k.pusi, pes |-> k.pes,
                hdr |-> [flags |-> h.flags, PTS |-> h.PTS, DTS |-> h.DTS]]
        ptsSeen == DoPesStats /\ HeaderProcessed(pkt) /\ HasPts(h)
        pcrSeen == k.pcr
        scrPcrTrue == IF p = ScrPid /\ pcrSeen THEN t ELSE g[ScrPid].pcrLast
        gp == g[p]
    IN  /\ pids[p].pkt_count < MaxPackets
        /\ payload \/ lost = 0
        /\ pids' = Pipeline(pids, pkt)
        /\ out' = Report(pids, pkt)
        /\ now' = t
        /\ g' = [g EXCEPT ![p] =
                  [gp EXCEPT
                     !.seq = cc,
                     !.losses = IF payload /\ pids[p].pkt_count > 0
                                   /\ lost % CcModulus # 0
                                THEN gp.losses + 1 ELSE gp.losses,
                     !.ptsPrev = IF ptsSeen THEN gp.ptsLast ELSE gp.ptsPrev,
                     !.ptsLast = IF ptsSeen THEN h.truePts ELSE gp.ptsLast,
                     !.pcrPrev = IF pcrSeen THEN gp.pcrLast ELSE gp.pcrPrev,
                     !.pcrLast = IF pcrSeen THEN t ELSE gp.pcrLast,
                     !.hdrScrPrev = IF ptsSeen THEN gp.hdrScrLast ELSE gp.hdrScrPrev,
                     !.hdrScrLast = IF ptsSeen THEN scrPcrTrue ELSE gp.hdrScrLast]]

Next ==
    \E p \in Pids, k \in Kinds, adv \in 0..MaxAdvance, lost \in Losses :
       \E h \in IF k.pes THEN HeadersAt(now + adv) ELSE NoHdrAt :
          Receive(p, k, adv, lost, h)

Spec == Init /\ [][Next]_vars
-----------------------------------------------------------------------------
(* Properties.                                                             *)

\* Every variable has the shape the code gives it.
TypeOK ==
    /\ pids \in [Pids -> PidState]
    /\ out.pid \in Pids /\ out.ccError \in BOOLEAN /\ out.hdr \in BOOLEAN
    /\ out.scrDiff \in {None} \cup 0..(MaxScr - 1) /\ out.delivery \in Int
    /\ out.warn \in Warnings
    /\ now \in Nat
    /\ g \in [Pids -> GhostPid]

\* Continuity check (processPacketStats): on every PID but the null PID the
\* number of "!CC Error" reports is the number of payload packets that
\* followed a loss (or a duplicate) not a multiple of 16 packets long; the
\* null PID reports none.  Breaks if the 4-bit wrap 15 -> 0, adaptation-only
\* packets, or the first packet of a PID were mishandled.
CcErrorsCountLosses ==
    \A p \in Pids :
        pids[p].cc_errors = IF p = NullPid THEN 0 ELSE g[p].losses

\* SCR report (processSCRStats): the SCR-DIFF column of a PCR is the true
\* number of 27 MHz ticks since the previous PCR of the same PID, across
\* the wrap of the 27 MHz clock, whenever that gap is shorter than a
\* whole clock period.
ScrDiffTracksElapsed ==
    LET p == out.pid
    IN  /\ out.scrDiff # None
        /\ g[p].pcrPrev # None
        /\ g[p].pcrLast - g[p].pcrPrev < MaxScr
        => out.scrDiff = g[p].pcrLast - g[p].pcrPrev

\* PTS step (processPESHeader lines 822 and 870-873): once a PID has had two
\* PTS-bearing headers, pts_diff_ticks is congruent to the true step between
\* them modulo the PTS clock and lies in the window (WrapWindow - MaxPts,
\* WrapWindow]: the header compared with is the previous PTS-bearing one,
\* although the code copies it one call late from the parse buffer.
PtsDiffTracksStep ==
    \A p \in Pids :
        g[p].ptsPrev # None =>
            /\ (pids[p].pts_diff_ticks - (g[p].ptsLast - g[p].ptsPrev)) % MaxPts = 0
            /\ pids[p].pts_diff_ticks \in (WrapWindow - MaxPts + 1)..WrapWindow

\* Trend allocation (processPESHeader lines 833-838, 851-856, 910 and
\* 1032): a trend is allocated one header after the first header with that
\* clock, yet samples reach kllineartrend_add only past the warm-up; no
\* sample is ever added to a trend that does not exist.
TrendFedOnlyWhenAllocated ==
    \A p \in Pids :
        /\ pids[p].trend_pts.samples > 0 => pids[p].trend_pts.alloc
        /\ pids[p].trend_dts.samples > 0 => pids[p].trend_dts.alloc

\* Spec 4.F: the "Difference between previous and current 90KHz clock"
\* warning is raised only for a PTS that follows an earlier PTS of its PID
\* by at least MaxDriftMs, forward or backward.
JumpWarningSound ==
    LET p == out.pid
        step == g[p].ptsLast - g[p].ptsPrev
    IN  out.warn.ptsJump =>
            /\ g[p].ptsPrev # None
            /\ (step >= MaxDriftMs * PtsTicksPerMs \/ -step >= MaxDriftMs * PtsTicksPerMs)

\* Spec 4.F and 9: "arriving BEHIND the PCR" is reported only when the PTS
\* really is earlier than the last PCR of the SCR PID; clock subtractions
\* are wrap-aware.
BehindWarningSound ==
    out.warn.behind =>
        /\ g[ScrPid].pcrLast # None
        /\ g[out.pid].ptsLast * ScrPerPts < g[ScrPid].pcrLast

\* Spec 4.F: prior_pes_delivery_ticks measures how long the previous PES
\* took to arrive, a span of SCR time, never negative.
DeliverySpanNonNegative ==
    out.hdr => out.delivery >= 0
=============================================================================
