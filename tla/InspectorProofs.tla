--------------------------- MODULE InspectorProofs ---------------------------
(***************************************************************************)
(* Proofs about the inspector pipeline of module Inspector, for every      *)
(* value of the constants that satisfies ClockAssumption and               *)
(* InspectorAssumption.                                                    *)
(*                                                                         *)
(* The record updates of the pipeline are chains of EXCEPTs on the 21      *)
(* fields of struct pid_s; each lemma below names the intermediate records *)
(* and hides them, so that each step is one update of one field.           *)
(***************************************************************************)
EXTENDS Inspector, TLAPS

\* A trend that has counted a header is allocated, or has counted exactly
\* one and the header that will allocate it at the next call of
\* processPESHeader still sits in the parse buffer; a trend with samples is
\* allocated.
TrendInv(tr, pending) ==
    /\ tr.counter > 0 => tr.alloc \/ (tr.counter = 1 /\ pending)
    /\ tr.samples > 0 => tr.alloc

PidTrendInv(r) ==
    /\ TrendInv(r.trend_pts, HasPts(r.pes))
    /\ TrendInv(r.trend_dts, HasDts(r.pes))

\* The inductive strengthening of TrendFedOnlyWhenAllocated.
TrendIInv == TypeOK /\ \A p \in Pids : PidTrendInv(pids[p])

\* The packets Receive builds.
PacketType == [pid : Pids, afc : 1..3, cc : 0..(CcModulus - 1),
               pcr : {NoPcr} \cup 0..(MaxScr - 1), pusi : BOOLEAN,
               pes : BOOLEAN, hdr : Hdr]

\* The facts about the constants the proofs use.
LEMMA ConstantFacts ==
    /\ MaxPts \in Nat \ {0} /\ ScrPerPts \in Nat \ {0}
    /\ MaxScr \in Nat \ {0}
    /\ ScrPid \in Pids
    /\ Flags \subseteq 0..3 /\ Leads \subseteq Int /\ DtsLags \subseteq Nat
    /\ Losses \subseteq Int /\ CcStarts \subseteq 0..(CcModulus - 1)
    /\ Kinds \subseteq PacketKind
    /\ InitNow \in Nat /\ MaxAdvance \in Nat
    /\ TrendWarmup \in Nat \ {0}
<1>1. MaxPts \in Nat \ {0} /\ ScrPerPts \in Nat \ {0}
  BY ClockAssumption
<1>2. MaxScr \in Nat \ {0}
  BY <1>1 DEF MaxScr
<1>3. ScrPid \in Pids /\ Kinds \subseteq PacketKind
  BY InspectorAssumption, KindsAssumption
<1>4. Flags \subseteq 0..3 /\ Leads \subseteq Int /\ DtsLags \subseteq Nat
  BY StreamAssumption
<1>5. Losses \subseteq Int /\ CcStarts \subseteq 0..(CcModulus - 1)
  BY StreamAssumption
<1>6. InitNow \in Nat /\ MaxAdvance \in Nat /\ TrendWarmup \in Nat \ {0}
  BY InspectorAssumption
<1>. QED
  BY <1>1, <1>2, <1>3, <1>4, <1>5, <1>6

\* The field types of struct pid_s, one by one.
LEMMA PidFields ==
    ASSUME NEW r \in PidState
    PROVE  /\ r.pkt_count \in Nat /\ r.cc \in 0..(CcModulus - 1)
           /\ r.cc_errors \in Nat
           /\ r.scr_first \in 0..(MaxScr - 1) /\ r.scr \in 0..(MaxScr - 1)
           /\ r.scr_updateCount \in Nat
           /\ r.scr_at_pes_unit_header \in 0..(MaxScr - 1)
           /\ r.scr_last_seen \in 0..(MaxScr - 1)
           /\ r.pes \in Hdr
           /\ r.pts_count \in Nat /\ r.pts_last \in Hdr /\ r.pts_diff_ticks \in Int
           /\ r.pts_last_scr \in 0..(MaxScr - 1)
           /\ r.clk_pts_initialized \in BOOLEAN /\ r.trend_pts \in Trend
           /\ r.dts_count \in Nat /\ r.dts_last \in Hdr /\ r.dts_diff_ticks \in Int
           /\ r.dts_last_scr \in 0..(MaxScr - 1)
           /\ r.clk_dts_initialized \in BOOLEAN /\ r.trend_dts \in Trend
BY DEF PidState

\* processPacketStats keeps the table well typed.
LEMMA PacketStatsType ==
    ASSUME NEW t \in [Pids -> PidState], NEW pkt \in PacketType
    PROVE  PacketStats(t, pkt) \in [Pids -> PidState]
<1>1. pkt.pid \in Pids /\ pkt.cc \in 0..(CcModulus - 1)
  BY DEF PacketType
<1> DEFINE r0 == t[pkt.pid]
           r1 == [r0 EXCEPT !.pkt_count = r0.pkt_count + 1]
           r2 == [r1 EXCEPT !.cc_errors = IF CcError(t, pkt) THEN r1.cc_errors + 1
                                                             ELSE r1.cc_errors]
           r3 == [r2 EXCEPT !.cc = pkt.cc]
<1>2. r0 \in PidState
  BY <1>1
<1>3. r1 \in PidState
  BY <1>2, PidFields DEF PidState
<1> HIDE DEF r1
<1>4. r2 \in PidState
  BY <1>3, PidFields DEF PidState
<1> HIDE DEF r2
<1>5. r3 \in PidState
  BY <1>1, <1>4 DEF PidState
<1>6. PacketStats(t, pkt) = [t EXCEPT ![pkt.pid] = r3]
  BY DEF PacketStats, r1, r2, r3
<1>. QED
  BY <1>1, <1>5, <1>6

\* processSCRStats keeps the table well typed.
LEMMA ScrStatsType ==
    ASSUME NEW t \in [Pids -> PidState], NEW pkt \in PacketType
    PROVE  ScrStats(t, pkt) \in [Pids -> PidState]
<1>1. pkt.pid \in Pids /\ pkt.pcr \in {NoPcr} \cup 0..(MaxScr - 1)
  BY DEF PacketType
<1>. CASE pkt.pcr = NoPcr
  BY DEF ScrStats
<1>. CASE pkt.pcr # NoPcr
  <2>1. pkt.pcr \in 0..(MaxScr - 1)
    BY <1>1 DEF NoPcr
  <2> DEFINE r0 == t[pkt.pid]
             r1 == [r0 EXCEPT !.scr_first = IF r0.scr_updateCount > 0 THEN r0.scr_first
                                                                      ELSE pkt.pcr]
             r2 == [r1 EXCEPT !.scr = pkt.pcr]
             r3 == [r2 EXCEPT !.scr_updateCount = r0.scr_updateCount + 1]
  <2>2. r0 \in PidState
    BY <1>1
  <2>3. r1 \in PidState
    BY <2>1, <2>2, PidFields DEF PidState
  <2> HIDE DEF r1
  <2>4. r2 \in PidState
    BY <2>1, <2>3 DEF PidState
  <2> HIDE DEF r2
  <2>5. r3 \in PidState
    BY <2>2, <2>4, PidFields DEF PidState
  <2>6. ScrStats(t, pkt) = [t EXCEPT ![pkt.pid] = r3]
    BY DEF ScrStats, r1, r2, r3
  <2>. QED
    BY <1>1, <2>5, <2>6
<1>. QED
  OBVIOUS

\* The prologue of processPESHeader keeps a record well typed.
LEMMA PrologueType ==
    ASSUME NEW r \in PidState
    PROVE  Prologue(r) \in PidState
<1> DEFINE old == r.pes
           a1 == [r EXCEPT !.pts_last = old]
           a2 == [a1 EXCEPT !.clk_pts_initialized = TRUE]
           a3 == [a2 EXCEPT !.trend_pts = [r.trend_pts EXCEPT !.alloc = TRUE]]
           rp == IF HasPts(old) THEN a3 ELSE r
           b1 == [rp EXCEPT !.dts_last = old]
           b2 == [b1 EXCEPT !.clk_dts_initialized = TRUE]
           b3 == [b2 EXCEPT !.trend_dts = [rp.trend_dts EXCEPT !.alloc = TRUE]]
<1>1. old \in Hdr /\ r.trend_pts \in Trend
  BY PidFields
<1>2. a1 \in PidState
  BY <1>1 DEF PidState
<1> HIDE DEF a1
<1>3. a2 \in PidState
  BY <1>2 DEF PidState
<1> HIDE DEF a2
<1>4. [r.trend_pts EXCEPT !.alloc = TRUE] \in Trend
  BY <1>1 DEF Trend
<1>5. a3 \in PidState
  BY <1>3, <1>4 DEF PidState
<1> HIDE DEF a3
<1>6. rp \in PidState
  BY <1>5
<1> HIDE DEF rp
<1>7. b1 \in PidState
  BY <1>1, <1>6 DEF PidState
<1> HIDE DEF b1
<1>8. b2 \in PidState
  BY <1>7 DEF PidState
<1> HIDE DEF b2
<1>9. [rp.trend_dts EXCEPT !.alloc = TRUE] \in Trend
  BY <1>6, PidFields DEF Trend
<1>10. b3 \in PidState
  BY <1>8, <1>9 DEF PidState
<1>11. Prologue(r) = IF HasDts(old) THEN b3 ELSE rp
  BY DEF Prologue, a1, a2, a3, rp, b1, b2, b3
<1>. QED
  BY <1>6, <1>10, <1>11

\* ltn_pes_packet_parse yields a header.
LEMMA ParsePesType ==
    ASSUME NEW old \in Hdr, NEW h \in Hdr
    PROVE  ParsePes(old, h) \in Hdr
BY DEF ParsePes, Hdr

\* The differences and SCR captures of processPESHeader keep a record typed.
LEMMA DiffsType ==
    ASSUME NEW r \in PidState, NEW new \in Hdr
    PROVE  Diffs(r, new) \in PidState
<1> DEFINE a1 == [r EXCEPT !.pts_diff_ticks = PtsStep(r.pts_last.PTS, new.PTS)]
           a2 == [a1 EXCEPT !.pts_count = r.pts_count + 1]
           a3 == [a2 EXCEPT !.pts_last_scr = r.scr]
           rp == IF HasPts(new) THEN a3 ELSE r
           b1 == [rp EXCEPT !.dts_diff_ticks = PtsDiff(r.pts_last.DTS, new.DTS)]
           b2 == [b1 EXCEPT !.dts_count = r.dts_count + 1]
           b3 == [b2 EXCEPT !.dts_last_scr = r.scr]
<1>1. /\ r.pts_last \in Hdr /\ r.scr \in 0..(MaxScr - 1)
      /\ r.pts_count \in Nat /\ r.dts_count \in Nat
  BY PidFields
<1>2. /\ PtsStep(r.pts_last.PTS, new.PTS) \in Int
      /\ PtsDiff(r.pts_last.DTS, new.DTS) \in Int
  BY <1>1, ClockAssumption DEF PtsStep, PtsDiff, Hdr
<1>3. a1 \in PidState
  BY <1>2 DEF PidState
<1> HIDE DEF a1
<1>4. a2 \in PidState
  BY <1>1, <1>3 DEF PidState
<1> HIDE DEF a2
<1>5. a3 \in PidState
  BY <1>1, <1>4 DEF PidState
<1> HIDE DEF a3
<1>6. rp \in PidState
  BY <1>5
<1> HIDE DEF rp
<1>7. b1 \in PidState
  BY <1>2, <1>6 DEF PidState
<1> HIDE DEF b1
<1>8. b2 \in PidState
  BY <1>1, <1>7 DEF PidState
<1> HIDE DEF b2
<1>9. b3 \in PidState
  BY <1>1, <1>8 DEF PidState
<1>10. Diffs(r, new) = IF HasDts(new) THEN b3 ELSE rp
  BY DEF Diffs, a1, a2, a3, rp, b1, b2, b3
<1>. QED
  BY <1>6, <1>9, <1>10

\* Feeding a trend keeps it a trend.
LEMMA FeedType ==
    ASSUME NEW tr \in Trend
    PROVE  Feed(tr) \in Trend
<1> DEFINE a1 == [tr EXCEPT !.counter = tr.counter + 1]
<1>1. a1 \in Trend
  BY DEF Trend
<1> HIDE DEF a1
<1>2. [a1 EXCEPT !.samples = IF tr.counter + 1 > TrendWarmup THEN tr.samples + 1
                                                             ELSE tr.samples] \in Trend
  BY <1>1 DEF Trend
<1>. QED
  BY <1>2 DEF Feed, a1

\* The trend bookkeeping keeps a record typed.
LEMMA TrendsType ==
    ASSUME NEW r \in PidState, NEW new \in Hdr
    PROVE  Trends(r, new) \in PidState
<1> DEFINE rp == IF HasPts(new) THEN [r EXCEPT !.trend_pts = Feed(r.trend_pts)] ELSE r
<1>1. rp \in PidState
  BY PidFields, FeedType DEF PidState
<1> HIDE DEF rp
<1>2. [rp EXCEPT !.trend_dts = Feed(rp.trend_dts)] \in PidState
  BY <1>1, PidFields, FeedType DEF PidState
<1>. QED
  BY <1>1, <1>2 DEF Trends, rp

\* processPESHeader keeps a record typed.
LEMMA HeaderRecordType ==
    ASSUME NEW r \in PidState, NEW h \in Hdr
    PROVE  HeaderRecord(r, h) \in PidState
<1> DEFINE r1 == Prologue(r)
           new == ParsePes(r1.pes, h)
<1>1. r1 \in PidState
  BY PrologueType
<1>2. new \in Hdr
  BY <1>1, PidFields, ParsePesType
<1> HIDE DEF r1, new
<1>3. [r1 EXCEPT !.pes = new] \in PidState
  BY <1>1, <1>2 DEF PidState
<1>4. Diffs([r1 EXCEPT !.pes = new], new) \in PidState
  BY <1>2, <1>3, DiffsType
<1>. QED
  BY <1>2, <1>4, TrendsType DEF HeaderRecord, r1, new

\* processPESStats keeps the table well typed.
LEMMA PesStatsType ==
    ASSUME NEW t \in [Pids -> PidState], NEW pkt \in PacketType
    PROVE  PesStats(t, pkt) \in [Pids -> PidState]
<1>1. pkt.pid \in Pids /\ pkt.hdr \in Hdr
  BY DEF PacketType
<1>2. t[ScrPid].scr \in 0..(MaxScr - 1)
  BY InspectorAssumption, PidFields
<1> DEFINE r0 == t[pkt.pid]
           t1 == IF pkt.pusi
                 THEN [t EXCEPT ![pkt.pid] = [r0 EXCEPT !.scr_at_pes_unit_header = t[ScrPid].scr]]
                 ELSE [t EXCEPT ![pkt.pid] = [r0 EXCEPT !.scr_last_seen = t[ScrPid].scr]]
<1>3. t1 \in [Pids -> PidState]
  BY <1>1, <1>2 DEF PidState
<1> HIDE DEF t1
<1>4. [t1 EXCEPT ![pkt.pid] = HeaderRecord(t1[pkt.pid], pkt.hdr)] \in [Pids -> PidState]
  BY <1>1, <1>3, HeaderRecordType
<1>5. PesStats(t, pkt) = IF HeaderProcessed(pkt)
                         THEN [t1 EXCEPT ![pkt.pid] = HeaderRecord(t1[pkt.pid], pkt.hdr)]
                         ELSE t1
  BY DEF PesStats, t1
<1>. QED
  BY <1>3, <1>4, <1>5

\* One iteration of the ingest loop keeps the table well typed.
LEMMA PipelineType ==
    ASSUME NEW t \in [Pids -> PidState], NEW pkt \in PacketType
    PROVE  /\ AfterScr(t, pkt) \in [Pids -> PidState]
           /\ Pipeline(t, pkt) \in [Pids -> PidState]
<1>1. AfterScr(t, pkt) \in [Pids -> PidState]
  BY PacketStatsType, ScrStatsType DEF AfterScr
<1>. QED
  BY <1>1, PesStatsType DEF Pipeline

\* scr_diff of two SCR values is a tick count below the modulus.
LEMMA ScrDiffRange ==
    ASSUME NEW a \in 0..(MaxScr - 1), NEW b \in 0..(MaxScr - 1)
    PROVE  ScrDiff(a, b) \in 0..(MaxScr - 1)
BY ConstantFacts DEF ScrDiff

\* The headers the environment generates have the fields of a PES header.
LEMMA HeaderShape ==
    ASSUME NEW x \in Int, NEW k \in Kinds,
           NEW h \in IF k.pes THEN HeadersAt(x) ELSE NoHdrAt
    PROVE  /\ [flags |-> h.flags, PTS |-> h.PTS, DTS |-> h.DTS] \in Hdr
           /\ h.truePts \in Int
<1>1. MaxPts \in Nat \ {0} /\ ScrPerPts \in Nat \ {0}
  BY ConstantFacts
<1>. CASE k.pes
  <2>1. h \in HeaderCandidates(x)
    BY DEF HeadersAt
  <2>2. PICK f \in Flags, l \in Leads, d \in DtsLags :
           h = [flags |-> f, PTS |-> (x \div ScrPerPts + l) % MaxPts,
                DTS |-> (x \div ScrPerPts + l - d) % MaxPts,
                truePts |-> x \div ScrPerPts + l, trueDts |-> x \div ScrPerPts + l - d]
    BY <2>1 DEF HeaderCandidates
  <2>3. f \in 0..3 /\ l \in Int /\ d \in Int
    BY ConstantFacts
  <2>. QED
    BY <1>1, <2>2, <2>3 DEF Hdr
<1>. CASE ~k.pes
  <2>a. h \in NoHdrAt
    OBVIOUS
  <2>. QED
    BY <2>a, <1>1 DEF NoHdrAt, Hdr, None
<1>. QED
  OBVIOUS

\* The report of a packet has the shape TypeOK gives out.
LEMMA ReportType ==
    ASSUME NEW t \in [Pids -> PidState], NEW pkt \in PacketType
    PROVE  LET o == Report(t, pkt)
           IN  /\ o.pid \in Pids /\ o.ccError \in BOOLEAN /\ o.hdr \in BOOLEAN
               /\ o.scrDiff \in {None} \cup 0..(MaxScr - 1) /\ o.delivery \in Int
               /\ o.warn \in Warnings
<1>1. pkt.pid \in Pids /\ pkt.pcr \in {NoPcr} \cup 0..(MaxScr - 1)
  BY DEF PacketType
<1>2. /\ AfterScr(t, pkt) \in [Pids -> PidState]
      /\ PacketStats(t, pkt) \in [Pids -> PidState]
  BY PipelineType, PacketStatsType
<1>3. pkt.pcr # NoPcr => ScrReportDiff(PacketStats(t, pkt), pkt) \in 0..(MaxScr - 1)
  <2>. SUFFICES ASSUME pkt.pcr # NoPcr
                PROVE  ScrReportDiff(PacketStats(t, pkt), pkt) \in 0..(MaxScr - 1)
    OBVIOUS
  <2>1. pkt.pcr \in 0..(MaxScr - 1)
    BY <1>1 DEF NoPcr
  <2>2. PacketStats(t, pkt)[pkt.pid].scr \in 0..(MaxScr - 1)
    BY <1>1, <1>2, PidFields
  <2>3. ScrDiff(PacketStats(t, pkt)[pkt.pid].scr, pkt.pcr) \in 0..(MaxScr - 1)
    BY <2>1, <2>2, ScrDiffRange
  <2>. QED
    BY <2>3, ConstantFacts DEF ScrReportDiff
<1>4. PriorDelivery(AfterScr(t, pkt), pkt) \in Int
  BY <1>1, <1>2, PidFields DEF PriorDelivery
<1>5. \A r, h, s : HeaderWarnings(r, h, s) \in Warnings
  BY DEF HeaderWarnings, HasPts, HasDts, Warnings
<1>6. NoWarnings \in Warnings
  BY DEF NoWarnings, Warnings
<1>. HIDE DEF HeaderWarnings, NoWarnings, ScrReportDiff, PriorDelivery
<1>. QED
  BY <1>1, <1>3, <1>4, <1>5, <1>6 DEF Report, CcError, HeaderProcessed, None

\* The packet Receive(p, k, adv, lost, h) hands to the pipeline.
ReceivedPacket(p, k, adv, lost, h) ==
    LET t == now + adv
        cc == IF k.afc \in {1, 3} THEN (g[p].seq + 1 + lost) % CcModulus ELSE g[p].seq
    IN  [pid |-> p, afc |-> k.afc, cc |-> cc,
         pcr |-> IF k.pcr THEN t % MaxScr ELSE NoPcr,
         pusi |-> k.pusi, pes |-> k.pes,
         hdr |-> [flags |-> h.flags, PTS |-> h.PTS, DTS |-> h.DTS]]

\* The environment only builds packets of the packet type, and a step
\* runs that packet through the pipeline.
LEMMA ReceivePacket ==
    ASSUME TypeOK,
           NEW p \in Pids, NEW k \in Kinds, NEW adv \in 0..MaxAdvance,
           NEW lost \in Losses,
           NEW h \in IF k.pes THEN HeadersAt(now + adv) ELSE NoHdrAt
    PROVE  /\ ReceivedPacket(p, k, adv, lost, h) \in PacketType
           /\ h.truePts \in Int
           /\ Receive(p, k, adv, lost, h) =>
                 /\ pids' = Pipeline(pids, ReceivedPacket(p, k, adv, lost, h))
                 /\ out' = Report(pids, ReceivedPacket(p, k, adv, lost, h))
<1>0. /\ [flags |-> h.flags, PTS |-> h.PTS, DTS |-> h.DTS] \in Hdr
      /\ h.truePts \in Int
  <2>1. now + adv \in Int
    BY DEF TypeOK
  <2>. QED
    BY <2>1, HeaderShape
<1>1. /\ k \in PacketKind /\ lost \in Int /\ now + adv \in Nat
      /\ g[p] \in GhostPid
  BY ConstantFacts DEF TypeOK
<1>2. (IF k.afc \in {1, 3} THEN (g[p].seq + 1 + lost) % CcModulus ELSE g[p].seq)
          \in 0..(CcModulus - 1)
  BY <1>1 DEF GhostPid, CcModulus
<1>3. ReceivedPacket(p, k, adv, lost, h) \in PacketType
  BY <1>0, <1>1, <1>2, ConstantFacts DEF ReceivedPacket, PacketType, PacketKind, NoPcr
<1>4. Receive(p, k, adv, lost, h) =>
         /\ pids' = Pipeline(pids, ReceivedPacket(p, k, adv, lost, h))
         /\ out' = Report(pids, ReceivedPacket(p, k, adv, lost, h))
  BY DEF Receive, ReceivedPacket
<1>. QED
  BY <1>0, <1>3, <1>4

\* Every step keeps TypeOK.
LEMMA ReceiveType ==
    ASSUME TypeOK,
           NEW p \in Pids, NEW k \in Kinds, NEW adv \in 0..MaxAdvance,
           NEW lost \in Losses,
           NEW h \in IF k.pes THEN HeadersAt(now + adv) ELSE NoHdrAt,
           Receive(p, k, adv, lost, h)
    PROVE  TypeOK'
<1> DEFINE t == now + adv
           payload == k.afc \in {1, 3}
           cc == IF payload THEN (g[p].seq + 1 + lost) % CcModulus ELSE g[p].seq
           pkt == ReceivedPacket(p, k, adv, lost, h)
<1>0. h.truePts \in Int
  BY ReceivePacket
<1>1. /\ lost \in Int /\ t \in Nat
      /\ g[p] \in GhostPid /\ g[ScrPid] \in GhostPid
  BY ConstantFacts DEF TypeOK
<1>2. cc \in 0..(CcModulus - 1)
  BY <1>1 DEF GhostPid, CcModulus
<1>3. pkt \in PacketType
  BY ReceivePacket
<1>4. pids' \in [Pids -> PidState]
  BY <1>3, PipelineType, ReceivePacket DEF TypeOK
<1>5. /\ out'.pid \in Pids /\ out'.ccError \in BOOLEAN /\ out'.hdr \in BOOLEAN
      /\ out'.scrDiff \in {None} \cup 0..(MaxScr - 1) /\ out'.delivery \in Int
      /\ out'.warn \in Warnings
  <2>1. out' = Report(pids, pkt)
    BY ReceivePacket
  <2>. QED
    BY <1>3, <2>1, ReportType DEF TypeOK
<1>6. now' \in Nat
  BY <1>1 DEF Receive
<1>7. g' \in [Pids -> GhostPid]
  <2> DEFINE gp == g[p]
             ptsSeen == DoPesStats /\ HeaderProcessed(pkt) /\ HasPts(h)
             scrPcrTrue == IF p = ScrPid /\ k.pcr THEN t ELSE g[ScrPid].pcrLast
             a1 == [gp EXCEPT !.seq = cc]
             a2 == [a1 EXCEPT !.losses = IF payload /\ pids[p].pkt_count > 0
                                            /\ lost % CcModulus # 0
                                         THEN gp.losses + 1 ELSE gp.losses]
             a3 == [a2 EXCEPT !.ptsPrev = IF ptsSeen THEN gp.ptsLast ELSE gp.ptsPrev]
             a4 == [a3 EXCEPT !.ptsLast = IF ptsSeen THEN h.truePts ELSE gp.ptsLast]
             a5 == [a4 EXCEPT !.pcrPrev = IF k.pcr THEN gp.pcrLast ELSE gp.pcrPrev]
             a6 == [a5 EXCEPT !.pcrLast = IF k.pcr THEN t ELSE gp.pcrLast]
             a7 == [a6 EXCEPT !.hdrScrPrev = IF ptsSeen THEN gp.hdrScrLast
                                                        ELSE gp.hdrScrPrev]
             a8 == [a7 EXCEPT !.hdrScrLast = IF ptsSeen THEN scrPcrTrue
                                                        ELSE gp.hdrScrLast]
  <2>1. h.truePts \in Int /\ scrPcrTrue \in Int
    BY <1>1, <1>0 DEF GhostPid
  <2>2. a1 \in GhostPid
    BY <1>1, <1>2 DEF GhostPid
  <2> HIDE DEF a1
  <2>3. a2 \in GhostPid
    BY <1>1, <2>2 DEF GhostPid
  <2> HIDE DEF a2
  <2>4. a3 \in GhostPid
    BY <1>1, <2>3 DEF GhostPid
  <2> HIDE DEF a3
  <2>5. a4 \in GhostPid
    BY <1>1, <2>1, <2>4 DEF GhostPid
  <2> HIDE DEF a4
  <2>6. a5 \in GhostPid
    BY <1>1, <2>5 DEF GhostPid
  <2> HIDE DEF a5
  <2>7. a6 \in GhostPid
    BY <1>1, <2>6 DEF GhostPid
  <2> HIDE DEF a6
  <2>8. a7 \in GhostPid
    BY <1>1, <2>7 DEF GhostPid
  <2> HIDE DEF a7
  <2>9. a8 \in GhostPid
    BY <1>1, <2>1, <2>8 DEF GhostPid
  <2>10. g' = [g EXCEPT ![p] = a8]
    BY DEF Receive, a1, a2, a3, a4, a5, a6, a7, a8, ReceivedPacket
  <2>. QED
    BY <2>9, <2>10 DEF TypeOK
<1>. QED
  BY <1>4, <1>5, <1>6, <1>7 DEF TypeOK

\* The initial state is well typed.
LEMMA InitType == Init => TypeOK
<1>. SUFFICES ASSUME Init PROVE TypeOK
  OBVIOUS
<1>1. ZeroPid \in PidState
  BY ConstantFacts DEF ZeroPid, PidState, ZeroHdr, Hdr, NoTrend, Trend, CcModulus
<1>2. NoWarnings \in Warnings
  BY DEF NoWarnings, Warnings
<1>3. g \in [Pids -> GhostPid]
  <2>1. PICK s \in [Pids -> CcStarts] :
           g = [p \in Pids |-> [seq |-> s[p], losses |-> 0,
                                ptsPrev |-> None, ptsLast |-> None,
                                pcrPrev |-> None, pcrLast |-> None,
                                hdrScrPrev |-> None, hdrScrLast |-> None]]
    BY DEF Init
  <2>2. \A q \in Pids : s[q] \in 0..(CcModulus - 1)
    BY ConstantFacts
  <2>3. \A q \in Pids : [seq |-> s[q], losses |-> 0,
                          ptsPrev |-> None, ptsLast |-> None,
                          pcrPrev |-> None, pcrLast |-> None,
                          hdrScrPrev |-> None, hdrScrLast |-> None] \in GhostPid
    BY <2>2 DEF GhostPid, None
  <2>. QED
    BY <2>1, <2>3
<1>. QED
  BY <1>1, <1>2, <1>3, ConstantFacts DEF Init, TypeOK, None

\* One step of the loop keeps TypeOK.
LEMMA TypeCorrectStep == TypeOK /\ [Next]_vars => TypeOK'
<1>. SUFFICES ASSUME TypeOK, [Next]_vars PROVE TypeOK'
  OBVIOUS
<1>1. CASE Next
  BY <1>1, ReceiveType DEF Next
<1>2. CASE UNCHANGED vars
  BY <1>2 DEF vars, TypeOK
<1>. QED
  BY <1>1, <1>2

\* Type correctness of the inspector: every reachable state of the packet
\* loop has a well-formed PID table, report and ghost state.
THEOREM TypeCorrect == Spec => []TypeOK
<1>1. Init => TypeOK
  BY InitType
<1>2. TypeOK /\ [Next]_vars => TypeOK'
  BY TypeCorrectStep
<1>. QED
  BY <1>1, <1>2, PTL DEF Spec

-----------------------------------------------------------------------------
(* Trends are fed only once allocated.                                     *)

\* Two records agree on the parse buffer and on both trends.
SameTrends(a, b) ==
    a.pes = b.pes /\ a.trend_pts = b.trend_pts /\ a.trend_dts = b.trend_dts

\* The prologue allocates the trend of each clock the buffered header has.
LEMMA PrologueTrends ==
    ASSUME NEW r \in PidState
    PROVE  /\ Prologue(r).pes = r.pes
           /\ Prologue(r).trend_pts.counter = r.trend_pts.counter
           /\ Prologue(r).trend_pts.samples = r.trend_pts.samples
           /\ Prologue(r).trend_pts.alloc <=> r.trend_pts.alloc \/ HasPts(r.pes)
           /\ Prologue(r).trend_dts.counter = r.trend_dts.counter
           /\ Prologue(r).trend_dts.samples = r.trend_dts.samples
           /\ Prologue(r).trend_dts.alloc <=> r.trend_dts.alloc \/ HasDts(r.pes)
<1> DEFINE old == r.pes
           rp == IF HasPts(old)
                 THEN [r EXCEPT !.pts_last = old,
                                !.clk_pts_initialized = TRUE,
                                !.trend_pts = [r.trend_pts EXCEPT !.alloc = TRUE]]
                 ELSE r
<1>1. r.trend_pts \in Trend /\ r.trend_dts \in Trend
  BY PidFields
<1>2. /\ rp \in PidState
      /\ rp.pes = r.pes /\ rp.trend_dts = r.trend_dts
      /\ rp.trend_pts.counter = r.trend_pts.counter
      /\ rp.trend_pts.samples = r.trend_pts.samples
      /\ rp.trend_pts.alloc <=> r.trend_pts.alloc \/ HasPts(r.pes)
  BY <1>1, PrologueType DEF PidState, Trend, Prologue
<1> HIDE DEF rp
<1>3. Prologue(r) = IF HasDts(old)
                    THEN [rp EXCEPT !.dts_last = old,
                                    !.clk_dts_initialized = TRUE,
                                    !.trend_dts = [rp.trend_dts EXCEPT !.alloc = TRUE]]
                    ELSE rp
  BY DEF Prologue, rp
<1>4. rp.trend_dts \in Trend
  BY <1>1, <1>2
<1>5. CASE HasDts(old)
  <2> DEFINE b == [rp EXCEPT !.dts_last = old,
                             !.clk_dts_initialized = TRUE,
                             !.trend_dts = [rp.trend_dts EXCEPT !.alloc = TRUE]]
  <2>1. /\ b.pes = rp.pes /\ b.trend_pts = rp.trend_pts
        /\ b.trend_dts = [rp.trend_dts EXCEPT !.alloc = TRUE]
    BY <1>2 DEF PidState
  <2>2. /\ b.trend_dts.counter = rp.trend_dts.counter
        /\ b.trend_dts.samples = rp.trend_dts.samples
        /\ b.trend_dts.alloc = TRUE
    BY <1>4, <2>1 DEF Trend
  <2>3. Prologue(r) = b
    BY <1>3, <1>5
  <2> HIDE DEF b
  <2>. QED
    BY <1>2, <1>5, <2>1, <2>2, <2>3, Zenon
<1>6. CASE ~HasDts(old)
  BY <1>2, <1>3, <1>6
<1>. QED
  BY <1>5, <1>6

\* The differences leave the parse buffer and the trends alone.
LEMMA DiffsTrends ==
    ASSUME NEW r \in PidState, NEW new \in Hdr
    PROVE  SameTrends(Diffs(r, new), r)
<1> DEFINE rp == IF HasPts(new)
                 THEN [r EXCEPT !.pts_diff_ticks = PtsStep(r.pts_last.PTS, new.PTS),
                                !.pts_count = r.pts_count + 1,
                                !.pts_last_scr = r.scr]
                 ELSE r
<1>1. rp \in PidState /\ SameTrends(rp, r)
  <2> DEFINE a1 == [r EXCEPT !.pts_diff_ticks = PtsStep(r.pts_last.PTS, new.PTS)]
             a2 == [a1 EXCEPT !.pts_count = r.pts_count + 1]
             a3 == [a2 EXCEPT !.pts_last_scr = r.scr]
  <2>0. /\ r.pts_last \in Hdr /\ r.scr \in 0..(MaxScr - 1) /\ r.pts_count \in Nat
        /\ PtsStep(r.pts_last.PTS, new.PTS) \in Int
    BY PidFields, ConstantFacts DEF PtsStep, PtsDiff, Hdr
  <2>a. a1 \in PidState
    BY <2>0 DEF PidState
  <2> HIDE DEF a1
  <2>b. a2 \in PidState
    BY <2>0, <2>a DEF PidState
  <2> HIDE DEF a2
  <2>c. a3 \in PidState
    BY <2>0, <2>b DEF PidState
  <2>1. rp \in PidState
    BY <2>c DEF a1, a2, a3
  <2>2. SameTrends(rp, r)
    BY DEF PidState, SameTrends
  <2>. QED
    BY <2>1, <2>2
<1> HIDE DEF rp
<1>2. Diffs(r, new) = IF HasDts(new)
                      THEN [rp EXCEPT !.dts_diff_ticks = PtsDiff(r.pts_last.DTS, new.DTS),
                                      !.dts_count = r.dts_count + 1,
                                      !.dts_last_scr = r.scr]
                      ELSE rp
  BY DEF Diffs, rp
<1>. QED
  BY <1>1, <1>2 DEF PidState, SameTrends

\* The trend bookkeeping feeds the trend of each clock the new header has.
LEMMA TrendsFeed ==
    ASSUME NEW r \in PidState, NEW new \in Hdr
    PROVE  /\ Trends(r, new).pes = r.pes
           /\ Trends(r, new).trend_pts = IF HasPts(new) THEN Feed(r.trend_pts) ELSE r.trend_pts
           /\ Trends(r, new).trend_dts = IF HasDts(new) THEN Feed(r.trend_dts) ELSE r.trend_dts
<1> DEFINE rp == IF HasPts(new) THEN [r EXCEPT !.trend_pts = Feed(r.trend_pts)] ELSE r
<1>1. /\ rp \in PidState /\ rp.pes = r.pes /\ rp.trend_dts = r.trend_dts
      /\ rp.trend_pts = IF HasPts(new) THEN Feed(r.trend_pts) ELSE r.trend_pts
  BY PidFields, FeedType DEF PidState
<1> HIDE DEF rp
<1>. QED
  BY <1>1 DEF Trends, rp, PidState

\* One call of processPESHeader, seen from one trend: the prologue turns
\* the pending header into an allocation, then the new header, if it
\* carries the clock, is counted and past the warm-up sampled.
LEMMA TrendStep ==
    ASSUME NEW a \in Trend, NEW pend \in BOOLEAN, TrendInv(a, pend),
           NEW b \in Trend,
           b.counter = a.counter, b.samples = a.samples, b.alloc <=> a.alloc \/ pend,
           NEW fed \in BOOLEAN
    PROVE  TrendInv(IF fed THEN Feed(b) ELSE b, fed)
<1>1. TrendWarmup \in Nat \ {0}
  BY ConstantFacts
<1>2. CASE fed
  <2>1. Feed(b).counter = b.counter + 1 /\ Feed(b).alloc = b.alloc
        /\ Feed(b).samples = IF b.counter + 1 > TrendWarmup THEN b.samples + 1
                                                           ELSE b.samples
    BY DEF Feed, Trend
  <2>. QED
    BY <1>1, <1>2, <2>1 DEF TrendInv, Trend
<1>3. CASE ~fed
  BY <1>3 DEF TrendInv, Trend
<1>. QED
  BY <1>2, <1>3

\* processPESHeader keeps the trend invariant of its PID.
LEMMA HeaderRecordTrend ==
    ASSUME NEW r \in PidState, NEW h \in Hdr, PidTrendInv(r)
    PROVE  PidTrendInv(HeaderRecord(r, h))
<1> DEFINE r1 == Prologue(r)
           new == ParsePes(r1.pes, h)
           r2 == [r1 EXCEPT !.pes = new]
           r3 == Diffs(r2, new)
<1>1. r1 \in PidState /\ r1.pes = r.pes
  BY PrologueType, PrologueTrends
<1>2. new \in Hdr
  BY <1>1, PidFields, ParsePesType
<1> HIDE DEF r1, new
<1>3. /\ r2 \in PidState /\ r2.pes = new
      /\ r2.trend_pts = r1.trend_pts /\ r2.trend_dts = r1.trend_dts
  BY <1>1, <1>2 DEF PidState
<1> HIDE DEF r2
<1>4. r3 \in PidState /\ SameTrends(r3, r2)
  BY <1>2, <1>3, DiffsType, DiffsTrends
<1> HIDE DEF r3
<1>5. /\ HeaderRecord(r, h).pes = new
      /\ HeaderRecord(r, h).trend_pts = IF HasPts(new) THEN Feed(r1.trend_pts) ELSE r1.trend_pts
      /\ HeaderRecord(r, h).trend_dts = IF HasDts(new) THEN Feed(r1.trend_dts) ELSE r1.trend_dts
  <2>1. HeaderRecord(r, h) = Trends(r3, new)
    BY DEF HeaderRecord, r1, new, r2, r3
  <2>. QED
    BY <1>2, <1>3, <1>4, <2>1, TrendsFeed DEF SameTrends
<1>6. /\ r.trend_pts \in Trend /\ r.trend_dts \in Trend
      /\ r1.trend_pts \in Trend /\ r1.trend_dts \in Trend
  BY <1>1, PidFields
<1>7. /\ HasPts(r.pes) \in BOOLEAN /\ HasDts(r.pes) \in BOOLEAN
      /\ HasPts(new) \in BOOLEAN /\ HasDts(new) \in BOOLEAN
  BY DEF HasPts, HasDts
<1>8. /\ TrendInv(r.trend_pts, HasPts(r.pes))
      /\ TrendInv(r.trend_dts, HasDts(r.pes))
  BY DEF PidTrendInv
<1>9. /\ r1.trend_pts.counter = r.trend_pts.counter
      /\ r1.trend_pts.samples = r.trend_pts.samples
      /\ r1.trend_pts.alloc <=> r.trend_pts.alloc \/ HasPts(r.pes)
      /\ r1.trend_dts.counter = r.trend_dts.counter
      /\ r1.trend_dts.samples = r.trend_dts.samples
      /\ r1.trend_dts.alloc <=> r.trend_dts.alloc \/ HasDts(r.pes)
  BY PrologueTrends DEF r1
<1>10. TrendInv(IF HasPts(new) THEN Feed(r1.trend_pts) ELSE r1.trend_pts, HasPts(new))
  BY <1>6, <1>7, <1>8, <1>9, TrendStep
<1>11. TrendInv(IF HasDts(new) THEN Feed(r1.trend_dts) ELSE r1.trend_dts, HasDts(new))
  BY <1>6, <1>7, <1>8, <1>9, TrendStep
<1>. QED
  BY <1>5, <1>10, <1>11 DEF PidTrendInv

\* Each stage before processPESHeader leaves buffers and trends alone.
LEMMA AfterScrTrends ==
    ASSUME NEW t \in [Pids -> PidState], NEW pkt \in PacketType
    PROVE  \A q \in Pids : SameTrends(AfterScr(t, pkt)[q], t[q])
<1>1. pkt.pid \in Pids
  BY DEF PacketType
<1>2. \A q \in Pids : SameTrends(PacketStats(t, pkt)[q], t[q])
  BY <1>1 DEF PacketStats, SameTrends, PidState
<1>3. PacketStats(t, pkt) \in [Pids -> PidState]
  BY PacketStatsType
<1>4. \A u \in [Pids -> PidState] : \A q \in Pids : SameTrends(ScrStats(u, pkt)[q], u[q])
  BY <1>1 DEF ScrStats, SameTrends, PidState
<1>. QED
  BY <1>2, <1>3, <1>4 DEF AfterScr, SameTrends

\* One iteration of the ingest loop keeps the trend invariant of every PID.
LEMMA PipelineTrends ==
    ASSUME NEW t \in [Pids -> PidState], NEW pkt \in PacketType,
           \A q \in Pids : PidTrendInv(t[q])
    PROVE  \A q \in Pids : PidTrendInv(Pipeline(t, pkt)[q])
<1>1. pkt.pid \in Pids /\ pkt.hdr \in Hdr
  BY DEF PacketType
<1> DEFINE t2 == AfterScr(t, pkt)
<1>2. t2 \in [Pids -> PidState] /\ \A q \in Pids : PidTrendInv(t2[q])
  BY PipelineType, AfterScrTrends DEF SameTrends, PidTrendInv
<1> HIDE DEF t2
<1>3. CASE ~DoPesStats
  BY <1>2, <1>3 DEF Pipeline, t2
<1>4. CASE DoPesStats
  <2> DEFINE r0 == t2[pkt.pid]
             t1 == IF pkt.pusi
                   THEN [t2 EXCEPT ![pkt.pid] = [r0 EXCEPT !.scr_at_pes_unit_header = t2[ScrPid].scr]]
                   ELSE [t2 EXCEPT ![pkt.pid] = [r0 EXCEPT !.scr_last_seen = t2[ScrPid].scr]]
  <2>1. t1 \in [Pids -> PidState] /\ \A q \in Pids : PidTrendInv(t1[q])
    <3>1. t2[ScrPid].scr \in 0..(MaxScr - 1)
      BY <1>2, ConstantFacts, PidFields
    <3>. QED
      BY <1>1, <1>2, <3>1 DEF PidState, PidTrendInv
  <2> HIDE DEF t1
  <2>2. PidTrendInv(HeaderRecord(t1[pkt.pid], pkt.hdr))
    BY <1>1, <2>1, HeaderRecordTrend
  <2>3. Pipeline(t, pkt) = IF HeaderProcessed(pkt)
                           THEN [t1 EXCEPT ![pkt.pid] = HeaderRecord(t1[pkt.pid], pkt.hdr)]
                           ELSE t1
    BY <1>4 DEF Pipeline, PesStats, t1, t2
  <2>. QED
    BY <1>1, <2>1, <2>2, <2>3
<1>. QED
  BY <1>3, <1>4

\* The initial state satisfies the strengthened invariant.
LEMMA InitTrends == Init => TrendIInv
<1>. SUFFICES ASSUME Init PROVE TrendIInv
  OBVIOUS
<1>1. \A q \in Pids : PidTrendInv(pids[q])
  BY DEF Init, ZeroPid, NoTrend, PidTrendInv, TrendInv
<1>. QED
  BY <1>1, InitType DEF TrendIInv

\* Every step keeps the strengthened invariant.
LEMMA NextTrends == TrendIInv /\ [Next]_vars => TrendIInv'
<1>. SUFFICES ASSUME TrendIInv, [Next]_vars PROVE TrendIInv'
  OBVIOUS
<1>1. TypeOK'
  BY TypeCorrectStep DEF TrendIInv
<1>2. CASE Next
  <2>1. PICK p \in Pids, k \in Kinds, adv \in 0..MaxAdvance, lost \in Losses :
           \E h \in IF k.pes THEN HeadersAt(now + adv) ELSE NoHdrAt :
              Receive(p, k, adv, lost, h)
    BY <1>2 DEF Next
  <2>2. PICK h \in IF k.pes THEN HeadersAt(now + adv) ELSE NoHdrAt :
              Receive(p, k, adv, lost, h)
    BY <2>1
  <2>3. \E pkt \in PacketType : pids' = Pipeline(pids, pkt)
    BY <2>2, ReceivePacket DEF TrendIInv
  <2>. QED
    BY <1>1, <2>3, PipelineTrends DEF TrendIInv, TypeOK
<1>3. CASE UNCHANGED vars
  BY <1>1, <1>3 DEF TrendIInv, vars
<1>. QED
  BY <1>2, <1>3

\* Trend safety (processPESHeader lines 833-838, 851-856, 910 and 1032):
\* kllineartrend_add is never reached for a trend that was not allocated,
\* for every warm-up of at least one header.
THEOREM TrendSafety == Spec => []TrendFedOnlyWhenAllocated
<1>1. TrendIInv => TrendFedOnlyWhenAllocated
  BY DEF TrendIInv, PidTrendInv, TrendInv, TrendFedOnlyWhenAllocated
<1>. QED
  BY <1>1, InitTrends, NextTrends, PTL DEF Spec

=============================================================================
