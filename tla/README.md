# Formal models of the ltntstools clock inspector and slicer

This directory holds TLA+ models of `src/src/slicer.c`. That file holds two tools:

* the **slicer**: an index builder, index loader, fast duration query and
  byte-range copier for recorded transport streams;
* the **clock inspector**: a per-packet analyser of continuity counters,
  PCR (27 MHz), PTS/DTS (90 kHz), PES delivery times and linear-trend drift.
  It has a reporting thread, optional ordered PTS output, and a
  SIGINT/EOF shutdown handshake.

It also uses routines from libltntstools that are not part of `src/`:

* `ltntstools_pts_diff` and `ltntstools_scr_diff`;
* `ltn_pes_packet_parse`;
* `kllineartrend`.

These are modelled from `spec.md` and marked `spec_modelled` in the map of
`PROJECT.json`.

## Inventory of the code

| Part | Code (slicer.c) | Interacts with |
|---|---|---|
| Videotime conversions | `pcr_to_videotime` 23, `videotime_to_pcr` 42, `str_to_videotime` 56, `videotime_to_str` 70 | slicer command line |
| Index save/load/lookup | `indexSave` 100, `indexLoad` 113, `indexLookupPCR` 178 | slicer, fast query |
| Fast duration query | `indexFastQueryDuration` 187-275 | slicer |
| Slicer copy | `slicer` 294-524 | index lookups |
| PID table | `struct pid_s` 537-590, `calloc` at 1416 | all per-packet stages |
| Continuity check | `processPacketStats` 1181-1228 | PID table |
| PCR tracking | `processSCRStats` 1111-1179 | PID table; its PCR is read by the PES stage |
| PES delivery and header analysis | `processPESStats` 1230-1258, `processPESHeader` 809-1109 | PID table, trends, ordered list |
| Trends and reporter thread | `trend_report_thread` 789-807, `trendReport` 777, `printTrend` 708 | trends written by the ingest thread under a per-trend mutex |
| Ordered PTS output (-R) | `ordered_clock_insert` 638-656, `ordered_clock_dump` 658-692 | PES header analysis |
| Ingest loop and shutdown | `clock_inspector` 1412-1657, `signal_handler` 626 | every stage; reporter thread through `gRunning`/`trendThreadComplete` |

## Modules

| Module | Models | Status |
|---|---|---|
| `ClockMath` | the wrap-aware differences `PtsDiff`/`ScrDiff` (spec section 2) and C truncating division `CDiv` (used by `PTS_TICKS_TO_MS`) | library, from the spec |
| `Inspector` | the per-packet pipeline of the clock inspector | partly: see below |
| `MCInspector` | the small constants for TLC | |
| `InspectorProofs` | TLAPS proofs about `Inspector`: types and trend allocation | |
| `InspectorClockProofs` | TLAPS proofs about `Inspector`: the CC, SCR and PTS counters against the stream ghost | |
| `InspectorThreads` | the ingest loop, the trend reporter thread, the trend mutex and the shutdown handshake | partly: one trend, flags read with sequential consistency |
| `MCInspectorThreads` | the bound on buffers read | |
| `InspectorThreadsProofs` | TLAPS proofs about `InspectorThreads` | |
| `OrderedPts` | the `-R` ordered PTS list of one PID (`ordered_clock_insert` and its call) | modelled |
| `MCOrderedPts` | PTS values `{1,2,3}`, up to 5 headers | |
| `OrderedPtsProofs` | TLAPS proof that the list stays sorted | |
| `Slicer` | successive slicer invocations on one input: index load, block scan, index save, lookups, block copy | index and copy modelled; `-l`, `-q` and the two `fopen` failures of the copy left out |
| `SliceCopy` | the abstract copy of spec 4.J, which `Slicer` refines | |
| `MCSlicer` | three inputs of up to 5 packets, blocks of 2 and 3 packets | |
| `SeqFilter` | the PCR filter of `ltntstools_queryPCRs`, written with counts instead of `SelectSeq` | library, from the spec |
| `SeqFilterProofs` | TLAPS lemmas about `FilterSeq`: type, length, concatenation | |
| `SlicerProofs` | TLAPS proofs about `Slicer`: type, index prefix, crash condition, refinement of `SliceCopy` | |
| `Videotime` | `pcr_to_videotime`, `videotime_to_pcr` with 32-bit int arithmetic, and their TLAPS proofs | proof only |

### Inspector: correspondence with the code

* `pids` is `ctx->pids[]` restricted to the fields the checks read:
  * `pkt_count`, `cc`, `cc_errors`;
  * `scr_first`, `scr`, `scr_updateCount`, `scr_last_seen`,
    `scr_at_pes_unit_header`;
  * the parse buffer `pes` and the previous header `pts_last`;
  * `pts_diff_ticks`, `dts_diff_ticks`, `pts_minus_scr_ticks`;
  * the two trackers `trend_pts` and `trend_dts`. Each is abstracted to
    three fields: whether it is allocated, its `counter`, and how many
    samples `kllineartrend_add` has received.

  `Init` is the zeroed table from `calloc` at line 1416.
* One `Next` step is one packet through one iteration of the packet loop
  (1592-1619). In the code's order, that is:
  * `PacketStats` (`processPacketStats`);
  * `ScrStats` (`processSCRStats`, when `-s`/`-p`);
  * `PesStats` (`processPESStats`, when `-p`). On a PES header, this calls
    `HeaderRecord` (`processPESHeader`), which runs, in order:
    * the prologue at 821-857 (copy to `pts_last`, lazy allocation of
      the trackers);
    * the parse;
    * the diffs at 865-884;
    * the trend feeding at 906-933 and 1029-1055.

  `Report` gives what that packet prints:
  * whether it was a CC error;
  * the SCR-DIFF column;
  * the delivery span;
  * each conformance warning.
* The stream is the environment, produced from a ghost true time `now`
  that never wraps:
  * a PCR is `now mod MaxScr`;
  * a PTS leads or trails `now` by a chosen amount;
  * a continuity counter advances by 1 plus the number of lost packets.

  The ghost `g` remembers the unwrapped values the properties compare
  with.
* Left out:
  * wallclock anchors and `clock_establish_*` (no property reads them);
  * printing and hex dumps;
  * file positions;
  * the ordered PTS list (modelled in `OrderedPts`);
  * the linear-regression arithmetic (only counts of samples are kept).

### InspectorThreads: correspondence with the code

* `mpc` is the main thread's place in `clock_inspector`:
  * `Top`: the `while (gRunning)` test and the `-t` check, which calls
    `signal_handler` (1570-1577);
  * `Read`: `avio_read` (1579-1585). It has three outcomes:
    * a buffer, which goes on to the process stages;
    * EAGAIN on a live input, which goes back to the top;
    * a negative return, which leaves the loop *without* clearing
      `gRunning`.
  * `IngestLock`, `Store` and `CountUnlock`: `kllineartrend_add` under the
    trend lock (929-931). The add is split into the stored sample and the
    count, so that a clone taken between the two would be caught.
  * `WaitReporter`: the wait for `trendThreadComplete` (1625-1628);
  * `Final`: the final report and `trendReportFree` (1634-1639).
* `rpc` is the reporter (`trend_report_thread`, 789-807):
  * `Detach`;
  * `ReporterLoop`: the test `enableTrendReport && gRunning`. When it fails,
    the reporter sets `trendThreadComplete`.
  * `Sleep`: the `usleep`, after which the report period may or may not have
    passed;
  * `ReporterLock` and `Clone`: `printTrend` (708-717).
* `Sigint` and `Expire` are the environment: SIGINT, and the passing of
  the `-t` stop time.
* One trend stands for all of them. The trend's values are left out: the
  model keeps only the count of stored samples and the sample count the
  clone sees.

**Fairness.**

* Each thread step is weakly fair: the kernel schedules runnable threads.
* The two lock acquisitions are strongly fair: every critical section is a
  few instructions long, and the mutex is released on every path.
* `Expire` is weakly fair: time passes.
* `Sigint` has no fairness: nobody has to press Ctrl-C.

### OrderedPts: correspondence with the code

* `list` is the PID's `ordered_pts_list` as the dump prints it, a sequence
  of `[nr, clock]` (`struct ordered_clock_item_s`; `filepos` is left out).
* `Header(c)` is the `-R` branch of `processPESHeader` (1002-1011) with
  the start of `ordered_clock_insert`:
  * the count `pts_count` is advanced (line 874);
  * the list is initialised at the first header;
  * an empty list gets the item appended;
  * otherwise the backward walk starts at the tail (`k = Len(list)`).
* The walk is one step per node:
  * `Skip` passes a node with a greater clock;
  * `Link` links the node after the first node, from the tail, whose clock
    is not greater (`__xorg_list_add`, 652);
  * `WalkEnd` is the loop reaching the list head. The function then returns
    without linking the new node.
* The lists of different PIDs are independent, so one PID is modelled.

### Slicer: correspondence with the code

Offsets count 188-byte packets, and a packet is its PCR or `NoPcr`. The
scan block (16 MiB rounded down to packets) is `IndexBlock`. The copy block
(64 packets) is `CopyBlock`. The state persists across invocations: `file`
and the index file (`idxExists`, `idx`). Everything else is the zeroed
`tool_context_s` of one invocation.

* `Start` is one invocation's command line (`-s`, `-e` as PCRs, `-o`) and
  `indexLoad` (113-152). Without an index the scan starts. With one,
  `all` is the records read back, and `pcrMin`/`pcrMax` are the first and
  last records. For an empty index they are any `Garbage` value: the read
  is from `malloc(0)`.
* `ScanRead` is one pass of `while (!feof)` (399-422). An `fread` of up to
  a block is made; a read of nothing breaks; a short read sets EOF. The
  block's PCRs are appended with absolute offsets (`QueryPCRs`, the
  library's `ltntstools_queryPCRs`, from the spec). `QueryPCRs` keeps the
  records of `Packets` (the block read at `pos`) with `FilterSeq` of
  `SeqFilter`. `FilterSeq(s, K)` is what `SelectSeq(s, LAMBDA x : x \in K)`
  returns, but it is written without recursion: its k-th element is the
  one at which the count of kept elements reaches k. The assumption
  `QueryPCRsIsSelectSeq` of `MCSlicer` checks that the two agree on every
  block of every input of the runs. `ScanEof` is the loop
  test failing.
* `Save` is `indexSave` (100-111) and `exit(0)`. It has three outcomes:
  * a full write;
  * a `NULL` from `fopen`, which crashes in `fwrite` (`crash_save`);
  * a short write, which leaves a prefix of whole records (disk full or
    kill). Nothing is checked, so a later invocation loads the prefix as
    the index and never rebuilds it.
* `Lookup` is 441-464:
  * the `-s`/`-e` defaults;
  * both `indexLookupPCR` calls (the first record with
    `pcr <= rec.pcr`, else `NULL`);
  * `indexDumpEntry`, whose `NULL` dereference is `crash_lookup`;
  * with `-o`, the empty output and the `fseeko` (`Seek`).
* `CopyRead` is one pass of the copy loop (465-470): an `fread` of up to a
  block, an `fwrite` of what was read, and `begin += blen`. `CopyEnd` is
  the loop test failing.

`SliceCopy` is what the copy promises, in the words of spec 4.J. An output
is opened empty at a start offset. Writes of any size append the input
that follows, in order, with no gap or repeat. It is closed once it reaches
the end offset or the end of the input. `Slicer` maps onto it through
`SC == INSTANCE SliceCopy WITH input <- file, from <- s.offset,
to <- e.offset` (both only while `pc = "copy"`). `CopyRefines` is
`SC!Spec`, checked by TLC as a temporal property. How far past the end
offset the output may run is left open in `SliceCopy`. `SliceExact` asks
that question, and the `slicer_exact` run answers it.

## Runs

Every inspector run uses `MCInspector` with its own cfg. The clocks are shrunk:

* `MaxPts = 8` PTS ticks, with 2 SCR ticks per PTS tick (`MaxScr = 16`);
* `PtsTicksPerMs = 1`;
* the first packet arrives a few ticks before a wrap, so PCR and PTS wraps
  happen within the 3-5 packets per PID that `MaxPackets` allows.

`MaxAdvance` bounds the true time between packets.

The runs stop with no enabled step when every PID has sent `MaxPackets`
packets. That is the end of the input file (EOF), where the tool really
stops, so deadlock is not checked (`CHECK_DEADLOCK FALSE`).

| Run | Checks | Shows |
|---|---|---|
| `inspector_cc` | `CcErrorsCountLosses` | the continuity check counts exactly one error per loss or duplicate: across the 15 -> 0 wrap, with adaptation-only packets that do not advance the counter, for a first packet starting anywhere, and never on the null PID |
| `inspector_scr` | `TypeOK`, `ScrDiffTracksElapsed` | SCR-DIFF is the true elapsed 27 MHz time across the PCR wrap |
| `inspector_pts` | `PtsDiffTracksStep`, `TrendFedOnlyWhenAllocated` | see below |
| `inspector_first_pts` | `JumpWarningSound` (violation) | the first PTS of a PID is compared with a zeroed header and warned about |
| `inspector_behind_wrap` | `BehindWarningSound` (violation) | "BEHIND the PCR" is reported for a PTS ahead of the PCR, across a wrap: raw subtraction at 902 |
| `inspector_delivery` | `DeliverySpanNonNegative` (violation) | the delivery span of a one-packet PES is negative: stale `scr_last_seen`, line 1244 |

The other two models have their own MC modules:

| Run | Checks | Shows |
|---|---|---|
| `threads_stop` | `CloneConsistent`, `NoReportAfterFree`, `StopTerminates` | with `-L`, `-t` and a live input: see below |
| `threads_eof_trend` | `EofTerminates` (violation) | with `-L`, EOF leaves the loop with `gRunning` still 1, so the main thread waits forever for a reporter that only stops on `gRunning == 0` (line 1584) |
| `ordered_sort` | `OrderedByClock` | the `-R` list is sorted by PTS, equal PTS in arrival order |
| `ordered_complete` | `AllPtsListed` (violation) | a PTS smaller than every listed PTS reaches the list head and is never linked (line 655): it is left out of the dump and leaks |
| `slicer_copy` | `TypeOK`, `IndexIsPrefix`, `CrashOnlyPastEnd`, `CopyRefines` | see below |
| `slicer_exact` | `SliceExact` (violation) | the copy steps `begin` by whole blocks and writes all it read, so the output runs past the end record to the next block boundary (line 465); spec scenario 1 says its size is the offset difference |

What `threads_stop` shows:

* Every clone holds whole samples.
* After the free, the reporter has left its loop and holds no lock.
* Once `gRunning` is cleared, the tool terminates.

`MaxReads = 3` buffers are enough for the reporter to clone before, during
and after an add. The threads runs stop when the tool has ended, so
deadlock is not checked.

The ordered runs use PTS values `{1,2,3}` and up to 5 headers. That covers
equal PTS, reversed arrival order and every position of the link.

What `slicer_copy` shows, over any sequence of invocations (builds, failed
and short index writes, lookups and copies):

* The index in memory and in the file is always a prefix of the input's
  PCR positions, in file order, with absolute offsets. A completed scan
  has all of them.
* A crash on a `NULL` record needs a requested PCR (or default) past every
  PCR of the input, or an index file truncated by an earlier write.
* The block copy implements `SliceCopy`.

The inputs are `<<2, N, 1, N, 3>>` (PCRs out of order, one in a short last
block), `<<N, 2, N, 3>>` (a PCR on each side of a block boundary) and
`<<N, N, N>>` (no PCR, hence an empty index). The requests are 0, 2 and 4:
below, at, and past the PCRs. Copy blocks of 3 packets end between PCRs,
so the overshoot happens. The slicer can always be started again, so
deadlock is checked.

Two inspector findings have no run of their own any more. Their runs made
room for the slicer, since the project keeps at most 12 runs. Both are
recorded as hazards in `PROJECT.json`:

* the jump warning at line 944 ignores a backward PTS step (no absolute
  value);
* the SCR-interval warning at 876 uses the PES PID's own PCR.

What `inspector_pts` shows:

* `pts_diff_ticks` is the true step between consecutive PTS-bearing
  headers, folded into the wrap window. This holds although `pts_last` is
  copied one call late, and headers without PTS come in between.
* No trend is fed before it is allocated.

Each property of a passing run has a mutant in `PROJECT.json`: a plausible
bug in the mapped definition that TLC then catches. The mutants are:

* the CC check without the 4-bit mask;
* a raw SCR subtraction;
* the wrap window tested with `>=`;
* a warm-up off by one;
* an add that reads past the end of input;
* a clone that does not wait for the lock;
* a free that does not wait for the reporter;
* a reporter loop that ignores `gRunning`;
* a walk that stops only at a strictly smaller clock;
* a copy that assumes every `fread` is whole;
* a scan that leaves on a short read before indexing it;
* a lookup with `<` for `<=`;
* a copy without the `fseeko`.

The findings these runs support are listed in `PROJECT.json`.

## Proofs

`InspectorProofs` proves two theorems for every value of the constants
that satisfies the assumptions `InspectorAssumption`, `KindsAssumption` and
`StreamAssumption`:

* `TypeCorrect`: `Spec => []TypeOK`.
* `TrendSafety`: `Spec => []TrendFedOnlyWhenAllocated`.

`TypeOK` is inductive on its own. The proof has:

* one type lemma per stage (`PacketStatsType` ... `PipelineType`);
* `ReceiveType`, for the environment;
* `TypeCorrectStep`, which combines them.

`TrendFedOnlyWhenAllocated` is not inductive. A step that feeds a tracker
whose `counter` has passed the warm-up needs the tracker to be allocated.
The allocation happens one header late, in the prologue of the *next*
header, from the parse buffer `pes`. The inductive invariant `TrendIInv`
(`TypeOK` plus `PidTrendInv` on every PID) therefore says, for each tracker:

* a positive counter means the tracker is allocated, or this is the first
  header with that clock and it still sits in `pes` (`counter = 1` and `pes`
  has the clock);
* a positive sample count means the tracker is allocated.

Because `TrendWarmup >= 1`, the second case cannot reach a sample before the
next prologue allocates the tracker. TLC checked `TrendIInv` as an
invariant of the `inspector_pts` instance before it was proved. The step
lemmas follow the stages:

* `PrologueTrends`;
* `DiffsTrends`;
* `TrendsFeed`;
* `HeaderRecordTrend`;
* `PipelineTrends`;
* `NextTrends`.

`InspectorThreadsProofs` proves `ThreadsSafety`:
`Spec => [](CloneConsistent /\ NoReportAfterFree)`. It holds for every
`-L`/`-t`/live setting and every `MaxReads` allowed by `ThreadsAssumption`.
Neither property is inductive on its own. `CloneConsistent` needs to know
that the reporter cannot hold the lock while the main thread is between
the store and the count. `NoReportAfterFree` needs to know that the free
comes after the reporter has finished. The invariant `ThreadsIInv` says:

* the lock is held by the main thread exactly at `store`/`count`, and by
  the reporter exactly at `clone`;
* the stored samples exceed the count only at `count`, and then by one;
* `trendThreadComplete` implies the reporter is done;
* the main thread is past its wait only when `trendThreadComplete` is set.

The proof has the lemmas `ThreadsInit`, `ThreadsTypeStep` and
`ThreadsStep`, with one case per action. The corollary
`FreeAfterReporter` (`Spec => []NoReportAfterFree`) names the property that
the `threads_stop` run checks on its own. `ThreadsTypeCorrect`
(`Spec => []TypeOK`) is proved as well, but no run checks this module's
`TypeOK`. Its only non-trivial bound is on the modelled input (`left`),
and no bug in the threads' code could break it.

`InspectorClockProofs` proves three theorems about the counters that
depend on the stream, under the same assumptions as `InspectorProofs`:

* `CcErrorsCorrect`: `Spec => []CcErrorsCountLosses`;
* `ScrDiffCorrect`: `Spec => []ScrDiffTracksElapsed`;
* `PtsDiffCorrect`: `Spec => []PtsDiffTracksStep`.

Each property relates the PID table to the ghost `g` that the environment
keeps of the stream it generates. None is inductive as stated, because
each speaks of the value a counter *will* be compared with. Each
strengthening says that the table and the ghost stay in step:

* `CcIInv`: a PID that has had a packet holds, in `cc`, the counter the
  stream last sent on it. Given that, `CcSkip` shows that the check of
  `processPacketStats` fires exactly when the number of lost packets is
  not a multiple of 16.
* `ScrIInv`: the true times of a PID's last two PCRs are ordered and not
  in the future. With `-s`, `scr_updateCount > 0` exactly when a PCR has
  been seen, and `scr` is the last PCR's true time modulo the 27 MHz clock.
  `ScrDiffElapsed` then shows that `ScrDiff` of the two reduced readings is
  the true gap whenever that gap is shorter than a clock period. It argues
  on the quotients of the two times by the clock period.
* `PtsIInv`: once a PID has had a PTS-bearing header, the parse buffer
  `pes` holds that PTS reduced to 33 bits. A later header without a PTS
  keeps it. While the buffered header has no PTS, `pts_last` already holds
  that PTS. This is the one-call-late copy of `pts_last` from the buffer:
  `LastPtsHdr` names the header the prologue leaves in `pts_last`, and it
  has the previous PTS whichever branch the prologue takes.
  `PtsStepTracks` shows that `PtsStep` of the two reduced PTS values is
  congruent to the true step and lies in the wrap window.

The record lemmas (`PrologueCounters` ... `PipelinePts`, `AfterScrCounters`)
show which stages of the pipeline leave which fields alone.
`ReceiveCounters` and `ReceiveGhost` describe one `Receive` step.
`CcStep`, `ScrStep` and `PtsStepInv` are the inductive steps. TLC checked
each strengthening as an invariant before it was proved: `CcIInv` and
`ScrIInv` on the `inspector_cc`, `inspector_scr` and `inspector_pts`
instances, and `PtsIInv` on the `inspector_pts`, `inspector_behind_wrap` and
`inspector_delivery` instances.

`OrderedPtsProofs` proves `OrderedListSorted`:
`Spec => []OrderedByClock`. It holds for every set of natural PTS values
and every `MaxItems`. The list is left unchanged during a walk, so the
work is in `Link`. The invariant `OrderedIInv` adds what `Link` needs:

* every listed `nr` is at most `pts_count`;
* during a walk, the item being inserted has `nr = pts_count`, larger than
  every listed `nr`;
* during a walk, every node after the cursor has a clock greater than the
  item's.

When the walk stops at node `k` (`clock[k] <= item.clock`), the new node is
therefore not smaller than the nodes up to `k` and smaller than those after
it. Ties go after, and the larger `nr` keeps arrival order. The lemma
`LinkAfterShape` gives the shape of the list after the link. There is one
step lemma per action.

`Videotime` proves two theorems about the conversions. Both take the code's
32-bit `int` products (wrapped) and its truncating division as they are:

* `VideotimeRoundTrip`: every videotime with fields in their clock ranges,
  whole seconds and at most 24854 days converts to a PCR and back
  unchanged. At 24855 days the total of seconds no longer fits the `int` of
  line 25. One day later, `days * 3600 * 24` at line 46 overflows.
* `PcrFloorsToSecond`: every PCR of a 33-bit clock converts to a time that
  converts back to the PCR rounded down to its second.

The argument is arithmetic. Each wrapped product lies in the `int` range,
so `Wrap32Id` removes the wrap. The divisions then recover the fields
(`RoundTripFields`). These values are beyond TLC's integers, so this module
has no run.

`SlicerProofs` proves four theorems about the slicer. They hold for every
set of inputs, every pair of block sizes and every set of requested PCRs
that satisfy `SlicerAssumption`:

* `SlicerTypeCorrect`: `Spec => []TypeOK`;
* `IndexPrefixCorrect`: `Spec => []IndexIsPrefix`;
* `CrashOnlyPastEndCorrect`: `Spec => []CrashOnlyPastEnd`;
* `CopyRefinement`: `Spec => CopyRefines`, that is, `Slicer` implements
  `SliceCopy`.

They rest on lemmas about the data first. `SeqFilterProofs` proves that
`FilterSeq` keeps only elements of the set, has as many elements as the
count of kept positions and keeps them in order (`FilterSeqType`), and
that it distributes over concatenation (`FilterSeqConcat`). The key steps
are `KeptPosExists` (the count reaches every k up to the total at a kept
position) and `KeptAtIs` (a kept position is the one its count names).
Both are proved by least counterexample: `NatMin`, from `WFMin` and
`NatLessThanWellFounded`, gives the least position where the claim
fails, and the step before it contradicts the choice. This replaces the
induction over data that the provers cannot do. On top of these, `SlicerProofs` proves:

* `PacketsConcat` and `QueryConcat`: the PCRs of two adjacent blocks are
  the PCRs of their union;
* `QueryType`: every record lies at an offset inside the block;
* `QueryPrefix`: the PCRs of the first `n` packets are a prefix of the
  whole index;
* `LookupSpec`: `IndexLookupPCR` returns `NULL` or a record of the index
  whose PCR is at least the request, and `NULL` only when no record has.

None of the properties is inductive as stated. The inductive invariant
`SlicerIInv` is `TypeOK /\ IndexIsPrefix` plus:

* `ExtraTypeOK`: the types of the variables that `TypeOK` leaves open
  (requests, `pcrMin`, `pcrMax`, `begin`, `ofn`);
* `IndexBounded`: no index, in memory or on disk, is longer than the
  input's. `Save` needs it to write a prefix;
* `ScanInv`: during the scan, `all` is exactly `QueryPCRs(file, 0, pos)`,
  and EOF is set only at the end of the input. `ScanRead` extends it by
  `QueryConcat`, and at `ScanEof` it makes `all` the whole index;
* `LoadedInv`: after `indexLoad`, `all = idx`. `Lookup` needs it to relate
  the records it finds to the file;
* `CrashInv`: a crashed lookup had a `NULL` record. With `LookupSpec` and
  `IndexIsPrefix` this gives `CrashOnlyPastEnd`;
* `CopyInv`: during the copy, `s` and `e` are records, the input position
  is the start offset plus the length of the output, and `begin` equals
  it until the input runs out.

TLC checked `SlicerIInv` as an invariant of the `slicer_copy` instance
before it was proved. `NextIInv` has one lemma per action
(`StartIInv` ... `CopyReadIInv`).

The refinement maps `from` to `s.offset` and `to` to `e.offset` while
`pc = "copy"`, and to `None` and 0 otherwise. `InitRefines` shows that the
initial states map to `SliceCopy`'s. `NextRefines` shows that each step
maps to a step or a stutter:

* `Lookup` with `-o` maps to `Open`;
* `CopyRead` maps to `Write(rlen)`, or to a stutter when nothing is read;
* `CopyEnd` maps to `Close`;
* every other action leaves the copy's variables alone.

`CopyInv` is what makes each `fwrite` the next slice of the input.

The rest is only model-checked:

* `StopTerminates` and `EofTerminates` (liveness);
* that `FilterSeq` agrees with `SelectSeq`. This is the `MCSlicer`
  assumption. Proving it for every input is induction over a recursive
  definition;
* `SliceExact`, and the other properties of the violation runs.

In general, these are out of the prover's reach and stay with TLC:

* liveness and `ENABLED`;
* what a recursive definition computes for every input;
* any module that uses `RECURSIVE`.

## Not modelled yet (plan)

1. The DTS-step property (`dts_diff_ticks` is taken against
   `pts_last.DTS`) and the trend `first_x`/`first_y` zero sentinel.
2. The publication of a trend pointer before its mutex is initialised
   (836). This needs a weak-memory model of the two stores, which the
   interleaving of `InspectorThreads` does not give.
3. The slicer's fast duration query (`-q`, 187-275). It only prints a
   duration from the first and last PCR that the library's scanner finds
   in a head and a tail segment. Its one hazard is a tail segment that does
   not start on a packet boundary (230), and that turns on the library
   resynchronising, which the spec leaves open.
4. The copy's two `fopen` failures (458, 460), which only skip the copy.
   `indexDump` (`-l`), which only prints.

Out of scope:

* option parsing, `str_to_videotime`/`videotime_to_str`, usage text and
  report formatting (pure I/O);
* the self tests `validateClockMath`/`validateLinearTrend`;
* the socket-size probe.
