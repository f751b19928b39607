-------------------------------- MODULE Slicer --------------------------------
(***************************************************************************)
(* The slicer of src/src/slicer.c (slicer, lines 294-485), over successive *)
(* invocations on one input file.  An invocation loads the sidecar index   *)
(* <input>.idx (indexLoad, 113-152); without one it scans the input in     *)
(* blocks, collects the PCR positions (399-428), writes the index          *)
(* (indexSave, 100-111) and exits.  With an index it looks up the records  *)
(* for the -s and -e times (indexLookupPCR, 178-185; 441-455) and, with    *)
(* -o, copies the input from the start record's offset in blocks until    *)
(* the end record's offset (457-476).  The index file outlives the         *)
(* process, so a later invocation reads what an earlier one wrote.         *)
(*                                                                         *)
(* Offsets count 188-byte packets: the input is packet aligned, the scan   *)
(* block (16 MiB rounded down to packets) and the copy block (64 packets)  *)
(* are whole packets.  A packet is its PCR or NoPcr.  The -s/-e times are  *)
(* given as the PCR values videotime_to_pcr gives them (module Videotime). *)
(* Option parsing, printing and the -l and -q paths are left out.          *)
(***************************************************************************)
EXTENDS Integers, Sequences, SeqFilter

CONSTANTS
    Files,       \* the input files an invocation may be given
    IndexBlock,  \* packets per fread of the index scan
    CopyBlock,   \* packets per fread of the copy loop
    Requests     \* PCR values -s and -e may ask for

NoPcr == -1
None == -1

ASSUME SlicerAssumption ==
    /\ Files \subseteq Seq(Nat \cup {NoPcr})
    /\ IndexBlock \in Nat \ {0}
    /\ CopyBlock \in Nat \ {0}
    /\ Requests \subseteq Nat

VARIABLES
    file,      \* the input file
    idxExists, \* <input>.idx exists
    idx,       \* the records <input>.idx holds
    pc,        \* where the invocation is
    pos,       \* ftello(ctx->ifh) in the scan
    eof,       \* feof(ctx->ifh) in the scan
    all,       \* ctx->allPCRs[0 .. allPCRLength - 1]
    pcrMin,    \* ctx->pcrMin
    pcrMax,    \* ctx->pcrMax
    sReq,      \* the -s time as a PCR, or None
    eReq,      \* the -e time as a PCR, or None
    ofn,       \* -o was given
    s,         \* the start record, or NullRecord
    e,         \* the end record, or NullRecord
    begin,     \* the copy loop's counter
    fpos,      \* the position of the copy's input stream
    out        \* the output file: the input offsets it holds

vars == <<file, idxExists, idx, pc, pos, eof, all, pcrMin, pcrMax, sReq,
          eReq, ofn, s, e, begin, fpos, out>>

\* struct ltntstools_pcr_position_s; the pid is left out.
Record == [offset : Nat, pcr : Nat]
NullRecord == [offset |-> None, pcr |-> None]

\* The n packets read at offset at, each with its file offset.
Packets(f, at, n) == [i \in 1..n |-> [offset |-> at + i - 1, pcr |-> f[at + i]]]

\* ltntstools_queryPCRs(buf, rlen, pos, ...): the PCR packets among the n
\* packets read at pos, in file order, with their file offsets.  A packet
\* is a PCR packet when it is a Record, that is, its pcr is not NoPcr.
QueryPCRs(f, at, n) == FilterSeq(Packets(f, at, n), Record)

\* The index of the whole file: what a complete scan must collect.
FileIndex(f) == QueryPCRs(f, 0, Len(f))

\* Mutant: the lookup takes only a strictly greater PCR.
FoundStrict(pcr, r) == pcr < r.pcr

\* if (pcr <= (ctx->allPCRs + i)->pcr) return ctx->allPCRs + i;
Found(pcr, r) == pcr <= r.pcr

\* indexLookupPCR: the first record at or after the PCR, or NULL.
IndexLookupPCR(l, pcr) ==
    LET hits == {i \in 1..Len(l) : Found(pcr, l[i])}
    IN  IF hits = {} THEN NullRecord
        ELSE l[CHOOSE i \in hits : \A j \in hits : i <= j]

\* Values a read of uninitialised memory may give.
Garbage == Requests \cup {0}

Init ==
    /\ file \in Files
    /\ idxExists = FALSE
    /\ idx = << >>
    /\ pc = "exit"
    /\ pos = 0
    /\ eof = FALSE
    /\ all = << >>
    /\ pcrMin = 0
    /\ pcrMax = 0
    /\ sReq = None
    /\ eReq = None
    /\ ofn = FALSE
    /\ s = NullRecord
    /\ e = NullRecord
    /\ begin = 0
    /\ fpos = 0
    /\ out = << >>

\* indexLoad on the zeroed context: without an index file it returns -1
\* and the scan starts at the head of the input; otherwise every record is read back and pcrMin
\* and pcrMax are the first and last.  An empty index is read from
\* malloc(0): pcrMin and pcrMax are whatever that memory holds.
IndexLoad ==
    IF ~idxExists
       THEN /\ pc' = "scan"
            /\ all' = << >>
            /\ pcrMin' = 0
            /\ pcrMax' = 0
       ELSE /\ pc' = "lookup"
            /\ all' = idx
            /\ IF idx = << >>
                  THEN pcrMin' \in Garbage /\ pcrMax' \in Garbage
                  ELSE pcrMin' = idx[1].pcr /\ pcrMax' = idx[Len(idx)].pcr

\* A new invocation with its command line: the context is zeroed, and the
\* index loaded.
Start ==
    /\ pc \in {"exit", "crash_save", "crash_lookup"}
    /\ sReq' \in Requests \cup {None}
    /\ eReq' \in Requests \cup {None}
    /\ ofn' \in BOOLEAN
    /\ pos' = 0
    /\ eof' = FALSE
    /\ s' = NullRecord
    /\ e' = NullRecord
    /\ begin' = 0
    /\ fpos' = 0
    /\ IndexLoad
    /\ UNCHANGED <<file, idxExists, idx, out>>

\* Mutant: the loop leaves on a short read before indexing it.
ScanReadShortBreak ==
    LET n == IF Len(file) - pos < IndexBlock THEN Len(file) - pos
             ELSE IndexBlock
    IN  /\ pc = "scan"
        /\ ~eof
        /\ IF n < IndexBlock
              THEN /\ pc' = "save"
                   /\ UNCHANGED <<pos, eof, all>>
              ELSE /\ all' = all \o QueryPCRs(file, pos, n)
                   /\ pos' = pos + n
                   /\ eof' = (n < IndexBlock)
                   /\ UNCHANGED pc
        /\ UNCHANGED <<file, idxExists, idx, pcrMin, pcrMax, sReq, eReq, ofn,
                       s, e, begin, fpos, out>>

\* One iteration of while (!feof(ctx->ifh)): fread of a block; a read of
\* nothing breaks the loop, a short read sets the end-of-file flag, and
\* the PCR positions of the block are appended to ctx->allPCRs.
ScanRead ==
    LET n == IF Len(file) - pos < IndexBlock THEN Len(file) - pos
             ELSE IndexBlock
    IN  /\ pc = "scan"
        /\ ~eof
        /\ IF n = 0
              THEN /\ pc' = "save"
                   /\ UNCHANGED <<pos, eof, all>>
              ELSE /\ all' = all \o QueryPCRs(file, pos, n)
                   /\ pos' = pos + n
                   /\ eof' = (n < IndexBlock)
                   /\ UNCHANGED pc
        /\ UNCHANGED <<file, idxExists, idx, pcrMin, pcrMax, sReq, eReq, ofn,
                       s, e, begin, fpos, out>>

\* The loop test finds the end-of-file flag set.
ScanEof ==
    /\ pc = "scan"
    /\ eof
    /\ pc' = "save"
    /\ UNCHANGED <<file, idxExists, idx, pos, eof, all, pcrMin, pcrMax, sReq,
                   eReq, ofn, s, e, begin, fpos, out>>

\* indexSave and exit(0).  fopen(ofn, "wb") truncates the index file; a
\* NULL from fopen goes to fwrite unchecked and the process dies; a short
\* fwrite (disk full, a kill) leaves a prefix of whole records that
\* indexLoad takes for the index, since neither fwrite nor fclose is
\* checked.
Save ==
    /\ pc = "save"
    /\ \/ /\ idxExists' = TRUE
          /\ idx' = all
          /\ pc' = "exit"
       \/ /\ pc' = "crash_save"
          /\ UNCHANGED <<idxExists, idx>>
       \/ /\ \E n \in 0..(Len(all) - 1) : idx' = SubSeq(all, 1, n)
          /\ idxExists' = TRUE
          /\ pc' = "exit"
    /\ UNCHANGED <<file, pos, eof, all, pcrMin, pcrMax, sReq, eReq, ofn, s, e,
                   begin, fpos, out>>

\* The PCRs the slice is asked for: -s and -e, else pcrMin and pcrMax.
PcrStart == IF sReq = None THEN pcrMin ELSE sReq
PcrEnd == IF eReq = None THEN pcrMax ELSE eReq

\* Mutant: the input is not repositioned before the copy.
SeekNone(r) == 0

\* fseeko(ifh, s->offset, SEEK_SET)
Seek(r) == r.offset

\* Both records are looked up and printed by indexDumpEntry, which
\* dereferences a NULL record; with -o the output is created and the
\* input positioned at the start record (fseeko).
Lookup ==
    LET sr == IndexLookupPCR(all, PcrStart)
        er == IndexLookupPCR(all, PcrEnd)
    IN  /\ pc = "lookup"
        /\ s' = sr
        /\ e' = er
        /\ IF sr = NullRecord \/ er = NullRecord
              THEN /\ pc' = "crash_lookup"
                   /\ UNCHANGED <<begin, fpos, out>>
              ELSE IF ~ofn
              THEN /\ pc' = "exit"
                   /\ UNCHANGED <<begin, fpos, out>>
              ELSE /\ pc' = "copy"
                   /\ out' = << >>
                   /\ begin' = sr.offset
                   /\ fpos' = Seek(sr)
        /\ UNCHANGED <<file, idxExists, idx, pos, eof, all, pcrMin, pcrMax,
                       sReq, eReq, ofn>>

\* Mutant: the copy assumes every fread returns a whole block.
CopyReadFull ==
    /\ pc = "copy"
    /\ begin < e.offset
    /\ out' = out \o [i \in 1..CopyBlock |-> fpos + i - 1]
    /\ fpos' = fpos + CopyBlock
    /\ begin' = begin + CopyBlock
    /\ UNCHANGED <<file, idxExists, idx, pc, pos, eof, all, pcrMin, pcrMax,
                   sReq, eReq, ofn, s, e>>

\* for (begin = s->offset; begin < e->offset; begin += blen): fread of up
\* to a block, fwrite of what was read.
CopyRead ==
    LET rlen == IF Len(file) - fpos < CopyBlock THEN Len(file) - fpos
                ELSE CopyBlock
    IN  /\ pc = "copy"
        /\ begin < e.offset
        /\ out' = out \o [i \in 1..rlen |-> fpos + i - 1]
        /\ fpos' = fpos + rlen
        /\ begin' = begin + CopyBlock
        /\ UNCHANGED <<file, idxExists, idx, pc, pos, eof, all, pcrMin, pcrMax,
                       sReq, eReq, ofn, s, e>>

\* The loop ends; the files are closed and slicer returns 0.
CopyEnd ==
    /\ pc = "copy"
    /\ begin >= e.offset
    /\ pc' = "exit"
    /\ UNCHANGED <<file, idxExists, idx, pos, eof, all, pcrMin, pcrMax, sReq,
                   eReq, ofn, s, e, begin, fpos, out>>

Next ==
    \/ Start
    \/ ScanRead
    \/ ScanEof
    \/ Save
    \/ Lookup
    \/ CopyRead
    \/ CopyEnd

Spec == Init /\ [][Next]_vars
-----------------------------------------------------------------------------
(* Properties.                                                             *)

\* Every variable has the shape the code gives it.
TypeOK ==
    /\ file \in Files
    /\ idxExists \in BOOLEAN
    /\ idx \in Seq(Record)
    /\ pc \in {"exit", "scan", "save", "lookup", "copy", "crash_save",
               "crash_lookup"}
    /\ pos \in 0..Len(file)
    /\ eof \in BOOLEAN
    /\ all \in Seq(Record)
    /\ s \in Record \cup {NullRecord}
    /\ e \in Record \cup {NullRecord}
    /\ fpos \in 0..Len(file)
    /\ out \in Seq(0..(Len(file) - 1))

\* Spec 4.H and 8: the index in memory and the index file hold the PCR
\* positions of the file in file order, with their true offsets, across
\* block boundaries and a short last block; a complete scan holds them all.
\* A short write leaves a prefix, never a record out of place.
IndexIsPrefix ==
    /\ all = SubSeq(FileIndex(file), 1, Len(all))
    /\ pc = "save" => all = FileIndex(file)
    /\ idx = SubSeq(FileIndex(file), 1, Len(idx))

\* The slicer dies on a NULL record (indexDumpEntry) only when the -s or
\* -e PCR, or the default pcrMin/pcrMax, lies past every PCR of the input,
\* or when the index it trusts is not the input's whole index: an earlier
\* invocation's save was cut short, and the truncated index file is
\* loaded by every invocation after it.
CrashOnlyPastEnd ==
    pc = "crash_lookup" =>
        \/ idx # FileIndex(file)
        \/ \E r \in {PcrStart, PcrEnd} :
              \A i \in 1..Len(FileIndex(file)) : FileIndex(file)[i].pcr < r

\* The block copy implements the contiguous copy of spec 4.J.
SC == INSTANCE SliceCopy WITH
          input <- file,
          from <- IF pc = "copy" THEN s.offset ELSE None,
          to <- IF pc = "copy" THEN e.offset ELSE 0

CopyRefines == SC!Spec

\* Spec 4.J and scenario 1 of section 8: the output holds exactly the
\* packets from the start record up to the end record.
SliceExact ==
    pc = "exit" /\ ofn /\ s # NullRecord =>
        out = [i \in 1..(e.offset - s.offset) |-> s.offset + i - 1]
=============================================================================
