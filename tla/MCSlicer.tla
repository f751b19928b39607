------------------------------- MODULE MCSlicer -------------------------------
(***************************************************************************)
(* A small instance of Slicer for TLC.  Three inputs of five packets or    *)
(* fewer: PCRs at the first packet, in the middle and at the end, out of  *)
(* order; PCRs straddling a block boundary after a leading non-PCR        *)
(* packet; no PCR at all.  Scan blocks of two packets and copy blocks of  *)
(* three, so that a scan or a copy takes several reads, the last one      *)
(* short, and a copy block ends between two PCRs.  Requested PCRs below,  *)
(* between, at and past the file's PCRs.                                   *)
(***************************************************************************)
EXTENDS Slicer

N == NoPcr

MCFiles == {<<2, N, 1, N, 3>>, <<N, 2, N, 3>>, <<N, N, N>>}
MCIndexBlock == 2
MCCopyBlock == 3
MCRequests == {0, 2, 4}

\* QueryPCRs, written with FilterSeq, is SelectSeq of the PCR packets on
\* every block of every input of this instance.
ASSUME QueryPCRsIsSelectSeq ==
    \A f \in MCFiles : \A at \in 0..Len(f) : \A n \in 0..(Len(f) - at) :
        QueryPCRs(f, at, n) = SelectSeq(Packets(f, at, n), LAMBDA r : r.pcr # NoPcr)
=============================================================================
