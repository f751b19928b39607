---------------------------- MODULE MCInspector ----------------------------
(***************************************************************************)
(* Small instances of the inspector pipeline for TLC.  The clocks are      *)
(* shrunk (MaxPts = 8 PTS ticks, 2 SCR ticks per PTS tick, so MaxScr = 16) *)
(* and the first packet arrives 4 ticks before the 27 MHz clock wraps, so  *)
(* that PCR and PTS wraps happen within a few packets.                     *)
(***************************************************************************)
EXTENDS Inspector

\* PID 0x31 carries the PCR (the default -S), PID 0x100 a PES stream.
MCPcrPid == 49
MCVideoPid == 256
MCPids == {MCPcrPid, MCVideoPid}
MCCcPids == {MCVideoPid, NullPid}

\* Packet shapes: adaptation field with PCR only; PES start with payload;
\* PES continuation; PES start carrying a PCR.
PcrOnly == [afc |-> 2, pcr |-> TRUE, pusi |-> FALSE, pes |-> FALSE]
PesStart == [afc |-> 1, pcr |-> FALSE, pusi |-> TRUE, pes |-> TRUE]
PesCont == [afc |-> 1, pcr |-> FALSE, pusi |-> FALSE, pes |-> FALSE]
PesStartPcr == [afc |-> 3, pcr |-> TRUE, pusi |-> TRUE, pes |-> TRUE]
AdaptOnly == [afc |-> 2, pcr |-> FALSE, pusi |-> FALSE, pes |-> FALSE]

MCTimingKinds == {PcrOnly, PesStart, PesCont}
MCScrPesKinds == {PcrOnly, PesStart}
MCAheadLeads == {1, 2}
MCFirstLeads == {3}
MCPcrKinds == {PcrOnly, PesCont}
MCPcrPids == {MCPcrPid}
MCCcStarts == {0, 14}
MCPesKinds == {PesStart}
MCCcKinds == {PesCont, AdaptOnly, PesStart}
MCLeads == {-1, 0, 2}
MCLosses == {-1, 0, 1, 16}
MCPtsLeads == {-2, 0, 3}
MCVideoPids == {MCVideoPid}
=============================================================================
