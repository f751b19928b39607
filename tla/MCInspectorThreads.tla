------------------------- MODULE MCInspectorThreads -------------------------
(***************************************************************************)
(* The two threads of the clock inspector for TLC.  The options (-L, -t)   *)
(* and the kind of input (a file, or a network stream that may return      *)
(* EAGAIN) are given by each cfg; the input holds MCMaxReads buffers, so   *)
(* that samples are added while the reporter clones, before and after a    *)
(* stop request.                                                           *)
(***************************************************************************)
EXTENDS InspectorThreads

MCMaxReads == 3
=============================================================================
