---------------------------- MODULE MCOrderedPts ----------------------------
(***************************************************************************)
(* One PID's ordered PTS list for TLC: five headers over three PTS values, *)
(* so that equal, rising and falling PTS all occur.                        *)
(***************************************************************************)
EXTENDS OrderedPts

MCClocks == {1, 2, 3}
MCMaxItems == 5
=============================================================================
