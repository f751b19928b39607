------------------------------- MODULE SeqFilter -------------------------------
(***************************************************************************)
(* The subsequence of the elements of a sequence that lie in a set, in     *)
(* their order: what SelectSeq(s, LAMBDA x : x \in K) returns, written     *)
(* without recursion so that the prover can reason about it.  The k-th     *)
(* element kept is the one at which the count of kept elements reaches k.  *)
(* The slicer uses it for the scan of a block of packets for its PCRs      *)
(* (ltntstools_queryPCRs); MCSlicer checks it against SelectSeq.          *)
(***************************************************************************)
EXTENDS Integers, Sequences, FiniteSets

\* The positions among the first j of s whose element lies in K.
KeptUpTo(s, K, j) == {i \in 1..j : s[i] \in K}

\* How many of the first j elements of s lie in K.
KeptCount(s, K, j) == Cardinality(KeptUpTo(s, K, j))

\* The position of the k-th element of s that lies in K.
KeptAt(s, K, k) ==
    CHOOSE i \in 1..Len(s) : s[i] \in K /\ KeptCount(s, K, i) = k

\* The elements of s that lie in K, in order.
FilterSeq(s, K) ==
    [k \in 1..KeptCount(s, K, Len(s)) |-> s[KeptAt(s, K, k)]]
=============================================================================
