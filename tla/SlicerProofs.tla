------------------------------ MODULE SlicerProofs ------------------------------
(***************************************************************************)
(* Proofs about the slicer (module Slicer) for every input file, every     *)
(* block size and every request: the index it builds and saves is always a *)
(* prefix of the input's PCR positions, a NULL-record crash needs a         *)
(* request past every PCR of the input or a truncated index, and the block *)
(* copy implements the contiguous copy of SliceCopy.                       *)
(*                                                                         *)
(* The scan appends the PCRs of one block at a time; that the blocks add   *)
(* up to the index of the whole file is FilterSeqConcat of module          *)
(* SeqFilterProofs applied to the packets of adjacent blocks.              *)
(***************************************************************************)
EXTENDS Slicer, SeqFilterProofs, TLAPS

\* The packets of f, each with its offset, whatever the block they are read in.
PacketSet(f) == {[offset |-> o, pcr |-> f[o + 1]] : o \in Int}
-----------------------------------------------------------------------------
(* The packets of a block and the PCRs among them.                         *)

\* The n packets read at offset at are a sequence of n packets of f.
LEMMA PacketsType ==
    ASSUME NEW f, NEW at \in Int, NEW n \in Nat
    PROVE  /\ Packets(f, at, n) \in Seq(PacketSet(f))
           /\ Len(Packets(f, at, n)) = n
<1>1. \A i \in 1..n : Packets(f, at, n)[i] \in PacketSet(f)
  BY DEF Packets, PacketSet
<1>. QED
  BY <1>1 DEF Packets

\* Reading a blocks of a packets, then of n, reads the a + n packets.
LEMMA PacketsConcat ==
    ASSUME NEW f, NEW at \in Int, NEW a \in Nat, NEW n \in Nat
    PROVE  Packets(f, at, a) \o Packets(f, at + a, n) = Packets(f, at, a + n)
<1> DEFINE X == Packets(f, at, a)
           Y == Packets(f, at + a, n)
           Z == Packets(f, at, a + n)
           PS == PacketSet(f)
<1>1. X \in Seq(PS) /\ Len(X) = a
      /\ Y \in Seq(PS) /\ Len(Y) = n
      /\ Z \in Seq(PS) /\ Len(Z) = a + n
  BY PacketsType
<1>2. \A i \in 1..(a + n) : Z[i] = IF i <= a THEN X[i] ELSE Y[i - a]
  BY DEF Packets
<1> HIDE DEF X, Y, Z, PS
<1>3. /\ X \o Y \in Seq(PS)
      /\ Len(X \o Y) = Len(X) + Len(Y)
      /\ \A i \in 1..(Len(X) + Len(Y)) :
             (X \o Y)[i] = IF i <= Len(X) THEN X[i] ELSE Y[i - Len(X)]
  BY <1>1, ConcatProperties, Zenon
<1>4. Len(X \o Y) = Len(Z) /\ \A i \in 1..Len(X \o Y) : (X \o Y)[i] = Z[i]
  BY <1>1, <1>2, <1>3
<1>. QED
  <2>1. \A u, v \in Seq(PS) : Len(u) = Len(v) /\ (\A i \in 1..Len(u) : u[i] = v[i]) => u = v
    BY SeqEqual, Zenon
  <2>2. X \o Y = Z
    BY <1>1, <1>3, <1>4, <2>1, Zenon
  <2>. QED
    BY <2>2, Zenon DEF X, Y, Z

\* The PCRs of two adjacent blocks are the PCRs of the two blocks as one.
LEMMA QueryConcat ==
    ASSUME NEW f, NEW at \in Int, NEW a \in Nat, NEW n \in Nat
    PROVE  QueryPCRs(f, at, a) \o QueryPCRs(f, at + a, n) = QueryPCRs(f, at, a + n)
<1> DEFINE X == Packets(f, at, a)
           Y == Packets(f, at + a, n)
           PS == PacketSet(f)
<1>1. X \in Seq(PS) /\ Y \in Seq(PS)
  BY PacketsType
<1>2. X \o Y = Packets(f, at, a + n)
  BY PacketsConcat, Zenon
<1> HIDE DEF X, Y, PS
<1>3. FilterSeq(X \o Y, Record) = FilterSeq(X, Record) \o FilterSeq(Y, Record)
  <2>1. \A S : \A s1, t \in Seq(S) : \A K :
            FilterSeq(s1 \o t, K) = FilterSeq(s1, K) \o FilterSeq(t, K)
    BY FilterSeqConcat, Zenon
  <2>2. \A s1, t \in Seq(PS) :
            FilterSeq(s1 \o t, Record) = FilterSeq(s1, Record) \o FilterSeq(t, Record)
    BY <2>1, SMTT(60)
  <2>. QED
    BY <1>1, <2>2, Zenon
<1>. QED
  BY <1>2, <1>3, Zenon DEF QueryPCRs, X, Y

\* The PCRs of a block are records whose offsets lie in the block.
LEMMA QueryType ==
    ASSUME NEW f, NEW at \in Nat, NEW n \in Nat
    PROVE  /\ QueryPCRs(f, at, n) \in Seq(Record)
           /\ \A k \in 1..Len(QueryPCRs(f, at, n)) :
                  QueryPCRs(f, at, n)[k].offset \in at..(at + n - 1)
<1> DEFINE P == Packets(f, at, n)
           Q == FilterSeq(P, Record)
           PS == PacketSet(f)
<1>1. P \in Seq(PS) /\ Len(P) = n
  BY PacketsType
<1>2. \A i \in 1..n : P[i].offset \in at..(at + n - 1)
  BY DEF Packets
<1> HIDE DEF P, Q, PS
<1>3. /\ Q \in Seq(Record)
      /\ \A k \in 1..Len(Q) : \E i \in 1..Len(P) : Q[k] = P[i]
  BY <1>1, FilterSeqType, SMTT(60) DEF Q
<1>4. QueryPCRs(f, at, n) = Q
  BY DEF QueryPCRs, Q, P
<1>. QED
  BY <1>1, <1>2, <1>3, <1>4

\* A sequence is the prefix of its concatenation with another.
LEMMA PrefixOfConcat ==
    ASSUME NEW S, NEW X \in Seq(S), NEW Y \in Seq(S)
    PROVE  SubSeq(X \o Y, 1, Len(X)) = X
<1>1. /\ X \o Y \in Seq(S)
      /\ Len(X \o Y) = Len(X) + Len(Y)
      /\ \A i \in 1..(Len(X) + Len(Y)) :
             (X \o Y)[i] = IF i <= Len(X) THEN X[i] ELSE Y[i - Len(X)]
  BY ConcatProperties, Zenon
<1>2. \A i \in 1..Len(X) : (X \o Y)[i] = X[i]
  BY <1>1
<1>. QED
  BY <1>1, <1>2

\* The PCRs of the first p packets are a prefix of the input's index.
LEMMA QueryPrefix ==
    ASSUME NEW f, NEW p \in Nat, p <= Len(f)
    PROVE  /\ QueryPCRs(f, 0, p) = SubSeq(FileIndex(f), 1, Len(QueryPCRs(f, 0, p)))
           /\ Len(QueryPCRs(f, 0, p)) <= Len(FileIndex(f))
<1> DEFINE X == QueryPCRs(f, 0, p)
           Y == QueryPCRs(f, p, Len(f) - p)
<1>1. X \in Seq(Record) /\ Y \in Seq(Record)
  BY QueryType
<1>2. X \o Y = FileIndex(f)
  <2>1. 0 \in Int /\ Len(f) - p \in Nat /\ 0 + p = p /\ p + (Len(f) - p) = Len(f)
    OBVIOUS
  <2>2. QueryPCRs(f, 0, p) \o QueryPCRs(f, 0 + p, Len(f) - p)
          = QueryPCRs(f, 0, p + (Len(f) - p))
    BY <2>1, QueryConcat, Zenon
  <2>. QED
    BY <2>1, <2>2, Zenon DEF FileIndex
<1> HIDE DEF X, Y
<1>3. SubSeq(X \o Y, 1, Len(X)) = X
  BY <1>1, PrefixOfConcat, Zenon
<1>4. Len(X \o Y) = Len(X) + Len(Y)
  BY <1>1
<1>5. X = SubSeq(FileIndex(f), 1, Len(X)) /\ Len(X) <= Len(FileIndex(f))
  BY <1>1, <1>2, <1>3, <1>4
<1>. QED
  BY <1>5, Zenon DEF X

\* No packets hold no PCRs.
LEMMA QueryEmpty ==
    ASSUME NEW f, NEW at \in Int
    PROVE  QueryPCRs(f, at, 0) = << >>
<1> DEFINE P == Packets(f, at, 0)
<1>1. Len(P) = 0
  BY PacketsType
<1>2. KeptCount(P, Record, 0) = 0
  BY KeptCountZero
<1>3. FilterSeq(P, Record) = [k \in 1..0 |-> P[KeptAt(P, Record, k)]]
  BY <1>1, <1>2, Zenon DEF FilterSeq
<1>. QED
  BY <1>3 DEF QueryPCRs

\* The records of an input's index are PCR packets of the input.
LEMMA FileIndexType ==
    ASSUME NEW f \in Files
    PROVE  /\ FileIndex(f) \in Seq(Record)
           /\ \A k \in 1..Len(FileIndex(f)) : FileIndex(f)[k].offset \in 0..(Len(f) - 1)
<1>1. Len(f) \in Nat /\ 0 \in Nat
  BY SlicerAssumption
<1>2. /\ QueryPCRs(f, 0, Len(f)) \in Seq(Record)
      /\ \A k \in 1..Len(QueryPCRs(f, 0, Len(f))) :
             QueryPCRs(f, 0, Len(f))[k].offset \in 0..(0 + Len(f) - 1)
  BY <1>1, QueryType, Zenon
<1>3. 0 + Len(f) - 1 = Len(f) - 1
  BY <1>1
<1>. QED
  BY <1>2, <1>3, Zenon DEF FileIndex

\* A prefix of a sequence agrees with it element by element.
LEMMA PrefixElems ==
    ASSUME NEW S, NEW X \in Seq(S), NEW Y \in Seq(S),
           Len(X) <= Len(Y), X = SubSeq(Y, 1, Len(X))
    PROVE  \A i \in 1..Len(X) : X[i] = Y[i]
<1>1. /\ \A i \in 1..Len(X) : Y[i] \in S
      /\ 1 \in Int /\ Len(X) \in Int
  OBVIOUS
<1>2. \A i \in 1..(Len(X) - 1 + 1) : SubSeq(Y, 1, Len(X))[i] = Y[1 + i - 1]
  BY <1>1, SubSeqProperties, SMTT(60)
<1>3. \A i \in 1..Len(X) : SubSeq(Y, 1, Len(X))[i] = Y[i]
  BY <1>2
<1>. QED
  BY <1>3, Zenon

\* The first n records of a sequence are a prefix of it of length n.
LEMMA SubSeqPrefix ==
    ASSUME NEW S, NEW Y \in Seq(S), NEW n \in 0..Len(Y)
    PROVE  /\ SubSeq(Y, 1, n) \in Seq(S)
           /\ Len(SubSeq(Y, 1, n)) = n
<1>1. /\ \A i \in 1..n : Y[i] \in S
      /\ 1 \in Int /\ n \in Int
  OBVIOUS
<1>2. /\ SubSeq(Y, 1, n) \in Seq(S)
      /\ Len(SubSeq(Y, 1, n)) = IF 1 <= n THEN n - 1 + 1 ELSE 0
  BY <1>1, SubSeqProperties, SMTT(60)
<1>. QED
  BY <1>2

\* NULL is no record: its offset is -1.
LEMMA NullNotRecord == NullRecord \notin Record
  BY DEF NullRecord, Record, None

\* indexLookupPCR returns NULL only when every record's PCR is below the
\* one looked up, and otherwise one of the records.
LEMMA LookupSpec ==
    ASSUME NEW l \in Seq(Record), NEW r \in Int
    PROVE  \/ /\ IndexLookupPCR(l, r) = NullRecord
              /\ \A i \in 1..Len(l) : l[i].pcr < r
           \/ \E i \in 1..Len(l) : IndexLookupPCR(l, r) = l[i]
<1> DEFINE hits == {i \in 1..Len(l) : Found(r, l[i])}
<1>1. CASE hits = {}
  <2>1. IndexLookupPCR(l, r) = NullRecord
    BY <1>1 DEF IndexLookupPCR
  <2>2. /\ \A i \in 1..Len(l) : l[i].pcr \in Nat
        /\ \A i \in 1..Len(l) : ~Found(r, l[i])
    <3>0. \A i \in 1..Len(l) : l[i] \in Record
      OBVIOUS
    <3>1. \A i \in 1..Len(l) : l[i].pcr \in Nat
      BY <3>0, Zenon DEF Record
    <3>2. \A i \in 1..Len(l) : ~Found(r, l[i])
      BY <1>1, Zenon
    <3>. QED
      BY <3>1, <3>2
  <2>3. \A i \in 1..Len(l) : l[i].pcr < r
    BY <2>2 DEF Found
  <2>. QED
    BY <2>1, <2>3
<1>2. CASE hits # {}
  <2>0. hits \in SUBSET Nat
    OBVIOUS
  <2>1. \E m \in hits : \A j \in hits : m <= j
    BY <1>2, <2>0, NatMin, Zenon
  <2> DEFINE m == CHOOSE i \in hits : \A j \in hits : i <= j
  <2>2. m \in 1..Len(l)
    BY <2>1
  <2>3. IndexLookupPCR(l, r) = l[m]
    BY <1>2 DEF IndexLookupPCR
  <2>. QED
    BY <2>2, <2>3
<1>. QED
  BY <1>1, <1>2
-----------------------------------------------------------------------------
(* The inductive invariant.  IndexIsPrefix alone is not inductive: a scan  *)
(* step needs the PCRs collected so far to be those of the packets before *)
(* pos, the save needs a set end-of-file flag to mean the whole input was  *)
(* read, and a lookup and a copy need the records they use to come from   *)
(* the index the invocation loaded.  The copy's position is the start     *)
(* record's offset plus what was written, and the loop counter keeps pace *)
(* with it until the input runs out.                                      *)
\* The variables TypeOK leaves out keep the types the code gives them.
ExtraTypeOK ==
    /\ sReq \in Requests \cup {None}
    /\ eReq \in Requests \cup {None}
    /\ pcrMin \in Nat
    /\ pcrMax \in Nat
    /\ begin \in Int
    /\ ofn \in BOOLEAN

\* No index, in memory or on disk, is longer than the input's.
IndexBounded ==
    /\ Len(all) <= Len(FileIndex(file))
    /\ Len(idx) <= Len(FileIndex(file))

\* The scan has collected the PCRs of the packets before pos, and the
\* end-of-file flag is set only once the whole input is read.
ScanInv ==
    pc = "scan" => /\ all = QueryPCRs(file, 0, pos)
                   /\ eof => pos = Len(file)

\* After indexLoad the index in memory is the index file's.
LoadedInv == pc \in {"lookup", "copy", "crash_lookup"} => all = idx

\* A lookup crashed on a NULL record of the loaded index.
CrashInv ==
    pc = "crash_lookup" =>
        \/ IndexLookupPCR(idx, PcrStart) = NullRecord
        \/ IndexLookupPCR(idx, PcrEnd) = NullRecord

\* The copy runs between two records; its input position is the start
\* record's offset plus what was written, and the loop counter equals it
\* until the input runs out.
CopyInv ==
    pc = "copy" => /\ s \in Record
                   /\ e \in Record
                   /\ fpos = s.offset + Len(out)
                   /\ begin = fpos \/ fpos = Len(file)

SlicerIInv ==
    /\ TypeOK
    /\ ExtraTypeOK
    /\ IndexIsPrefix
    /\ IndexBounded
    /\ ScanInv
    /\ LoadedInv
    /\ CrashInv
    /\ CopyInv

\* Facts about the input that every step of the proof uses.
LEMMA FileFacts ==
    ASSUME NEW f \in Files
    PROVE  /\ f \in Seq(Nat \cup {NoPcr})
           /\ Len(f) \in Nat
           /\ FileIndex(f) \in Seq(Record)
           /\ \A k \in 1..Len(FileIndex(f)) : FileIndex(f)[k].offset \in 0..(Len(f) - 1)
           /\ SubSeq(FileIndex(f), 1, 0) = << >>
           /\ SubSeq(FileIndex(f), 1, Len(FileIndex(f))) = FileIndex(f)
<1>1. f \in Seq(Nat \cup {NoPcr})
  BY SlicerAssumption
<1>2. /\ FileIndex(f) \in Seq(Record)
      /\ \A k \in 1..Len(FileIndex(f)) : FileIndex(f)[k].offset \in 0..(Len(f) - 1)
  BY FileIndexType
<1>3. SubSeq(FileIndex(f), 1, Len(FileIndex(f))) = FileIndex(f)
  BY <1>2, SubSeqFull, Zenon
<1>. QED
  BY <1>1, <1>2, <1>3

\* The zeroed state before the first invocation satisfies the invariant.
LEMMA InitIInv == Init => SlicerIInv
<1> SUFFICES ASSUME Init PROVE SlicerIInv
  OBVIOUS
<1>1. FileIndex(file) \in Seq(Record) /\ SubSeq(FileIndex(file), 1, 0) = << >>
      /\ Len(file) \in Nat
  BY FileFacts DEF Init
<1>2. idxExists \in BOOLEAN /\ eof \in BOOLEAN /\ ofn \in BOOLEAN
  BY Zenon DEF Init
<1>3. TypeOK
  BY <1>1, <1>2 DEF Init, TypeOK
<1>4. IndexIsPrefix
  BY <1>1 DEF Init, IndexIsPrefix
<1>5. ExtraTypeOK
  BY <1>2 DEF Init, ExtraTypeOK
<1>6. IndexBounded
  BY <1>1 DEF Init, IndexBounded
<1>7. ScanInv /\ LoadedInv /\ CrashInv /\ CopyInv
  BY DEF Init, ScanInv, LoadedInv, CrashInv, CopyInv
<1>. QED
  BY <1>3, <1>4, <1>5, <1>6, <1>7 DEF SlicerIInv

\* A new invocation: the index is loaded, or the scan starts from the head
\* of the input with nothing collected.
LEMMA StartIInv ==
    ASSUME SlicerIInv, Start
    PROVE  SlicerIInv'
<1>1. /\ file \in Files /\ Len(file) \in Nat
      /\ FileIndex(file) \in Seq(Record)
      /\ SubSeq(FileIndex(file), 1, 0) = << >>
  BY FileFacts DEF SlicerIInv, TypeOK
<1>2. idxExists' \in BOOLEAN /\ eof' \in BOOLEAN /\ ofn' \in BOOLEAN
  BY Zenon DEF Start, SlicerIInv, TypeOK
<1>3. \/ /\ pc' = "scan" /\ all' = << >>
         /\ pcrMin' = 0 /\ pcrMax' = 0
      \/ /\ pc' = "lookup" /\ all' = idx
         /\ pcrMin' \in Nat /\ pcrMax' \in Nat
  <2>1. CASE ~idxExists
    BY <2>1, Zenon DEF Start, IndexLoad
  <2>2. CASE idxExists /\ idx = << >>
    <3>1. Garbage \subseteq Nat
      BY SlicerAssumption DEF Garbage
    <3>. QED
      BY <2>2, <3>1, Zenon DEF Start, IndexLoad
  <2>3. CASE idxExists /\ idx # << >>
    <3>1. idx[1] \in Record /\ idx[Len(idx)] \in Record
      BY <2>3 DEF SlicerIInv, TypeOK
    <3>2. idx[1].pcr \in Nat /\ idx[Len(idx)].pcr \in Nat
      BY <3>1, Zenon DEF Record
    <3>. QED
      BY <2>3, <3>2, Zenon DEF Start, IndexLoad
  <2>. QED
    BY <2>1, <2>2, <2>3
<1>4. TypeOK'
  <2>0. /\ file' = file /\ idx' = idx /\ out' = out /\ pos' = 0 /\ fpos' = 0
        /\ idx \in Seq(Record) /\ out \in Seq(0..(Len(file) - 1))
    BY DEF Start, SlicerIInv, TypeOK
  <2>a. file' \in Files /\ idx' \in Seq(Record)
    BY <1>1, <2>0
  <2>b. all' \in Seq(Record)
    <3>1. << >> \in Seq(Record)
      BY EmptySeq, Zenon
    <3>. QED
      BY <1>3, <2>0, <3>1, Zenon
  <2>c. pos' \in 0..Len(file') /\ fpos' \in 0..Len(file')
    BY <1>1, <2>0
  <2>d. out' \in Seq(0..(Len(file') - 1))
    BY <1>1, <2>0
  <2>1. /\ file' \in Files /\ idx' \in Seq(Record) /\ all' \in Seq(Record)
        /\ pos' \in 0..Len(file') /\ fpos' \in 0..Len(file')
        /\ out' \in Seq(0..(Len(file') - 1))
    BY <2>a, <2>b, <2>c, <2>d
  <2>2. /\ s' \in Record \cup {NullRecord} /\ e' \in Record \cup {NullRecord}
        /\ pc' \in {"exit", "scan", "save", "lookup", "copy", "crash_save",
                    "crash_lookup"}
    BY <1>3, Zenon DEF Start
  <2>. QED
    BY <1>2, <2>1, <2>2, Zenon DEF TypeOK
<1>5. ExtraTypeOK'
  <2>1. /\ sReq' \in Requests \cup {None} /\ eReq' \in Requests \cup {None}
        /\ pcrMin' \in Nat /\ pcrMax' \in Nat /\ begin' \in Int
    BY <1>3 DEF Start
  <2>. QED
    BY <1>2, <2>1, Zenon DEF ExtraTypeOK
<1>6. IndexIsPrefix'
  BY <1>1, <1>3 DEF Start, SlicerIInv, IndexIsPrefix
<1>7. IndexBounded'
  BY <1>1, <1>3 DEF Start, SlicerIInv, IndexBounded
<1>8. ScanInv'
  <2>1. QueryPCRs(file, 0, 0) = << >>
    BY QueryEmpty
  <2>. QED
    BY <1>3, <2>1 DEF Start, ScanInv
<1>9. LoadedInv'
  BY <1>3 DEF Start, LoadedInv
<1>10. CrashInv' /\ CopyInv'
  BY <1>3, Zenon DEF CrashInv, CopyInv
<1>. QED
  BY <1>4, <1>5, <1>6, <1>7, <1>8, <1>9, <1>10 DEF SlicerIInv

\* One fread of the scan: a read of nothing ends the scan with the whole
\* index collected; otherwise the block's PCRs extend the prefix, and a
\* short read, which sets the end-of-file flag, reaches the end.
LEMMA ScanReadIInv ==
    ASSUME SlicerIInv, ScanRead
    PROVE  SlicerIInv'
<1> DEFINE n == IF Len(file) - pos < IndexBlock THEN Len(file) - pos ELSE IndexBlock
           FI == FileIndex(file)
<1>1. /\ file \in Files /\ Len(file) \in Nat
      /\ FI \in Seq(Record)
      /\ pos \in 0..Len(file)
      /\ IndexBlock \in Nat \ {0}
      /\ pc = "scan"
      /\ all = QueryPCRs(file, 0, pos)
  BY FileFacts, SlicerAssumption DEF ScanRead, SlicerIInv, TypeOK, ScanInv
<1>2. /\ n \in 0..(Len(file) - pos)
      /\ n = 0 => pos = Len(file)
      /\ n < IndexBlock => pos + n = Len(file)
  BY <1>1
<1>3. /\ file' = file /\ idx' = idx /\ idxExists' = idxExists
      /\ pcrMin' = pcrMin /\ pcrMax' = pcrMax /\ sReq' = sReq /\ eReq' = eReq
      /\ ofn' = ofn /\ s' = s /\ e' = e /\ begin' = begin /\ fpos' = fpos
      /\ out' = out
  BY DEF ScanRead
<1>4. idxExists' \in BOOLEAN /\ ofn' \in BOOLEAN
  BY <1>3, Zenon DEF SlicerIInv, TypeOK, ExtraTypeOK
<1>5. /\ TypeOK!1' /\ TypeOK!3' /\ TypeOK!8' /\ TypeOK!9' /\ TypeOK!10'
      /\ TypeOK!11' /\ ExtraTypeOK'
      /\ IndexIsPrefix!3' /\ IndexBounded!2'
      /\ LoadedInv' /\ CrashInv' /\ CopyInv'
  <2>1. pc' \in {"save", "scan"}
    BY DEF ScanRead
  <2>. QED
    BY <1>3, <1>4, <2>1 DEF SlicerIInv, TypeOK, ExtraTypeOK, IndexIsPrefix,
                            IndexBounded, LoadedInv, CrashInv, CopyInv
<1>6. CASE n = 0
  <2>1. pc' = "save" /\ pos' = pos /\ all' = all /\ eof' = eof
    BY <1>6 DEF ScanRead
  <2>2. all = FI
    BY <1>1, <1>2, <1>6 DEF FileIndex
  <2>3. eof' \in BOOLEAN
    BY <2>1, Zenon DEF SlicerIInv, TypeOK
  <2>4. /\ TypeOK!4' /\ TypeOK!5' /\ TypeOK!7'
        /\ IndexIsPrefix!1' /\ IndexIsPrefix!2' /\ IndexBounded!1'
    BY <1>1, <1>3, <2>1, <2>2 DEF SlicerIInv, TypeOK, IndexIsPrefix, IndexBounded
  <2>5. ScanInv'
    BY <2>1 DEF ScanInv
  <2>. QED
    BY <1>4, <1>5, <2>3, <2>4, <2>5, Zenon
       DEF SlicerIInv, TypeOK, IndexIsPrefix, IndexBounded
<1>7. CASE n # 0
  <2>1. /\ pc' = "scan" /\ pos' = pos + n /\ eof' = (n < IndexBlock)
        /\ all' = all \o QueryPCRs(file, pos, n)
    BY <1>7 DEF ScanRead
  <2>2. all' = QueryPCRs(file, 0, pos + n)
    <3>1. QueryPCRs(file, 0, pos) \o QueryPCRs(file, 0 + pos, n)
            = QueryPCRs(file, 0, pos + n)
      <4>1. 0 \in Int /\ pos \in Nat /\ n \in Nat
        BY <1>1, <1>2
      <4>. QED
        BY <4>1, QueryConcat, Zenon
    <3>. QED
      BY <1>1, <2>1, <3>1
  <2>3. /\ all' \in Seq(Record)
        /\ all' = SubSeq(FI, 1, Len(all'))
        /\ Len(all') <= Len(FI)
    <3>1. pos + n \in Nat /\ pos + n <= Len(file)
      BY <1>1, <1>2
    <3>2. QueryPCRs(file, 0, pos + n) \in Seq(Record)
      BY <3>1, QueryType
    <3>3. /\ QueryPCRs(file, 0, pos + n)
               = SubSeq(FI, 1, Len(QueryPCRs(file, 0, pos + n)))
          /\ Len(QueryPCRs(file, 0, pos + n)) <= Len(FI)
      BY <3>1, QueryPrefix
    <3>. QED
      BY <2>2, <3>2, <3>3
  <2>4. eof' => pos' = Len(file)
    BY <1>2, <2>1
  <2>5. eof' \in BOOLEAN
    <3>1. (n < IndexBlock) \in BOOLEAN
      OBVIOUS
    <3> HIDE DEF n
    <3>. QED
      BY <2>1, <3>1, Zenon
  <2>6. /\ TypeOK!4' /\ TypeOK!5' /\ TypeOK!7'
        /\ IndexIsPrefix!1' /\ IndexIsPrefix!2' /\ IndexBounded!1'
    BY <1>1, <1>2, <1>3, <2>1, <2>2, <2>3
       DEF TypeOK, IndexIsPrefix, IndexBounded
  <2>7. ScanInv'
    BY <1>3, <2>1, <2>2, <2>4, Zenon DEF ScanInv
  <2>. QED
    BY <1>4, <1>5, <2>5, <2>6, <2>7, Zenon
       DEF SlicerIInv, TypeOK, IndexIsPrefix, IndexBounded
<1>. QED
  BY <1>6, <1>7

\* Between scan, lookup and copy the pc-guarded conjuncts say nothing.
LEMMA QuietPc ==
    ASSUME pc' \in {"exit", "save", "crash_save"}
    PROVE  ScanInv' /\ LoadedInv' /\ CrashInv' /\ CopyInv'
  BY Zenon DEF ScanInv, LoadedInv, CrashInv, CopyInv

\* The loop test finds the end-of-file flag: the scan read the whole input.
LEMMA ScanEofIInv ==
    ASSUME SlicerIInv, ScanEof
    PROVE  SlicerIInv'
<1>1. pos = Len(file)
  BY Zenon DEF ScanEof, SlicerIInv, ScanInv
<1>2. all = FileIndex(file)
  BY <1>1 DEF ScanEof, SlicerIInv, ScanInv, FileIndex
<1>3. pc' = "save"
  BY DEF ScanEof
<1>4. TypeOK' /\ ExtraTypeOK' /\ IndexIsPrefix' /\ IndexBounded'
  BY <1>2, <1>3, Zenon DEF ScanEof, SlicerIInv, TypeOK, ExtraTypeOK,
                          IndexIsPrefix, IndexBounded
<1>. QED
  BY <1>3, <1>4, QuietPc DEF SlicerIInv

\* indexSave: the whole index, a crash before anything is written, or a
\* prefix of whole records.
LEMMA SaveIInv ==
    ASSUME SlicerIInv, Save
    PROVE  SlicerIInv'
<1> DEFINE FI == FileIndex(file)
<1>1. /\ all = FI /\ FI \in Seq(Record)
      /\ SubSeq(FI, 1, Len(FI)) = FI
  BY FileFacts DEF Save, SlicerIInv, TypeOK, IndexIsPrefix
<1>2. /\ file' = file /\ all' = all /\ pos' = pos /\ eof' = eof
      /\ s' = s /\ e' = e /\ fpos' = fpos /\ out' = out
      /\ pcrMin' = pcrMin /\ pcrMax' = pcrMax /\ sReq' = sReq /\ eReq' = eReq
      /\ begin' = begin /\ ofn' = ofn
  BY DEF Save
<1>3. /\ pc' \in {"exit", "crash_save"}
      /\ idxExists' \in BOOLEAN
      /\ idx' \in Seq(Record)
      /\ idx' = SubSeq(FI, 1, Len(idx'))
      /\ Len(idx') <= Len(FI)
  <2>1. CASE idxExists' = TRUE /\ idx' = all /\ pc' = "exit"
    BY <1>1, <2>1
  <2>2. CASE pc' = "crash_save" /\ UNCHANGED <<idxExists, idx>>
    BY <2>2 DEF SlicerIInv, TypeOK, IndexIsPrefix, IndexBounded
  <2>3. CASE /\ \E m \in 0..(Len(all) - 1) : idx' = SubSeq(all, 1, m)
             /\ idxExists' = TRUE
             /\ pc' = "exit"
    <3>1. PICK m \in 0..(Len(all) - 1) : idx' = SubSeq(all, 1, m)
      BY <2>3
    <3>2. m \in 0..Len(FI)
      BY <1>1, <3>1
    <3>3. SubSeq(FI, 1, m) \in Seq(Record) /\ Len(SubSeq(FI, 1, m)) = m
      BY <1>1, <3>2, SubSeqPrefix, Zenon
    <3>. QED
      BY <1>1, <2>3, <3>1, <3>3
  <2>. QED
    BY <2>1, <2>2, <2>3 DEF Save
<1>4. eof' \in BOOLEAN /\ ofn' \in BOOLEAN
  BY <1>2, Zenon DEF SlicerIInv, TypeOK, ExtraTypeOK
<1>5. TypeOK' /\ ExtraTypeOK'
  BY <1>2, <1>3, <1>4, Zenon DEF SlicerIInv, TypeOK, ExtraTypeOK
<1>6. IndexIsPrefix' /\ IndexBounded'
  BY <1>1, <1>2, <1>3 DEF SlicerIInv, IndexIsPrefix, IndexBounded
<1>. QED
  BY <1>3, <1>5, <1>6, QuietPc DEF SlicerIInv

\* The copy loop ends and slicer returns.
LEMMA CopyEndIInv ==
    ASSUME SlicerIInv, CopyEnd
    PROVE  SlicerIInv'
<1>1. pc' = "exit"
  BY DEF CopyEnd
<1>2. TypeOK' /\ ExtraTypeOK' /\ IndexIsPrefix' /\ IndexBounded'
  BY <1>1, Zenon DEF CopyEnd, SlicerIInv, TypeOK, ExtraTypeOK,
                    IndexIsPrefix, IndexBounded
<1>. QED
  BY <1>1, <1>2, QuietPc DEF SlicerIInv

\* indexLookupPCR on the index in memory gives NULL or a record at an
\* offset of the input.
LEMMA LookupResult ==
    ASSUME SlicerIInv, NEW q \in Int
    PROVE  \/ IndexLookupPCR(all, q) = NullRecord
           \/ /\ IndexLookupPCR(all, q) \in Record
              /\ IndexLookupPCR(all, q).offset \in 0..(Len(file) - 1)
<1> DEFINE FI == FileIndex(file)
<1>1. /\ all \in Seq(Record) /\ FI \in Seq(Record)
      /\ all = SubSeq(FI, 1, Len(all)) /\ Len(all) <= Len(FI)
      /\ \A k \in 1..Len(FI) : FI[k].offset \in 0..(Len(file) - 1)
  BY FileFacts DEF SlicerIInv, TypeOK, IndexIsPrefix, IndexBounded
<1>2. \A i \in 1..Len(all) : all[i] = FI[i]
  BY <1>1, PrefixElems, Zenon
<1>3. \/ IndexLookupPCR(all, q) = NullRecord
      \/ \E i \in 1..Len(all) : IndexLookupPCR(all, q) = all[i]
  BY <1>1, LookupSpec, Zenon
<1>. QED
  BY <1>1, <1>2, <1>3

\* The lookup of -s and -e in the loaded index: a NULL record crashes; two
\* records end the invocation or, with -o, start the copy at the start
\* record's offset, which lies in the input.
LEMMA LookupIInv ==
    ASSUME SlicerIInv, Lookup
    PROVE  SlicerIInv'
<1> DEFINE sr == IndexLookupPCR(all, PcrStart)
           er == IndexLookupPCR(all, PcrEnd)
           FI == FileIndex(file)
<1>1. /\ pc = "lookup" /\ all = idx
      /\ all \in Seq(Record) /\ FI \in Seq(Record)
      /\ all = SubSeq(FI, 1, Len(all)) /\ Len(all) <= Len(FI)
      /\ \A k \in 1..Len(FI) : FI[k].offset \in 0..(Len(file) - 1)
  BY FileFacts DEF Lookup, SlicerIInv, TypeOK, IndexIsPrefix, IndexBounded, LoadedInv
<1>2. PcrStart \in Int /\ PcrEnd \in Int
  BY SlicerAssumption DEF SlicerIInv, ExtraTypeOK, PcrStart, PcrEnd, None
<1>4. /\ \/ sr = NullRecord
         \/ sr \in Record /\ sr.offset \in 0..(Len(file) - 1)
      /\ \/ er = NullRecord
         \/ er \in Record /\ er.offset \in 0..(Len(file) - 1)
  BY <1>2, LookupResult
<1>5. /\ file' = file /\ idx' = idx /\ idxExists' = idxExists /\ all' = all
      /\ pos' = pos /\ eof' = eof /\ pcrMin' = pcrMin /\ pcrMax' = pcrMax
      /\ sReq' = sReq /\ eReq' = eReq /\ ofn' = ofn
      /\ s' = sr /\ e' = er
  BY DEF Lookup
<1>6. /\ idxExists' \in BOOLEAN /\ eof' \in BOOLEAN /\ ofn' \in BOOLEAN
      /\ ExtraTypeOK'
  <2>1. begin' \in Int
    <3>1. CASE sr = NullRecord \/ er = NullRecord \/ ~ofn
      BY <3>1, Zenon DEF Lookup, SlicerIInv, ExtraTypeOK
    <3>2. CASE sr # NullRecord /\ er # NullRecord /\ ofn
      <4>1. begin' = sr.offset
        BY <3>2, Zenon DEF Lookup
      <4>. QED
        BY <1>4, <3>2, <4>1
    <3>. QED
      BY <3>1, <3>2
  <2>. QED
    BY <1>5, <2>1, Zenon DEF SlicerIInv, TypeOK, ExtraTypeOK
<1>7. IndexIsPrefix' /\ IndexBounded'
  <2>1. pc' # "save"
    BY Zenon DEF Lookup
  <2>. QED
    BY <1>1, <1>5, <2>1 DEF SlicerIInv, IndexIsPrefix, IndexBounded
<1>8. /\ TypeOK!1' /\ TypeOK!3' /\ TypeOK!5' /\ TypeOK!7'
      /\ TypeOK!8' /\ TypeOK!9'
  BY <1>1, <1>4, <1>5 DEF SlicerIInv, TypeOK
<1>9. CASE sr = NullRecord \/ er = NullRecord
  <2>1. pc' = "crash_lookup" /\ UNCHANGED <<begin, fpos, out>>
    BY <1>9, Zenon DEF Lookup
  <2>2. TypeOK!4' /\ TypeOK!10' /\ TypeOK!11'
    BY <1>5, <2>1 DEF SlicerIInv, TypeOK
  <2>3. LoadedInv' /\ ScanInv' /\ CopyInv'
    BY <1>1, <1>5, <2>1 DEF LoadedInv, ScanInv, CopyInv
  <2>4. CrashInv'
    BY <1>1, <1>5, <1>9, <2>1 DEF CrashInv, PcrStart, PcrEnd
  <2>. QED
    BY <1>6, <1>7, <1>8, <2>2, <2>3, <2>4, Zenon DEF SlicerIInv, TypeOK
<1>10. CASE sr # NullRecord /\ er # NullRecord /\ ~ofn
  <2>1. pc' = "exit" /\ UNCHANGED <<begin, fpos, out>>
    BY <1>10, Zenon DEF Lookup
  <2>2. TypeOK!4' /\ TypeOK!10' /\ TypeOK!11'
    BY <1>5, <2>1 DEF SlicerIInv, TypeOK
  <2>3. ScanInv' /\ LoadedInv' /\ CrashInv' /\ CopyInv'
    BY <2>1, QuietPc
  <2>. QED
    BY <1>6, <1>7, <1>8, <2>2, <2>3, Zenon DEF SlicerIInv, TypeOK
<1>11. CASE sr # NullRecord /\ er # NullRecord /\ ofn
  <2>1. /\ pc' = "copy" /\ out' = << >>
        /\ begin' = sr.offset /\ fpos' = sr.offset
    BY <1>11, Zenon DEF Lookup, Seek
  <2>2. sr \in Record /\ er \in Record /\ sr.offset \in 0..(Len(file) - 1)
    BY <1>4, <1>11
  <2>3. << >> \in Seq(0..(Len(file) - 1))
    BY EmptySeq, Zenon
  <2>4. TypeOK!4' /\ TypeOK!10' /\ TypeOK!11'
    BY <1>5, <2>1, <2>2, <2>3 DEF TypeOK
  <2>5. ScanInv' /\ LoadedInv' /\ CrashInv'
    BY <1>1, <1>5, <2>1 DEF ScanInv, LoadedInv, CrashInv
  <2>6. CopyInv'
    BY <1>5, <2>1, <2>2 DEF CopyInv
  <2>. QED
    BY <1>6, <1>7, <1>8, <2>4, <2>5, <2>6, Zenon DEF SlicerIInv, TypeOK
<1>. QED
  BY <1>9, <1>10, <1>11

\* One block of the copy: what fread returns is appended, the input
\* position moves by it, and the counter moves by a whole block, so the two
\* part only on a short read, at the end of the input.
LEMMA CopyReadIInv ==
    ASSUME SlicerIInv, CopyRead
    PROVE  SlicerIInv'
<1> DEFINE rlen == IF Len(file) - fpos < CopyBlock THEN Len(file) - fpos ELSE CopyBlock
           W == [i \in 1..rlen |-> fpos + i - 1]
<1>0. s \in Record /\ s.offset \in Nat
  <2>1. s \in Record
    BY DEF CopyRead, SlicerIInv, CopyInv
  <2>. QED
    BY <2>1, Zenon DEF Record
<1>1. /\ pc = "copy" /\ Len(file) \in Nat /\ CopyBlock \in Nat \ {0}
      /\ fpos \in 0..Len(file) /\ out \in Seq(0..(Len(file) - 1))
      /\ fpos = s.offset + Len(out)
      /\ begin \in Int /\ (begin = fpos \/ fpos = Len(file))
  BY FileFacts, SlicerAssumption
     DEF CopyRead, SlicerIInv, TypeOK, ExtraTypeOK, CopyInv
<1>2. /\ rlen \in 0..(Len(file) - fpos)
      /\ rlen <= CopyBlock
      /\ rlen < CopyBlock => fpos + rlen = Len(file)
      /\ fpos = Len(file) => rlen = 0
  <2>1. Len(file) \in Nat /\ CopyBlock \in Nat \ {0} /\ fpos \in 0..Len(file)
    BY <1>1
  <2>. QED
    BY <2>1
<1>3. /\ file' = file /\ idx' = idx /\ idxExists' = idxExists /\ all' = all
      /\ pc' = pc /\ pos' = pos /\ eof' = eof /\ pcrMin' = pcrMin
      /\ pcrMax' = pcrMax /\ sReq' = sReq /\ eReq' = eReq /\ ofn' = ofn
      /\ s' = s /\ e' = e
      /\ out' = out \o W /\ fpos' = fpos + rlen /\ begin' = begin + CopyBlock
  BY DEF CopyRead
<1> HIDE DEF rlen
<1>4. /\ W \in Seq(0..(Len(file) - 1)) /\ Len(W) = rlen
  BY <1>1, <1>2
<1> HIDE DEF W
<1>5. /\ out' \in Seq(0..(Len(file) - 1))
      /\ Len(out') = Len(out) + rlen
  <2> DEFINE T == 0..(Len(file) - 1)
  <2>1. out \in Seq(T) /\ W \in Seq(T)
    BY <1>1, <1>4
  <2> HIDE DEF T
  <2>2. out \o W \in Seq(T) /\ Len(out \o W) = Len(out) + Len(W)
    BY <2>1, ConcatProperties, Zenon
  <2>. QED
    BY <1>3, <1>4, <2>2, Zenon DEF T
<1>6. /\ fpos' \in 0..Len(file')
      /\ fpos' = s'.offset + Len(out')
      /\ begin' \in Int
      /\ begin' = fpos' \/ fpos' = Len(file')
  <2>1. /\ Len(file) \in Nat /\ CopyBlock \in Nat \ {0} /\ fpos \in 0..Len(file)
        /\ begin \in Int /\ (begin = fpos \/ fpos = Len(file))
    BY <1>1
  <2>2. Len(out) \in Nat /\ fpos = s.offset + Len(out)
    BY <1>1
  <2>3. fpos' = fpos + rlen /\ begin' = begin + CopyBlock /\ file' = file
    BY <1>3, Zenon
  <2>4. s'.offset = s.offset
    BY <1>3, Zenon
  <2>5. fpos' \in 0..Len(file')
    BY <2>1, <2>3, <1>2
  <2>6. begin' \in Int /\ (begin' = fpos' \/ fpos' = Len(file'))
    BY <2>1, <2>3, <1>2
  <2>7. fpos' = s'.offset + Len(out')
    BY <1>0, <1>2, <2>2, <2>3, <2>4, <1>5
  <2>. QED
    BY <2>5, <2>6, <2>7
<1>7. /\ idxExists' \in BOOLEAN /\ eof' \in BOOLEAN /\ ofn' \in BOOLEAN
  BY <1>3, Zenon DEF SlicerIInv, TypeOK, ExtraTypeOK
<1>8. /\ TypeOK!1' /\ TypeOK!3' /\ TypeOK!4' /\ TypeOK!5' /\ TypeOK!7'
      /\ TypeOK!8' /\ TypeOK!9' /\ TypeOK!10' /\ TypeOK!11'
  BY <1>3, <1>5, <1>6 DEF SlicerIInv, TypeOK
<1>9. /\ ExtraTypeOK!1' /\ ExtraTypeOK!2' /\ ExtraTypeOK!3' /\ ExtraTypeOK!4'
      /\ IndexIsPrefix' /\ IndexBounded'
      /\ ScanInv' /\ LoadedInv' /\ CrashInv'
  BY <1>1, <1>3 DEF SlicerIInv, ExtraTypeOK, IndexIsPrefix, IndexBounded,
                    ScanInv, LoadedInv, CrashInv
<1>10. CopyInv'
  BY <1>0, <1>1, <1>3, <1>6 DEF SlicerIInv, CopyInv
<1>. QED
  BY <1>6, <1>7, <1>8, <1>9, <1>10, Zenon DEF SlicerIInv, TypeOK, ExtraTypeOK

\* Every step of the slicer preserves the invariant.
LEMMA NextIInv == SlicerIInv /\ [Next]_vars => SlicerIInv'
<1> SUFFICES ASSUME SlicerIInv, [Next]_vars PROVE SlicerIInv'
  OBVIOUS
<1>1. CASE Start
  BY <1>1, StartIInv
<1>2. CASE ScanRead
  BY <1>2, ScanReadIInv
<1>3. CASE ScanEof
  BY <1>3, ScanEofIInv
<1>4. CASE Save
  BY <1>4, SaveIInv
<1>5. CASE Lookup
  BY <1>5, LookupIInv
<1>6. CASE CopyRead
  BY <1>6, CopyReadIInv
<1>7. CASE CopyEnd
  BY <1>7, CopyEndIInv
<1>8. CASE UNCHANGED vars
  <2>1. /\ file' = file /\ idxExists' = idxExists /\ idx' = idx /\ pc' = pc
        /\ pos' = pos /\ eof' = eof /\ all' = all /\ pcrMin' = pcrMin
        /\ pcrMax' = pcrMax /\ sReq' = sReq /\ eReq' = eReq /\ ofn' = ofn
        /\ s' = s /\ e' = e /\ begin' = begin /\ fpos' = fpos /\ out' = out
    BY <1>8, Zenon DEF vars
  <2>2. TypeOK' /\ ExtraTypeOK'
    BY <2>1, Zenon DEF SlicerIInv, TypeOK, ExtraTypeOK
  <2>3. IndexIsPrefix' /\ IndexBounded' /\ ScanInv' /\ LoadedInv'
    BY <2>1, Zenon DEF SlicerIInv, IndexIsPrefix, IndexBounded, ScanInv, LoadedInv
  <2>4. CrashInv' /\ CopyInv'
    BY <2>1, Zenon DEF SlicerIInv, CrashInv, CopyInv, PcrStart, PcrEnd
  <2>. QED
    BY <2>2, <2>3, <2>4 DEF SlicerIInv
<1>. QED
  BY <1>1, <1>2, <1>3, <1>4, <1>5, <1>6, <1>7, <1>8 DEF Next

\* The invariant holds in every state the slicer reaches.
LEMMA IInvInvariant == Spec => []SlicerIInv
  BY InitIInv, NextIInv, PTL DEF Spec
-----------------------------------------------------------------------------
(* The invariants of the runs, for every input, block size and request.    *)

\* Every variable of every invocation keeps the shape the code gives it:
\* the scan and copy positions stay within the input and the output holds
\* offsets of the input.
THEOREM SlicerTypeCorrect == Spec => []TypeOK
<1>1. SlicerIInv => TypeOK
  BY DEF SlicerIInv
<1>. QED
  BY <1>1, IInvInvariant, PTL

\* The index the scan collects across blocks and a short last block, and
\* the index file indexSave writes, even cut short, are prefixes of the
\* input's PCR positions in file order, the whole of them at the save.
THEOREM IndexPrefixCorrect == Spec => []IndexIsPrefix
<1>1. SlicerIInv => IndexIsPrefix
  BY DEF SlicerIInv
<1>. QED
  BY <1>1, IInvInvariant, PTL

\* indexDumpEntry dereferences a NULL record only when the requested PCR
\* lies past every PCR of the input or the loaded index is not the
\* input's whole index.
THEOREM CrashOnlyPastEndCorrect == Spec => []CrashOnlyPastEnd
<1>1. SlicerIInv => CrashOnlyPastEnd
  <2> SUFFICES ASSUME SlicerIInv, pc = "crash_lookup", idx = FileIndex(file)
               PROVE  \E r \in {PcrStart, PcrEnd} :
                         \A i \in 1..Len(FileIndex(file)) : FileIndex(file)[i].pcr < r
    BY DEF CrashOnlyPastEnd
  <2>1. PcrStart \in Int /\ PcrEnd \in Int
    BY SlicerAssumption DEF SlicerIInv, ExtraTypeOK, PcrStart, PcrEnd, None
  <2>2. idx \in Seq(Record)
    BY DEF SlicerIInv, TypeOK
  <2>3. ASSUME NEW r \in Int, IndexLookupPCR(idx, r) = NullRecord
        PROVE  \A i \in 1..Len(idx) : idx[i].pcr < r
    <3>1. \/ /\ IndexLookupPCR(idx, r) = NullRecord
             /\ \A i \in 1..Len(idx) : idx[i].pcr < r
          \/ \E i \in 1..Len(idx) : IndexLookupPCR(idx, r) = idx[i]
      BY <2>2, LookupSpec
    <3>2. \A i \in 1..Len(idx) : idx[i] \in Record
      BY <2>2
    <3>. QED
      BY <2>3, <3>1, <3>2, NullNotRecord
  <2>4. IndexLookupPCR(idx, PcrStart) = NullRecord \/ IndexLookupPCR(idx, PcrEnd) = NullRecord
    BY DEF SlicerIInv, CrashInv
  <2>. QED
    BY <2>1, <2>3, <2>4
<1>. QED
  BY <1>1, IInvInvariant, PTL
-----------------------------------------------------------------------------
(* Refinement: the block copy implements SliceCopy.  The output is open    *)
(* from the start record's offset to the end record's while pc is "copy". *)

\* The SliceCopy variables the slicer's state maps to (module Slicer, SC).
CopyFrom == IF pc = "copy" THEN s.offset ELSE None
CopyTo == IF pc = "copy" THEN e.offset ELSE 0
copyVars == <<file, out, CopyFrom, CopyTo>>

\* The zeroed state has no output open.
LEMMA InitRefines == Init => SC!Init
  BY DEF Init, SC!Init, SC!None, None

\* A step that neither opens, writes nor closes the output maps to a
\* stutter of SliceCopy.
LEMMA QuietStep ==
    ASSUME pc # "copy", pc' # "copy", file' = file, out' = out
    PROVE  UNCHANGED copyVars
  BY DEF copyVars, CopyFrom, CopyTo

\* The actions of the scan and the save, and a new invocation, leave the
\* output alone.
LEMMA ScanSaveStartRefine ==
    ASSUME Start \/ ScanRead \/ ScanEof \/ Save
    PROVE  UNCHANGED copyVars
<1>1. CASE Start
  <2>1. pc' \in {"scan", "lookup"}
    BY <1>1, Zenon DEF Start, IndexLoad
  <2>. QED
    BY <1>1, <2>1, QuietStep DEF Start
<1>2. CASE ScanRead
  <2>1. pc = "scan" /\ pc' \in {"scan", "save"} /\ file' = file /\ out' = out
    BY <1>2 DEF ScanRead
  <2>. QED
    BY <2>1, QuietStep
<1>3. CASE ScanEof
  BY <1>3, QuietStep DEF ScanEof
<1>4. CASE Save
  <2>1. pc = "save" /\ pc' \in {"exit", "crash_save"} /\ file' = file /\ out' = out
    BY <1>4 DEF Save
  <2>. QED
    BY <2>1, QuietStep
<1>. QED
  BY <1>1, <1>2, <1>3, <1>4

\* The lookup opens the output, empty, at the start record's offset, or
\* leaves it alone.
LEMMA LookupRefine ==
    ASSUME SlicerIInv, Lookup
    PROVE  [SC!Next]_copyVars
<1> DEFINE sr == IndexLookupPCR(all, PcrStart)
           er == IndexLookupPCR(all, PcrEnd)
<1>1. pc = "lookup" /\ file' = file /\ s' = sr /\ e' = er
  BY DEF Lookup
<1>2. CASE pc' # "copy"
  <2>1. out' = out
    BY <1>2, Zenon DEF Lookup
  <2>. QED
    BY <1>1, <1>2, <2>1, QuietStep
<1>3. CASE pc' = "copy"
  <2>1. sr # NullRecord /\ er # NullRecord /\ out' = << >>
    BY <1>3, Zenon DEF Lookup
  <2>2. PcrStart \in Int /\ PcrEnd \in Int
    BY SlicerAssumption DEF SlicerIInv, ExtraTypeOK, PcrStart, PcrEnd, None
  <2>3. /\ sr \in Record /\ sr.offset \in 0..(Len(file) - 1)
        /\ er \in Record /\ er.offset \in 0..(Len(file) - 1)
    BY <2>1, <2>2, LookupResult
  <2>4. SC!Open
    BY <1>1, <1>3, <2>1, <2>3 DEF SC!Open, SC!None, None
  <2>. QED
    BY <2>4 DEF SC!Next
<1>. QED
  BY <1>2, <1>3

\* A read of the copy loop writes what fread returned right after what the
\* output holds; a read of nothing, at the end of the input, is a stutter.
LEMMA CopyReadRefine ==
    ASSUME SlicerIInv, CopyRead
    PROVE  [SC!Next]_copyVars
<1> DEFINE rlen == IF Len(file) - fpos < CopyBlock THEN Len(file) - fpos ELSE CopyBlock
           W == [i \in 1..rlen |-> fpos + i - 1]
<1>0. s \in Record /\ s.offset \in Nat
  <2>1. s \in Record
    BY DEF CopyRead, SlicerIInv, CopyInv
  <2>. QED
    BY <2>1, Zenon DEF Record
<1>1. /\ Len(file) \in Nat /\ CopyBlock \in Nat \ {0}
      /\ fpos \in 0..Len(file) /\ Len(out) \in Nat
      /\ fpos = s.offset + Len(out)
  BY FileFacts, SlicerAssumption DEF CopyRead, SlicerIInv, TypeOK, CopyInv
<1>2. rlen \in 0..(Len(file) - fpos)
  BY <1>1
<1>3. /\ pc = "copy" /\ pc' = "copy" /\ file' = file /\ s' = s /\ e' = e
      /\ out' = out \o W
  BY DEF CopyRead
<1>4. /\ CopyFrom = s.offset /\ CopyFrom' = CopyFrom /\ CopyTo' = CopyTo
  BY <1>3 DEF CopyFrom, CopyTo
<1> HIDE DEF rlen
<1>5. CASE rlen = 0
  <2>0. out \in Seq(0..(Len(file) - 1))
    BY DEF SlicerIInv, TypeOK
  <2>1. W = << >>
    BY <1>5
  <2> HIDE DEF W
  <2>2. out \o W = out
    BY <2>0, <2>1
  <2>. QED
    BY <1>3, <1>4, <2>2 DEF copyVars
<1>6. CASE rlen # 0
  <2>1. rlen \in 1..Len(file)
    BY <1>1, <1>2, <1>6
  <2>2. SC!Write(rlen)
    <3>1. CopyFrom # SC!None
      BY <1>0, <1>4 DEF SC!None
    <3>2. CopyFrom + Len(out) = fpos
      BY <1>0, <1>1, <1>4
    <3>3. fpos + rlen <= Len(file)
      BY <1>1, <1>2
    <3>4. W = SC!Span(fpos, rlen)
      BY DEF SC!Span
    <3>. QED
      BY <1>3, <1>4, <3>1, <3>2, <3>3, <3>4 DEF SC!Write
  <2>. QED
    BY <1>3, <2>1, <2>2 DEF SC!Next
<1>. QED
  BY <1>5, <1>6

\* The end of the copy loop closes the output: the input position reached
\* the end record's offset or the end of the input.
LEMMA CopyEndRefine ==
    ASSUME SlicerIInv, CopyEnd
    PROVE  [SC!Next]_copyVars
<1>0. s \in Record /\ s.offset \in Nat /\ e \in Record /\ e.offset \in Nat
  <2>1. s \in Record /\ e \in Record
    BY DEF CopyEnd, SlicerIInv, CopyInv
  <2>. QED
    BY <2>1, Zenon DEF Record
<1>1. /\ pc = "copy" /\ pc' = "exit" /\ file' = file /\ out' = out
      /\ begin >= e.offset
  BY DEF CopyEnd
<1>2. /\ fpos = s.offset + Len(out)
      /\ begin = fpos \/ fpos = Len(file)
  BY <1>1 DEF SlicerIInv, CopyInv
<1>3. /\ CopyFrom = s.offset /\ CopyTo = e.offset
      /\ CopyFrom' = None /\ CopyTo' = 0
  BY <1>1 DEF CopyFrom, CopyTo
<1>4. begin \in Int /\ Len(out) \in Nat
  BY DEF SlicerIInv, ExtraTypeOK, TypeOK
<1>5. SC!Close
  <2>1. CopyFrom # SC!None
    BY <1>0, <1>3 DEF SC!None
  <2>2. \/ CopyFrom + Len(out) >= CopyTo
        \/ CopyFrom + Len(out) = Len(file)
    BY <1>0, <1>1, <1>2, <1>3, <1>4
  <2>. QED
    BY <1>1, <1>3, <2>1, <2>2 DEF SC!Close, SC!None, None
<1>. QED
  BY <1>5 DEF SC!Next

\* Every step of the slicer is a step of SliceCopy or leaves its variables
\* unchanged.
LEMMA NextRefines == SlicerIInv /\ [Next]_vars => [SC!Next]_copyVars
<1> SUFFICES ASSUME SlicerIInv, [Next]_vars PROVE [SC!Next]_copyVars
  OBVIOUS
<1>1. CASE Start \/ ScanRead \/ ScanEof \/ Save
  BY <1>1, ScanSaveStartRefine
<1>2. CASE Lookup
  BY <1>2, LookupRefine
<1>3. CASE CopyRead
  BY <1>3, CopyReadRefine
<1>4. CASE CopyEnd
  BY <1>4, CopyEndRefine
<1>5. CASE UNCHANGED vars
  BY <1>5 DEF vars, copyVars, CopyFrom, CopyTo
<1>. QED
  BY <1>1, <1>2, <1>3, <1>4, <1>5 DEF Next

\* The block copy of slicer (lines 457-476) implements the contiguous copy
\* of SliceCopy: the output is opened empty at the start record's offset,
\* receives the input from there on, in order, with no gap and no
\* repetition, and is closed only once the loop counter passes the end
\* record's offset or the input runs out.
THEOREM CopyRefinement == Spec => CopyRefines
<1>1. Spec => []SlicerIInv
  BY IInvInvariant
<1>2. Spec /\ []SlicerIInv => [][SC!Next]_copyVars
  BY NextRefines, PTL DEF Spec
<1>. QED
  BY <1>1, <1>2, InitRefines, PTL
     DEF Spec, CopyRefines, SC!Spec, copyVars, CopyFrom, CopyTo
=============================================================================
