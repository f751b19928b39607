------------------------- MODULE OrderedPtsProofs -------------------------
(***************************************************************************)
(* Proof that ordered_clock_insert keeps a PID's list ordered by PTS, ties *)
(* in arrival order, for every sequence of PTS values and every length.    *)
(***************************************************************************)
EXTENDS OrderedPts, TLAPS

\* The inductive invariant.  Besides the order, every listed header is
\* older than the one being inserted, and the walk has only passed nodes
\* whose clock is greater than the new one: so linking after the node it
\* stops at keeps the order.
OrderedIInv ==
    /\ TypeOK
    /\ OrderedByClock
    /\ \A i \in 1..Len(list) : list[i].nr <= pts_count
    /\ walking => /\ item.nr = pts_count
                  /\ \A i \in 1..Len(list) : list[i].nr < item.nr
                  /\ \A j \in (k + 1)..Len(list) : list[j].clock > item.clock

\* The nodes of a list of items have natural numbers and clocks.
LEMMA ItemFields ==
    ASSUME NEW l \in Seq(Item)
    PROVE  \A i \in 1..Len(l) : l[i].nr \in Nat /\ l[i].clock \in Nat
<1>1. \A i \in 1..Len(l) : l[i] \in Item OBVIOUS
<1>2. QED BY <1>1 DEF Item

\* What linking after position at gives: a sequence one longer, the old
\* nodes up to at, the new node, then the rest of the old nodes.
LEMMA LinkAfterShape ==
    ASSUME NEW S, NEW l \in Seq(S), NEW at \in 0..Len(l), NEW e \in S
    PROVE  /\ LinkAfter(l, at, e) \in Seq(S)
           /\ Len(LinkAfter(l, at, e)) = Len(l) + 1
           /\ \A i \in 1..at : LinkAfter(l, at, e)[i] = l[i]
           /\ LinkAfter(l, at, e)[at + 1] = e
           /\ \A i \in (at + 2)..(Len(l) + 1) : LinkAfter(l, at, e)[i] = l[i - 1]
BY DEF LinkAfter

\* The type invariant from its parts, the Boolean one shown apart.
LEMMA TypeParts ==
    ASSUME (/\ list \in Seq(Item) /\ pts_count \in 0..MaxItems
            /\ item \in Item /\ k \in 0..Len(list))',
           walking' \in BOOLEAN
    PROVE  TypeOK'
BY Zenon DEF TypeOK

\* The invariant holds initially.
LEMMA OrderedInit == Init => OrderedIInv
<1> SUFFICES ASSUME Init PROVE OrderedIInv
    OBVIOUS
<1>1. list = << >> /\ ~walking BY Zenon DEF Init
<1>2. 1..Len(list) = {} BY <1>1
<1>3. TypeOK
  <2>1. list \in Seq(Item) BY <1>1
  <2>2. pts_count \in 0..MaxItems BY OrderedAssumption DEF Init
  <2>3. item \in Item BY DEF Init, Item
  <2>4. walking \in BOOLEAN BY Zenon DEF Init
  <2>5. k \in 0..Len(list) BY <1>1 DEF Init
  <2>6. QED BY <2>1, <2>2, <2>3, <2>4, <2>5, Zenon DEF TypeOK
<1>4. OrderedByClock BY <1>2 DEF OrderedByClock
<1>5. \A i \in 1..Len(list) : list[i].nr <= pts_count BY <1>2
<1>6. QED BY <1>1, <1>3, <1>4, <1>5, Zenon DEF OrderedIInv

\* A new header starts a walk from the tail, or fills an empty list.
LEMMA HeaderStep ==
    ASSUME OrderedIInv, NEW c \in Clocks, Header(c)
    PROVE  OrderedIInv'
<1> DEFINE nr == pts_count + 1
           e == [nr |-> nr, clock |-> c]
           base == IF nr = 1 THEN << >> ELSE list
<1>0. /\ list \in Seq(Item) /\ pts_count \in 0..MaxItems /\ pts_count < MaxItems
      /\ \A i \in 1..Len(list) : list[i].nr <= pts_count
      BY Zenon DEF OrderedIInv, TypeOK, Header
<1>1. /\ list \in Seq(Item) /\ pts_count \in 0..(MaxItems - 1)
      /\ \A i \in 1..Len(list) : list[i].nr <= pts_count
      BY <1>0, OrderedAssumption
<1>2. ~walking BY Zenon DEF Header
<1>3. e \in Item BY <1>1, OrderedAssumption DEF Item
<1>4. pts_count' = nr /\ item' = e BY DEF Header
<1>5. pts_count' \in 0..MaxItems BY <1>1, <1>4, OrderedAssumption
<1>6. CASE Len(base) = 0
  <2>1. list' = <<e>> /\ k' = 0 BY <1>2, <1>6 DEF Header
  <2>2. walking' = FALSE
    <3>1. walking' = walking BY <1>6 DEF Header
    <3>2. QED BY <1>2, <3>1
  <2>3. <<e>> \in Seq(Item) /\ Len(<<e>>) = 1 /\ <<e>>[1].nr = nr
    <3>1. <<e>> \in Seq(Item) BY <1>3
    <3>2. Len(<<e>>) = 1 OBVIOUS
    <3>3. <<e>>[1].nr = nr OBVIOUS
    <3>4. QED BY <3>1, <3>2, <3>3
  <2>4. TypeOK'
    <3>1. (/\ list \in Seq(Item) /\ pts_count \in 0..MaxItems
           /\ item \in Item /\ k \in 0..Len(list))'
          BY <1>3, <1>4, <1>5, <2>1, <2>3
    <3>2. QED BY <2>2, <3>1, TypeParts
  <2>5. OrderedByClock' BY <2>1, <2>3 DEF OrderedByClock
  <2>6. \A i \in 1..Len(list') : list'[i].nr <= pts_count' BY <1>4, <2>1, <2>3
  <2>7. QED BY <2>2, <2>4, <2>5, <2>6, Zenon DEF OrderedIInv
<1>7. CASE Len(base) # 0
  <2>1. nr # 1 /\ base = list BY <1>7
  <2>2. list' = list /\ k' = Len(list) BY <1>2, <1>7, <2>1 DEF Header
  <2>3. walking' = TRUE BY <1>2, <1>7, <2>1, Zenon DEF Header
  <2>4. TypeOK' BY <1>1, <1>3, <1>4, <1>5, <2>2, <2>3, TypeParts
  <2>5. OrderedByClock' BY <2>2 DEF OrderedIInv, OrderedByClock
  <2>6. \A i \in 1..Len(list) : list[i].nr < nr BY <1>1, ItemFields
  <2>7. \A i \in 1..Len(list') : list'[i].nr <= pts_count'
    <3>1. \A i \in 1..Len(list) : list[i].nr \in Nat
          BY <1>1, ItemFields DEF Item
    <3>2. \A i \in 1..Len(list) : list[i].nr <= nr BY <1>1, <2>6, <3>1
    <3>3. QED BY <1>4, <2>2, <3>2
  <2>8. \A j \in (k' + 1)..Len(list') : list'[j].clock > item'.clock BY <2>2
  <2>9. item'.nr = pts_count' BY <1>4
  <2>10. QED BY <1>4, <2>2, <2>3, <2>4, <2>5, <2>6, <2>7, <2>8, <2>9 DEF OrderedIInv
<1>8. QED BY <1>6, <1>7

\* The walk links the new node after a node whose clock is not greater.
LEMMA LinkStep ==
    ASSUME OrderedIInv, Link
    PROVE  OrderedIInv'
<1> DEFINE L == LinkAfter(list, k, item)
<1>1. /\ list \in Seq(Item) /\ item \in Item /\ k \in 1..Len(list)
      /\ pts_count \in 0..MaxItems
      BY DEF OrderedIInv, TypeOK, Link
<1>2. walking BY Zenon DEF Link
<1>3. /\ item.nr = pts_count
      /\ \A i \in 1..Len(list) : list[i].nr < item.nr
      /\ OrderedByClock
      BY <1>2 DEF OrderedIInv
<1>4. /\ L \in Seq(Item)
      /\ Len(L) = Len(list) + 1
      /\ \A i \in 1..k : L[i] = list[i]
      /\ L[k + 1] = item
      /\ \A i \in (k + 2)..(Len(list) + 1) : L[i] = list[i - 1]
      BY <1>1, LinkAfterShape
<1>5. list' = L /\ item' = item /\ k' = k /\ pts_count' = pts_count BY DEF Link
<1>6. walking' = FALSE BY Zenon DEF Link
<1>7. item.clock >= list[k].clock BY DEF Link, StopsHere
<1>8. \A j \in (k + 1)..Len(list) : list[j].clock > item.clock
      BY <1>2 DEF OrderedIInv
<1>9. /\ \A i \in 1..Len(list) : list[i].nr \in Nat /\ list[i].clock \in Nat
      /\ item.nr \in Nat /\ item.clock \in Nat
      BY <1>1, ItemFields DEF Item
<1>10. OrderedByClock'
  <2> SUFFICES ASSUME NEW i \in 1..Len(L), NEW j \in 1..Len(L), i < j
               PROVE  \/ L[i].clock < L[j].clock
                      \/ L[i].clock = L[j].clock /\ L[i].nr < L[j].nr
      BY <1>5 DEF OrderedByClock
  <2>0. /\ i \in 1..(Len(list) + 1) /\ j \in 1..(Len(list) + 1)
        /\ k \in 1..Len(list) /\ Len(list) \in Nat
        BY <1>1, <1>4
  <2>1. CASE j <= k
    <3>1. L[i] = list[i] /\ L[j] = list[j] BY <1>4, <2>0, <2>1
    <3>2. i \in 1..Len(list) /\ j \in 1..Len(list) BY <2>0, <2>1
    <3>3. QED BY <1>3, <3>1, <3>2 DEF OrderedByClock
  <2>2. CASE i <= k /\ j = k + 1
    <3>1. L[i] = list[i] /\ L[j] = item BY <1>4, <2>0, <2>2
    <3>2. i \in 1..Len(list) BY <2>0, <2>2
    <3>3. list[i].clock <= list[k].clock
      <4>1. CASE i = k BY <4>1, <1>9, <2>0
      <4>2. CASE i < k
        <5>1. \/ list[i].clock < list[k].clock
              \/ list[i].clock = list[k].clock /\ list[i].nr < list[k].nr
              BY <1>3, <2>0, <3>2, <4>2 DEF OrderedByClock
        <5>2. QED BY <5>1, <1>9, <2>0, <3>2
      <4>3. QED BY <4>1, <4>2, <2>2, <2>0
    <3>4. list[i].nr < item.nr BY <1>3, <3>2
    <3>5. QED BY <1>7, <1>9, <2>0, <3>1, <3>2, <3>3, <3>4
  <2>3. CASE i <= k /\ j >= k + 2
    <3>1. L[i] = list[i] /\ L[j] = list[j - 1] BY <1>4, <2>0, <2>3
    <3>2. i \in 1..Len(list) /\ j - 1 \in 1..Len(list) /\ i < j - 1
          BY <2>0, <2>3
    <3>3. QED BY <1>3, <3>1, <3>2 DEF OrderedByClock
  <2>4. CASE i = k + 1
    <3>1. L[i] = item /\ L[j] = list[j - 1] BY <1>4, <2>0, <2>4
    <3>2. j - 1 \in (k + 1)..Len(list) BY <2>0, <2>4
    <3>3. QED BY <1>8, <3>1, <3>2
  <2>5. CASE i >= k + 2
    <3>1. L[i] = list[i - 1] /\ L[j] = list[j - 1] BY <1>4, <2>0, <2>5
    <3>2. i - 1 \in 1..Len(list) /\ j - 1 \in 1..Len(list) /\ i - 1 < j - 1
          BY <2>0, <2>5
    <3>3. QED BY <1>3, <3>1, <3>2 DEF OrderedByClock
  <2>6. QED BY <2>0, <2>1, <2>2, <2>3, <2>4, <2>5
<1>11. \A i \in 1..Len(L) : L[i].nr <= pts_count
  <2> SUFFICES ASSUME NEW i \in 1..Len(L) PROVE L[i].nr <= pts_count
      OBVIOUS
  <2>0. i \in 1..(Len(list) + 1) /\ k \in 1..Len(list) BY <1>1, <1>4
  <2>1. CASE i <= k
    <3>1. L[i] = list[i] /\ i \in 1..Len(list) BY <1>4, <2>0, <2>1
    <3>2. QED BY <1>3, <1>9, <3>1
  <2>2. CASE i = k + 1 BY <1>1, <1>3, <1>4, <2>2
  <2>3. CASE i >= k + 2
    <3>1. L[i] = list[i - 1] /\ i - 1 \in 1..Len(list) BY <1>4, <2>0, <2>3
    <3>2. QED BY <1>3, <1>9, <3>1
  <2>4. QED BY <2>0, <2>1, <2>2, <2>3
<1>12. TypeOK'
  <2>1. (/\ list \in Seq(Item) /\ pts_count \in 0..MaxItems
         /\ item \in Item /\ k \in 0..Len(list))'
        BY <1>1, <1>4, <1>5
  <2>2. QED BY <1>6, <2>1, TypeParts
<1>13. QED BY <1>5, <1>6, <1>10, <1>11, <1>12, Zenon DEF OrderedIInv

\* The walk passes a node with a greater clock.
LEMMA SkipStep ==
    ASSUME OrderedIInv, Skip
    PROVE  OrderedIInv'
<1>1. walking /\ walking' = TRUE BY Zenon DEF Skip
<1>2. /\ list \in Seq(Item) /\ k \in 1..Len(list) /\ pts_count \in 0..MaxItems
      /\ item \in Item
      BY DEF OrderedIInv, TypeOK, Skip
<1>3. list' = list /\ k' = k - 1 /\ item' = item /\ pts_count' = pts_count
      BY DEF Skip
<1>4. item.clock < list[k].clock BY <1>2, ItemFields DEF Skip, StopsHere, Item
<1>5. TypeOK' BY <1>1, <1>2, <1>3, TypeParts
<1>6. \A j \in (k' + 1)..Len(list') : list'[j].clock > item'.clock
  <2>1. \A j \in (k + 1)..Len(list) : list[j].clock > item.clock
        BY <1>1 DEF OrderedIInv
  <2>2. QED BY <1>2, <1>3, <1>4, <2>1
<1>7. QED BY <1>1, <1>3, <1>5, <1>6 DEF OrderedIInv, OrderedByClock

\* The walk ends at the list head without linking the node.
LEMMA WalkEndStep ==
    ASSUME OrderedIInv, WalkEnd
    PROVE  OrderedIInv'
<1>1. walking' = FALSE BY Zenon DEF WalkEnd
<1>2. list' = list /\ k' = k /\ item' = item /\ pts_count' = pts_count
      BY DEF WalkEnd
<1>3. TypeOK' BY <1>1, <1>2, TypeParts DEF OrderedIInv, TypeOK
<1>4. QED BY <1>1, <1>2, <1>3 DEF OrderedIInv, OrderedByClock

\* Every step keeps the invariant.
LEMMA OrderedStep == OrderedIInv /\ [Next]_vars => OrderedIInv'
<1> SUFFICES ASSUME OrderedIInv, [Next]_vars PROVE OrderedIInv'
    OBVIOUS
<1>1. CASE \E c \in Clocks : Header(c) BY <1>1, HeaderStep
<1>2. CASE Link BY <1>2, LinkStep
<1>3. CASE Skip BY <1>3, SkipStep
<1>4. CASE WalkEnd BY <1>4, WalkEndStep
<1>5. CASE UNCHANGED vars
      BY <1>5 DEF vars, OrderedIInv, TypeOK, OrderedByClock
<1>6. QED BY <1>1, <1>2, <1>3, <1>4, <1>5 DEF Next

\* The dump of every PID's ordered list at exit is in ascending PTS order,
\* headers with equal PTS in arrival order, whatever the PTS values.
THEOREM OrderedListSorted == Spec => []OrderedByClock
<1>1. Init => OrderedIInv BY OrderedInit
<1>2. OrderedIInv /\ [Next]_vars => OrderedIInv' BY OrderedStep
<1>3. OrderedIInv => OrderedByClock BY DEF OrderedIInv
<1>4. QED BY <1>1, <1>2, <1>3, PTL DEF Spec
=============================================================================
