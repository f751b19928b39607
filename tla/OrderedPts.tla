----------------------------- MODULE OrderedPts -----------------------------
(***************************************************************************)
(* The ordered PTS output of the clock inspector (-R, src/src/slicer.c).   *)
(* With -R, processPESHeader does not print each PTS as it arrives: it     *)
(* keeps them, per PID, in a list ordered by clock (lines 1002-1012), that *)
(* clock_inspector dumps at exit (1648-1653).  ordered_clock_insert        *)
(* (638-656) copies the item into a new node and, unless the list is       *)
(* empty, walks it backwards from the tail to the first node whose clock   *)
(* is not greater than the new one and links the new node after it.  The   *)
(* walk is a loop here too, one node per step.                             *)
(*                                                                         *)
(* The list of one PID is a sequence of items; nr is p->pts_count, the     *)
(* number of the header, and clock its PTS.  filepos is left out: the      *)
(* order does not depend on it.                                            *)
(***************************************************************************)
EXTENDS Naturals, Sequences

CONSTANTS
    Clocks,    \* PTS values the headers may carry
    MaxItems   \* bound: PTS headers on the PID

ASSUME OrderedAssumption ==
    /\ Clocks \subseteq Nat
    /\ MaxItems \in Nat

VARIABLES
    list,      \* p->ordered_pts_list
    pts_count, \* p->pts_count: PTS headers seen on the PID
    walking,   \* ordered_clock_insert is walking the list
    item,      \* the node being inserted
    k          \* the position of the walk's cursor (0: the list head)

vars == <<list, pts_count, walking, item, k>>

Item == [nr : Nat, clock : Nat]

\* The list with e linked after position at (__xorg_list_add).
LinkAfter(l, at, e) ==
    [i \in 1..(Len(l) + 1) |-> IF i <= at THEN l[i]
                               ELSE IF i = at + 1 THEN e
                               ELSE l[i - 1]]

Init ==
    /\ list = << >>
    /\ pts_count = 0
    /\ walking = FALSE
    /\ item = [nr |-> 0, clock |-> 0]
    /\ k = 0

\* A PES header with a PTS on the PID (processPESHeader with -R, lines
\* 1002-1011): the count is advanced, the list initialised for the first
\* header, and ordered_clock_insert called; an empty list gets the item
\* appended, otherwise the walk starts at the tail.
Header(c) ==
    LET nr == pts_count + 1
        base == IF nr = 1 THEN << >> ELSE list
        e == [nr |-> nr, clock |-> c]
    IN  /\ ~walking
        /\ pts_count < MaxItems
        /\ pts_count' = nr
        /\ item' = e
        /\ IF Len(base) = 0
              THEN /\ list' = <<e>>
                   /\ k' = 0
                   /\ UNCHANGED walking
              ELSE /\ list' = base
                   /\ walking' = TRUE
                   /\ k' = Len(base)

\* Mutant: the walk stops only at a strictly smaller clock.
StopsHereStrict(c, node) == c > node.clock

\* if (src->clock >= item->clock): the walk stops at this node.
StopsHere(c, node) == c >= node.clock

\* The walk reaches a node not after the new item and links it there.
Link ==
    /\ walking
    /\ k >= 1
    /\ StopsHere(item.clock, list[k])
    /\ list' = LinkAfter(list, k, item)
    /\ walking' = FALSE
    /\ UNCHANGED <<pts_count, item, k>>

\* The walk passes a node whose clock is greater.
Skip ==
    /\ walking
    /\ k >= 1
    /\ ~StopsHere(item.clock, list[k])
    /\ k' = k - 1
    /\ UNCHANGED <<list, pts_count, walking, item>>

\* The walk reaches the list head: ordered_clock_insert returns without
\* linking the new node.
WalkEnd ==
    /\ walking
    /\ k = 0
    /\ walking' = FALSE
    /\ UNCHANGED <<list, pts_count, item, k>>

Next == (\E c \in Clocks : Header(c)) \/ Link \/ Skip \/ WalkEnd

Spec == Init /\ [][Next]_vars
-----------------------------------------------------------------------------
(* Properties.                                                             *)

\* Every variable has the shape the code gives it.
TypeOK ==
    /\ list \in Seq(Item)
    /\ pts_count \in 0..MaxItems
    /\ walking \in BOOLEAN
    /\ item \in Item
    /\ k \in 0..Len(list)

\* The dump at exit lists PTS values in ascending order, and headers with
\* equal PTS in their arrival order: the backward walk links a new node
\* after every node with the same clock.
OrderedByClock ==
    \A i, j \in 1..Len(list) :
        i < j => \/ list[i].clock < list[j].clock
                 \/ list[i].clock = list[j].clock /\ list[i].nr < list[j].nr

\* The ordered dump lists every PTS header of the PID, each once.
AllPtsListed ==
    ~walking => {list[i].nr : i \in 1..Len(list)} = 1..pts_count
=============================================================================
