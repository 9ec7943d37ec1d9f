------------------------------- MODULE AmpmLite -------------------------------
(***************************************************************************)
(* The access map prefetcher (prefetcher/va_ampm_lite).  A region is a     *)
(* page, with the lines read and the lines prefetched.  A line is          *)
(* prefetched when the lines at the same distance and at twice that        *)
(* distance on the other side were read.                                   *)
(*                                                                         *)
(* The region to replace is the one with the least lru, which is set when  *)
(* a region is made and never after: regions is a queue, first the oldest. *)
(* It begins full of regions of page 0, of which the first is used.        *)
(***************************************************************************)
EXTENDS Integers, Sequences, SequencesExt, FiniteSets, FiniteSetsExt

CONSTANTS
    AmpmPages, AmpmPageLines,
    RegionCount, MaxDistance, AmpmDegree,
    FreeSlots,          \* places of the cache's prefetch queue, a set of numbers
    MaxReads            \* bound

ASSUME AmpmAssumption ==
    /\ {AmpmPageLines, RegionCount, MaxDistance, AmpmDegree} \subseteq Nat \ {0}
    /\ AmpmPages \subseteq Nat /\ FreeSlots \subseteq Nat /\ MaxReads \in Nat

VARIABLES
    regions,
    readings    \* bound

ampmVars == <<regions, readings>>

NewRegion(page) == [page |-> page, read |-> {}, prefetched |-> {}]

PageAt(line)   == line \div AmpmPageLines
OffsetAt(line) == line % AmpmPageLines

RegionsOf(q, page) == {i \in DOMAIN q : q[i].page = page}

\* check_cl_access, check_cl_prefetch
WasRead(q, line) ==
    \E i \in RegionsOf(q, PageAt(line)) :
        i = Min(RegionsOf(q, PageAt(line))) /\ OffsetAt(line) \in q[i].read
WasPrefetched(q, line) ==
    \E i \in RegionsOf(q, PageAt(line)) :
        i = Min(RegionsOf(q, PageAt(line))) /\ OffsetAt(line) \in q[i].prefetched

WithRegion(q, page) == IF RegionsOf(q, page) # {} THEN q ELSE Append(Tail(q), NewRegion(page))

\* Mutated form of Marked: the mark of a page that is not tracked goes to a new region
\* always.
MarkedAnew(q, line) ==
    Append(Tail(q), [NewRegion(PageAt(line)) EXCEPT !.prefetched = {OffsetAt(line)}])

\* A prefetch beyond the tracked pages makes a region, which may drive out that of the
\* line that is read.
Marked(q, line) ==
    LET r == WithRegion(q, PageAt(line))
    IN  [r EXCEPT ![Min(RegionsOf(r, PageAt(line)))].prefetched = @ \cup {OffsetAt(line)}]

\* The line at distance i of a line, in one direction
Wanted(q, line, direction, i) ==
    /\ WasRead(q, line - direction * i) /\ WasRead(q, line - 2 * direction * i)
    /\ ~WasRead(q, line + direction * i) /\ ~WasPrefetched(q, line + direction * i)

Tried(s, line, direction, i) ==
    IF s.issued < AmpmDegree /\ Wanted(s.q, line, direction, i) /\ s.free > 0
    THEN [s EXCEPT !.q = Marked(@, line + direction * i), !.issued = @ + 1, !.free = @ - 1]
    ELSE s

Direction(s, line, direction) ==
    FoldLeft(LAMBDA t, i : Tried(t, line, direction, i), [s EXCEPT !.issued = 0],
             [i \in 1 .. MaxDistance |-> i])

\* prefetcher_cache_operate.  The read that finds no region makes one, and is not marked.
Read(line, free) ==
    /\ readings < MaxReads /\ readings' = readings + 1
    /\ IF RegionsOf(regions, PageAt(line)) = {}
       THEN regions' = WithRegion(regions, PageAt(line))
       ELSE \E m \in {[regions EXCEPT ![Min(RegionsOf(regions, PageAt(line)))].read =
                            @ \cup {OffsetAt(line)}]} :
               regions' = Direction(Direction([q |-> m, issued |-> 0, free |-> free], line, 1),
                                    line, -1).q

AmpmInit ==
    /\ regions = [i \in 1 .. RegionCount |-> NewRegion(0)]
    /\ readings = 0

AmpmNext ==
    \E page \in AmpmPages, offset \in 0 .. AmpmPageLines - 1, free \in FreeSlots :
        Read(page * AmpmPageLines + offset, free)

AmpmSpec == AmpmInit /\ [][AmpmNext]_ampmVars

-----------------------------------------------------------------------------
\* A page other than 0 has one region, also when a prefetch into the page made it or drove
\* out the region of the line read while that region's own line is underway.
RegionsSound ==
    \A i, j \in DOMAIN regions :
        regions[i].page = regions[j].page /\ i # j => regions[i].page = 0
=============================================================================
