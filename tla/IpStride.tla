------------------------------- MODULE IpStride -------------------------------
(***************************************************************************)
(* The stride prefetcher (prefetcher/ip_stride).  A table remembers for an *)
(* instruction the last line it read and the last stride; a stride seen    *)
(* twice in a row starts a lookahead of some lines, of which one is        *)
(* prefetched in a cycle, and tried again when the cache refuses it.       *)
(* The table is one set of an lru_table, kept as a sequence with the most  *)
(* recently used entry first (see LruTable).                               *)
(***************************************************************************)
EXTENDS Integers, Sequences, SequencesExt

CONSTANTS
    StrideIps, StrideLines,
    TrackerWays, StrideDegree,
    StridePageLines, VirtualPrefetch

ASSUME StrideAssumption ==
    /\ {TrackerWays, StrideDegree, StridePageLines} \subseteq Nat \ {0}
    /\ VirtualPrefetch \in BOOLEAN /\ StrideLines \subseteq Nat

VARIABLES
    tracker,    \* entries [ip, last, stride]
    lookahead,  \* [line, stride, left], or nothing; grounds is a ghost, the lines that
                \* its instruction read last when it started
    reads       \* ghost: the last three lines each instruction read

strideVars == <<tracker, lookahead, reads>>

NoLookahead == [line |-> 0, stride |-> 0, left |-> 0, grounds |-> << >>]

StridePage(line) == line \div StridePageLines

\* The place of an instruction in the table, 0 if it has none
Place(ip) == SelectInSeq(tracker, LAMBDA e : e.ip = ip)

Others(ip) == IF Place(ip) = 0 THEN tracker ELSE RemoveAt(tracker, Place(ip))

\* An entry comes first, and drives out the one used longest ago.
First(e, others) ==
    LET q == <<e>> \o others
    IN  SubSeq(q, 1, IF Len(q) < TrackerWays THEN Len(q) ELSE TrackerWays)

\* Mutated form of Remembered: a second read of the same line leaves the stride.
RememberedMoves(ip, line, stride) ==
    First(IF stride = 0 /\ Place(ip) # 0 THEN tracker[Place(ip)]
          ELSE [ip |-> ip, last |-> line, stride |-> stride], Others(ip))

Remembered(ip, line, stride) ==
    First([ip |-> ip, last |-> line, stride |-> stride], Others(ip))

Stride(ip, line) == IF Place(ip) = 0 THEN 0 ELSE line - tracker[Place(ip)].last

\* initiate_lookahead; a lookahead under way is given up for the new one.
InitiateLookahead(ip, line) ==
    LET stride == Stride(ip, line)
        last3  == SubSeq(<<line>> \o reads[ip], 1, IF Len(reads[ip]) < 2 THEN Len(reads[ip]) + 1
                                                   ELSE 3)
    IN  /\ tracker' = Remembered(ip, line, stride)
        /\ lookahead' = IF stride # 0 /\ stride = tracker[Place(ip)].stride
                        THEN [line |-> line, stride |-> stride, left |-> StrideDegree,
                              grounds |-> last3]
                        ELSE lookahead
        /\ reads' = [reads EXCEPT ![ip] = last3]

\* Mutated form of Advanced: a refused line is skipped.
AdvancedAnyway(l, accepted) ==
    IF l.left = 1 THEN NoLookahead
    ELSE [l EXCEPT !.line = IF accepted THEN @ + l.stride ELSE @, !.left = @ - 1]

Advanced(l, accepted) ==
    IF ~accepted THEN l
    ELSE IF l.left = 1 THEN NoLookahead
    ELSE [l EXCEPT !.line = @ + l.stride, !.left = @ - 1]

\* advance_lookahead, in every cycle; a lookahead ends at the end of a physical page.
AdvanceLookahead(accepted) ==
    /\ lookahead # NoLookahead
    /\ lookahead' =
        IF VirtualPrefetch \/ StridePage(lookahead.line + lookahead.stride) = StridePage(lookahead.line)
        THEN Advanced(lookahead, accepted) ELSE NoLookahead
    /\ UNCHANGED <<tracker, reads>>

StrideInit ==
    /\ tracker = << >> /\ lookahead = NoLookahead
    /\ reads = [ip \in StrideIps |-> << >>]

StrideNext ==
    \/ \E ip \in StrideIps, line \in StrideLines : InitiateLookahead(ip, line)
    \/ \E accepted \in BOOLEAN : AdvanceLookahead(accepted)

StrideSpec == StrideInit /\ [][StrideNext]_strideVars

\* A lookahead follows a stride between the last three lines one instruction read, though
\* other instructions may have driven it out of the table in between, and has prefetched
\* every line of its way so far, each once; it stays in its page.
FollowsTheStride ==
    lookahead # NoLookahead =>
        LET g == lookahead.grounds IN
        /\ Len(g) = 3 /\ g[1] - g[2] = lookahead.stride /\ g[2] - g[3] = lookahead.stride
        /\ lookahead.line = g[1] + (StrideDegree - lookahead.left) * lookahead.stride
        /\ VirtualPrefetch \/ StridePage(lookahead.line) = StridePage(g[1])
=============================================================================
