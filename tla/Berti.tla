-------------------------------- MODULE Berti --------------------------------
(***************************************************************************)
(* The Berti prefetcher (prefetcher/berti) in the cache it is attached to. *)
(* A latency table times the misses in flight, a shadow cache keeps the    *)
(* latency of the lines that are there, and a history table the accesses   *)
(* of each instruction.  From the three Berti learns by which distances    *)
(* (deltas) a prefetch would have come in time, and prefetches along those *)
(* it is confident of.                                                     *)
(*                                                                         *)
(* Of the cache there is what Berti sees: lines, the misses in flight, the *)
(* prefetch queue and the requests that wait for room.  Statistics and the *)
(* hashing of instruction addresses to tags are left out.                  *)
(***************************************************************************)
EXTENDS Integers, Sequences, FiniteSets, FiniteSetsExt, SequencesExt, Functions, TLC

CONSTANTS
    Tags, Lines,
    Programs,                       \* sequences of demands, [tag, line]
    LineSets, LineWays,             \* of the cache and its shadow
    Misses, PrefetchSlots, Waiting, \* MSHR_SIZE, PQ_SIZE and requests in tag check
    QueueSlots,                     \* of the queues from above
    HistoryWays,                    \* of each of the HISTORY_TABLE_SETS
    BertiTableSize, DeltaSize, DeltaLimit,
    ConfidenceMax, ConfidenceL1, ConfidenceL2, ConfidenceL2R,
    MshrLimit,                      \* in percent
    TimeMod, LatMod, AddrMod,       \* TIME_MASK + 1, LAT_MASK + 1, ADDR_MASK + 1
    FirstCycle, LastCycle           \* bounds

\* A tag of 0 would mark an entry free.  What waits in tag check came from the queues.
ASSUME BertiAssumption ==
    /\ Tags \cup Lines \subseteq Nat \ {0}
    /\ {LineSets, LineWays, Misses, PrefetchSlots, HistoryWays, DeltaSize,
        LatMod, AddrMod} \subseteq Nat \ {0}
    /\ {Waiting, QueueSlots, TimeMod} \subseteq Nat
    /\ Waiting <= QueueSlots /\ LatMod < TimeMod
    /\ ConfidenceL2R <= ConfidenceL2 /\ ConfidenceL2 <= ConfidenceL1
    /\ ConfidenceL1 < ConfidenceMax
    /\ FirstCycle \in Nat \ {0} /\ {LastCycle, BertiTableSize} \subseteq Nat
    /\ Programs \subseteq Seq([tag : Tags, line : Lines])

VARIABLES
    berti,      \* the four tables
    now,
    blocks,     \* the line in each way of the cache, 0 if none
    mshr,       \* misses in flight: whether each is a prefetch
    waiting,    \* requests that found no room, [line, tag] with tag 0 for a prefetch
    pq,         \* prefetches to this level that were not started, oldest first
    program,    \* the demands to come
    seen,       \* history: the accesses so far
    lesson      \* history: what was learned last, and how early it had to be

bertiVars == <<berti, now, blocks, mshr, waiting, pq, program, seen, lesson>>

HistorySet(tag) == tag % 2          \* TABLE_SET_MASK

LatencySlots == Misses + QueueSlots + PrefetchSlots

Frames == (0 .. LineSets - 1) \X (1 .. LineWays)

NewBerti ==
    [latency |-> << >>,
     shadow  |-> [f \in Frames |-> [line |-> 0, pf |-> FALSE, lat |-> 0]],
     history |-> [s \in {0, 1} |->
                    [at |-> 1, entry |-> [k \in 1 .. HistoryWays |->
                                            [tag |-> 0, line |-> 0, time |-> 0]]]],
     table   |-> << >>, fifo |-> << >>, failed |-> FALSE]

\* The elements of q that are in S, in their order.
Among(q, S) == FoldLeft(LAMBDA acc, e : IF e \in S THEN Append(acc, e) ELSE acc, << >>, q)

-----------------------------------------------------------------------------
(* The latency table: at most one entry for a line                         *)

LatencyAdd(b, line, tag, pf, cycle) ==
    IF line \in DOMAIN b.latency
    THEN [b EXCEPT !.latency[line].pf = pf, !.latency[line].tag = tag]
    ELSE IF Cardinality(DOMAIN b.latency) >= LatencySlots THEN [b EXCEPT !.failed = TRUE]
    ELSE [b EXCEPT !.latency =
            [l \in DOMAIN @ \cup {line} |->
                IF l = line THEN [tag |-> tag, time |-> cycle, pf |-> pf] ELSE @[l]]]

\* Mutated form of LatencyDel: a prefetched line stays.
LatencyDelMisses(b, line) ==
    IF line \in DOMAIN b.latency /\ b.latency[line].pf THEN b
    ELSE [b EXCEPT !.latency = [l \in DOMAIN @ \ {line} |-> @[l]]]

LatencyDel(b, line) == [b EXCEPT !.latency = [l \in DOMAIN @ \ {line} |-> @[l]]]

\* get: the time of a miss in flight; a line that is not there has 0.
LatencyGet(b, line) == IF line \in DOMAIN b.latency THEN b.latency[line].time ELSE 0

-----------------------------------------------------------------------------
(* The shadow cache                                                        *)

InShadow(b, line) == {f \in Frames : b.shadow[f].line = line}

ShadowAdd(b, frame, line, pf, lat) ==
    [b EXCEPT !.shadow[frame] = [line |-> line, pf |-> pf, lat |-> lat]]

-----------------------------------------------------------------------------
(* The history table: each set a ring, at points to the oldest entry       *)

\* What the history keeps of a line: lines that differ above ADDR_MASK are one to it.
Kept(line) == line % AddrMod

\* add.  What is meant to be the latest entry is compared with the access: it is read
\* from before the ring when the oldest is the first of it (any memory), and is the
\* first one when the oldest is the last.
SameAsLatest(h, line) ==
    IF h.at = HistoryWays THEN {h.entry[1].line = Kept(line)}
    ELSE IF h.at = 1 THEN BOOLEAN
    ELSE {h.entry[h.at - 1].line = Kept(line)}

HistoryAdd(b, tag, line) ==
    LET s == HistorySet(tag)
        h == b.history[s]
        added == [b EXCEPT !.history[s] =
                    [at    |-> IF h.at = HistoryWays THEN 1 ELSE h.at + 1,
                     entry |-> [h.entry EXCEPT ![h.at] =
                                  [tag |-> tag, line |-> Kept(line),
                                   time |-> now % TimeMod]]]]
    IN  {IF same THEN b ELSE added : same \in SameAsLatest(h, line)}

\* Mutated form of OnTime: as if prefetches took no time.
OnTimeAtOnce(b, tag, line, cycle, latency) ==
    LET h    == b.history[HistorySet(tag)]
        ring == [k \in 1 .. HistoryWays |-> h.entry[((h.at - k) % HistoryWays) + 1]]
        match == {e \in Range(h.entry) : e.tag = tag /\ e.time <= cycle}
        stop == SelectInSeq(ring, LAMBDA e : e \in match /\ e.line = Kept(line))
    IN  Among(IF stop = 0 THEN ring ELSE SubSeq(ring, 1, stop - 1), match)

\* get: the accesses of the tag from which a prefetch of line would have come in time,
\* the oldest one and then from the newest on, up to an access to line itself or to one
\* that is kept the same.
OnTime(b, tag, line, cycle, latency) ==
    LET h    == b.history[HistorySet(tag)]
        ring == [k \in 1 .. HistoryWays |-> h.entry[((h.at - k) % HistoryWays) + 1]]
        match == {e \in Range(h.entry) : e.tag = tag /\ e.time <= cycle - latency}
        stop == SelectInSeq(ring, LAMBDA e : e \in match /\ e.line = Kept(line))
    IN  IF cycle < latency THEN << >>
        ELSE Among(IF stop = 0 THEN ring ELSE SubSeq(ring, 1, stop - 1), match)

-----------------------------------------------------------------------------
(* The table of deltas                                                     *)

Level(conf) ==
    IF conf > ConfidenceL1 THEN "L1" ELSE IF conf > ConfidenceL2 THEN "L2"
    ELSE IF conf > ConfidenceL2R THEN "L2R" ELSE "R"

\* increase_conf_tag: when the tag has been trained often enough, the deltas get their
\* levels and start anew.
IncreaseConfTag(b, tag) ==
    IF tag \notin DOMAIN b.table THEN b
    ELSE IF b.table[tag].conf + 1 # ConfidenceMax THEN [b EXCEPT !.table[tag].conf = @ + 1]
    ELSE [b EXCEPT !.table[tag] =
            [conf   |-> 0,
             deltas |-> [d \in DOMAIN @.deltas |->
                            [conf |-> 0, rpl |-> Level(@.deltas[d].conf)]]]]

NewDelta == [conf |-> 1, rpl |-> "R"]

With(f, x, v) == [y \in DOMAIN f \cup {x} |-> IF y = x THEN v ELSE f[y]]
Without(f, S) == [y \in DOMAIN f \ S |-> f[y]]

\* compare_rpl: what is given up first
Rank(x) == (IF x.rpl = "R" THEN 0 ELSE IF x.rpl = "L2R" THEN 1 ELSE 2) * (ConfidenceMax + 1)
                + x.conf

\* The deltas an entry may have after one more; the order of equal ones is the sort's.
WithDelta(deltas, delta) ==
    LET least == Min({Rank(deltas[d]) : d \in DOMAIN deltas})
    IN  IF delta \in DOMAIN deltas
        THEN {[deltas EXCEPT ![delta].conf = Min({@ + 1, ConfidenceMax})]}
        ELSE IF Cardinality(DOMAIN deltas) < DeltaSize
        THEN {With(deltas, delta, NewDelta)}
        ELSE {IF deltas[d].rpl \in {"R", "L2R"}
              THEN With(Without(deltas, {d}), delta, NewDelta) ELSE deltas :
                d \in {d \in DOMAIN deltas : Rank(deltas[d]) = least}}

\* add.  The oldest tag goes when there are more than BertiTableSize: there may be one
\* more of them.
DeltaAdd(b, tag, delta) ==
    IF tag \in DOMAIN b.table
    THEN {[b EXCEPT !.table[tag].deltas = ds] :
            ds \in WithDelta(b.table[tag].deltas, delta)}
    ELSE LET full == Len(b.fifo) > BertiTableSize
             out  == IF full THEN {Head(b.fifo)} ELSE {}
             rest == IF full THEN Tail(b.fifo) ELSE b.fifo
             kept == Without(b.table, out)
         IN  {[b EXCEPT !.fifo = Append(rest, tag),
                        !.failed = @ \/ Cardinality(DOMAIN kept) > BertiTableSize,
                        !.table = With(kept, tag, [conf   |-> 1,
                                                   deltas |-> With(<< >>, delta, NewDelta)])]}

Near(delta) == -DeltaLimit < delta /\ delta < DeltaLimit

\* find_and_update: each of the accesses is a delta that would have helped.
FindAndUpdate(b, latency, tag, cycle, line) ==
    LET found == OnTime(b, tag, line, cycle, latency)
        far   == [k \in DOMAIN found |-> Kept(line) - found[k].line]
        ds    == Among(far, {d \in Range(far) : Near(d)})
        start == IF found = << >> THEN b ELSE IncreaseConfTag(b, tag)
    IN  [outcomes |-> FoldLeft(LAMBDA S, d : UNION {DeltaAdd(x, tag, d) : x \in S},
                               {start}, ds),
         deltas   |-> Range(ds)]

-----------------------------------------------------------------------------
(* prefetcher_cache_operate                                                *)

Priority(rpl) == IF rpl = "L1" THEN 0 ELSE IF rpl = "L2" THEN 1 ELSE 2

\* get: the orders of the deltas with a level, best first; the sort leaves open which of
\* two equal ones is first.  The vector they go to comes with DeltaSize empty ones, so it
\* is never empty, and deltas of middle confidence are never launched; the loop ends at
\* the first empty one.
Launches(b, tag) ==
    LET deltas == IF tag \in DOMAIN b.table THEN b.table[tag].deltas ELSE << >>
        ds     == {d \in DOMAIN deltas : deltas[d].rpl # "R"}
        Order(d) == Priority(deltas[d].rpl) * 2 * DeltaLimit + (IF d < 0 THEN -d ELSE d)
    IN  {q \in [1 .. Cardinality(ds) -> ds] :
            IsInjective(q) /\ \A j, k \in DOMAIN q : j < k => Order(q[j]) <= Order(q[k])}

FillsThisLevel(b, tag, delta, load) ==
    /\ b.table[tag].deltas[delta].rpl = "L1"
    /\ load * 100 < MshrLimit * Misses

\* One turn of the loop.  A prefetch to a lower level takes its place in the queue, too.
PrefetchDelta(s, tag, line, delta, cycle, load) ==
    LET to   == line + delta
        fill == FillsThisLevel(s.b, tag, delta, load)
        b    == IF fill /\ InShadow(s.b, to) = {} THEN LatencyAdd(s.b, to, tag, TRUE, cycle)
                ELSE s.b
    IN  IF LatencyGet(s.b, to) # 0 \/ to = 0 \/ Len(s.pq) >= PrefetchSlots THEN s
        ELSE [b |-> b, pq |-> Append(s.pq, [line |-> to, fill |-> fill])]

Prefetched(b, tag, line, ds) ==
    FoldLeft(LAMBDA s, d : PrefetchDelta(s, tag, line, d, now, Cardinality(DOMAIN mshr)),
             [b |-> b, pq |-> pq], ds)

NoLesson == [tag |-> 0, line |-> 0, deltas |-> {}, by |-> 0]

\* A miss is timed and remembered; the first hit of a prefetched line trains with the
\* latency of the prefetch.
Learned(b, tag, line, hit) ==
    LET f == CHOOSE f \in InShadow(b, line) : TRUE
        c == b.shadow[f]
        u == FindAndUpdate([b EXCEPT !.shadow[f].pf = FALSE], c.lat, tag, now % TimeMod, line)
    IN  IF ~hit
        THEN [outcomes |-> HistoryAdd(LatencyAdd(b, line, tag, FALSE, now), tag, line),
              lesson   |-> NoLesson]
        ELSE IF InShadow(b, line) = {}
        THEN [outcomes |-> {[b EXCEPT !.failed = TRUE]}, lesson |-> NoLesson]
        ELSE IF ~c.pf THEN [outcomes |-> {b}, lesson |-> NoLesson]
        ELSE [outcomes |-> UNION {HistoryAdd(x, tag, line) : x \in u.outcomes},
              lesson   |-> [tag |-> tag, line |-> line, deltas |-> u.deltas,
                            by |-> now - c.lat]]

Operate(tag, line, hit) ==
    \E l \in {Learned(berti, tag, line, hit)} : \E b \in l.outcomes :
    \E ds \in Launches(b, tag) : \E p \in {Prefetched(b, tag, line, ds)} :
        /\ berti' = p.b /\ pq' = p.pq /\ lesson' = l.lesson
        /\ seen' = seen \cup {[tag |-> tag, line |-> line, time |-> now]}

-----------------------------------------------------------------------------
(* prefetcher_cache_fill                                                   *)

\* The latency of what was in flight, as far as the clocks tell.
Measured(start) ==
    LET t == now % TimeMod
    IN  IF start # 0 /\ t > start /\ t - start < LatMod THEN t - start ELSE 0

CacheFill(frame, line, prefetch) ==
    LET known == line \in DOMAIN berti.latency
        tag   == IF known THEN berti.latency[line].tag ELSE 0
        begun == LatencyGet(berti, line)
        lat   == Measured(begun % TimeMod)
        b     == ShadowAdd(LatencyDel(berti, line), frame, line, prefetch, lat)
    IN  IF lat = 0 \/ prefetch THEN berti' = b /\ lesson' = NoLesson
        ELSE \E u \in {FindAndUpdate(b, lat, tag, begun % TimeMod, line)} :
                /\ berti' \in u.outcomes
                /\ lesson' = [tag |-> tag, line |-> line, deltas |-> u.deltas,
                              by |-> begun - (now - begun)]

-----------------------------------------------------------------------------
(* The cache, as far as it concerns Berti                                  *)

Cached(line) == \E f \in Frames : blocks[f] = line

\* handle_miss: joined to the miss in flight of its line, started, or kept waiting.
Missed(r, rest) ==
    LET prefetch == r.tag = 0
    IN  IF r.line \in DOMAIN mshr
        THEN mshr' = [mshr EXCEPT ![r.line] = @ /\ prefetch] /\ waiting' = rest
        ELSE IF Cardinality(DOMAIN mshr) < Misses
        THEN mshr' = With(mshr, r.line, prefetch) /\ waiting' = rest
        ELSE UNCHANGED mshr /\ waiting' = rest \cup {r}

Checked(r, rest) ==
    IF Cached(r.line) THEN UNCHANGED mshr /\ waiting' = rest ELSE Missed(r, rest)

\* Berti is told of every check of a demand, hit, miss or tried again.
Access(r, rest) ==
    /\ Operate(r.tag, r.line, Cached(r.line))
    /\ Checked(r, rest)
    /\ UNCHANGED <<now, blocks>>

Arrive ==
    /\ program # << >> /\ Cardinality(waiting) < Waiting
    /\ program' = Tail(program)
    /\ Access(Head(program), waiting)

Retry ==
    \E r \in waiting :
        \/ /\ r.tag # 0 /\ Access(r, waiting \ {r})
           /\ UNCHANGED program
        \/ /\ r.tag = 0 /\ Checked(r, waiting \ {r})
           /\ UNCHANGED <<berti, now, blocks, pq, program, seen, lesson>>

\* A prefetch to a lower level leaves nothing here.
StartPrefetch ==
    /\ pq # << >> /\ Cardinality(waiting) < Waiting
    /\ pq' = Tail(pq)
    /\ IF Head(pq).fill THEN Checked([line |-> Head(pq).line, tag |-> 0], waiting)
       ELSE UNCHANGED <<mshr, waiting>>
    /\ UNCHANGED <<berti, now, blocks, program, seen, lesson>>

FrameFilled ==
    \E line \in DOMAIN mshr : \E way \in 1 .. LineWays :
        LET frame == <<line % LineSets, way>>
        IN  /\ blocks' = [blocks EXCEPT ![frame] = line]
            /\ mshr' = Without(mshr, {line})
            /\ CacheFill(frame, line, mshr[line])
            /\ UNCHANGED <<now, waiting, pq, program, seen>>

\* Nothing stays in flight for as long as the clock takes to come around.
Tick ==
    /\ now < LastCycle
    /\ \A l \in DOMAIN berti.latency : now + 1 - berti.latency[l].time < TimeMod
    /\ now' = now + 1
    /\ UNCHANGED <<berti, blocks, mshr, waiting, pq, program, seen, lesson>>

BertiInit ==
    /\ berti = NewBerti
    /\ now = FirstCycle
    /\ blocks = [f \in Frames |-> 0]
    /\ mshr = << >> /\ waiting = {} /\ pq = << >>
    /\ program \in Programs /\ seen = {} /\ lesson = NoLesson

BertiNext == Arrive \/ Retry \/ StartPrefetch \/ FrameFilled \/ Tick

BertiSpec == BertiInit /\ [][BertiNext]_bertiVars

-----------------------------------------------------------------------------
(* What Berti promises                                                     *)

\* Berti learns a delta for an instruction only if that instruction had been at a
\* line so far away early enough: a prefetch started then, and taking as long as the
\* line did take, is there in time.  How far away is told from what the history keeps of
\* the two lines (ADDR_MASK): of lines further apart it learns deltas between others.
LearnsOnlyTimely ==
    \A d \in lesson.deltas :
        \E a \in seen :
            /\ a.tag = lesson.tag /\ a.time <= lesson.by
            /\ Kept(a.line) = Kept(lesson.line) - d

\* Every entry of the latency table belongs to a request that is still in the cache, and
\* the shadow cache holds the lines of the cache: so no assertion fails (there is room
\* for every miss, and a hit is in the shadow cache).
NothingLeaks ==
    /\ ~berti.failed
    /\ DOMAIN berti.latency \subseteq
          DOMAIN mshr \cup {r.line : r \in waiting} \cup {pq[k].line : k \in DOMAIN pq}
    /\ \A f \in Frames : berti.shadow[f].line = blocks[f]
=============================================================================
