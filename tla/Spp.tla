--------------------------------- MODULE Spp ---------------------------------
(***************************************************************************)
(* The signature path prefetcher (prefetcher/spp_dev).  The signature      *)
(* table keeps a compressed history of the strides in each page, the       *)
(* pattern table which stride followed a signature how often.  From the    *)
(* signature of a demand the prefetcher looks ahead along the most         *)
(* confident path; the filter keeps it from prefetching a line twice and   *)
(* counts the useful prefetches, and the global history register carries   *)
(* a path over to the next page.                                           *)
(*                                                                         *)
(* Addresses are numbers of lines.  The hash functions are remainders;     *)
(* whether the cache takes a prefetch changes nothing here.                *)
(***************************************************************************)
EXTENDS PredictorTables, SequencesExt

CONSTANTS
    PageLines, SppPages,
    StWays, PtSets, PtWays, GhrEntries, FilterSets, Remainders,
    SigShift, SigBits, SigDeltaBits,
    CSigMax, GlobalCounterMax,
    PfThreshold, FillThreshold,
    QueueSize,          \* MSHR_SIZE
    MaxDemands, MaxFills    \* bounds

ASSUME SppAssumption ==
    /\ {PageLines, StWays, PtSets, PtWays, GhrEntries, FilterSets, Remainders, SigShift,
        SigBits, SigDeltaBits, CSigMax, GlobalCounterMax, PfThreshold, FillThreshold,
        QueueSize} \subseteq Nat \ {0}
    /\ CSigMax % 2 = 1      \* all bits set
    /\ PtWays > 1 /\ SppPages \subseteq Nat \ {0} /\ {MaxDemands, MaxFills} \subseteq Nat

VARIABLES
    spp,
    begun       \* bound: demands and fills so far

sppVars == <<spp, begun>>

NoPattern == [sig |-> 0, way |-> [w \in 1 .. PtWays |-> [delta |-> 0, count |-> 0]]]

NewSpp ==
    [st     |-> [w \in 1 .. StWays |->
                    [valid |-> FALSE, page |-> 0, last |-> 0, sig |-> 0, lru |-> w - 1]],
     pt     |-> [s \in 0 .. PtSets - 1 |-> NoPattern],
     filter |-> [s \in 0 .. FilterSets - 1 |->
                    [valid |-> FALSE, useful |-> FALSE, tag |-> 0]],
     ghr    |-> [i \in 1 .. GhrEntries |->
                    [valid |-> FALSE, sig |-> 0, conf |-> 0, offset |-> 0, delta |-> 0]],
     issued |-> 0, useful |-> 0, failed |-> "no"]

FirstWhere(S) == Min(S)

\* The next signature; a negative delta is in sign and magnitude.
Extended(sig, delta) ==
    LET d == IF delta < 0 THEN -delta + 2 ^ (SigDeltaBits - 1) ELSE delta
    IN  ((sig * 2 ^ SigShift) ## d) % 2 ^ SigBits

-----------------------------------------------------------------------------
(* The global history register                                             *)

\* update_entry
GhrUpdated(g, sig, conf, offset, delta) ==
    LET e    == [valid |-> TRUE, sig |-> sig, conf |-> conf, offset |-> offset, delta |-> delta]
        same == {i \in 1 .. GhrEntries : g.ghr[i].valid /\ g.ghr[i].offset = offset}
        low  == {i \in 1 .. GhrEntries :
                    /\ g.ghr[i].conf < 100
                    /\ \A j \in 1 .. GhrEntries : g.ghr[i].conf <= g.ghr[j].conf}
    IN  IF same # {} THEN [g EXCEPT !.ghr[FirstWhere(same)] = e]
        ELSE IF low # {} THEN [g EXCEPT !.ghr[FirstWhere(low)] = e]
        ELSE [g EXCEPT !.failed = "no victim in the GHR"]

\* check_entry: the most confident path that was to come to this offset
GhrFound(g, offset) ==
    LET S == {i \in 1 .. GhrEntries : g.ghr[i].offset = offset /\ g.ghr[i].conf > 0}
    IN  {i \in S : \A j \in S : \/ g.ghr[j].conf < g.ghr[i].conf
                                \/ g.ghr[j].conf = g.ghr[i].conf /\ i <= j}

-----------------------------------------------------------------------------
(* The signature table                                                     *)

\* Mutated form of Promoted: the entries above are not moved down.
PromotedAlone(st, w) == [st EXCEPT ![w].lru = 0]

Promoted(st, w) ==
    [v \in 1 .. StWays |->
        [st[v] EXCEPT !.lru = IF v = w THEN 0 ELSE IF @ < st[w].lru THEN @ + 1 ELSE @]]

Claimed(st, w, page, offset, sig) ==
    [st EXCEPT ![w].valid = TRUE, ![w].page = page, ![w].last = offset, ![w].sig = sig]

\* The way of a page: its own, the first invalid one or the least recently used.
WayFor(st, page) ==
    LET own     == {w \in 1 .. StWays : st[w].valid /\ st[w].page = page}
        invalid == {w \in 1 .. StWays : ~st[w].valid}
        oldest  == {w \in 1 .. StWays : st[w].lru = StWays - 1}
    IN  IF own # {} THEN FirstWhere(own)
        ELSE IF invalid # {} THEN FirstWhere(invalid) ELSE FirstWhere(oldest)

\* read_and_update_sig; last 0 means there is nothing to learn.  A demand of the same
\* line again has signature 0 for its prefetches.
ReadAndUpdateSig(g, page, offset) ==
    LET w     == WayFor(g.st, page)
        e     == g.st[w]
        hit   == e.valid /\ e.page = page
        delta == offset - e.last
        from  == GhrFound(g, offset)
        first == IF from = {} THEN 0
                 ELSE LET i == CHOOSE i \in from : TRUE
                      IN  Extended(g.ghr[i].sig, g.ghr[i].delta)
        sig   == IF ~hit THEN first ELSE IF delta = 0 THEN e.sig ELSE Extended(e.sig, delta)
    IN  [g     |-> [g EXCEPT !.st = Promoted(Claimed(@, w, page, offset, sig), w)],
         last  |-> IF hit /\ delta # 0 THEN e.sig ELSE 0,
         curr  |-> IF hit /\ delta = 0 THEN 0 ELSE sig,
         delta |-> delta]

-----------------------------------------------------------------------------
(* The pattern table                                                       *)

Halved(p) == [sig |-> p.sig \div 2, way |-> [w \in 1 .. PtWays |->
                                               [p.way[w] EXCEPT !.count = @ \div 2]]]

Aged(p) == IF p.sig > CSigMax THEN Halved(p) ELSE p

VictimWay(p) ==
    FirstWhere({w \in 1 .. PtWays : \A v \in 1 .. PtWays : p.way[w].count <= p.way[v].count})

\* Mutated form of PatternUpdated: a new stride does not count for the signature.
PatternUpdatedFew(p, delta) ==
    LET same == {w \in 1 .. PtWays : p.way[w].delta = delta}
    IN  IF same # {}
        THEN Aged([p EXCEPT !.way[FirstWhere(same)].count = @ + 1, !.sig = @ + 1])
        ELSE [p EXCEPT !.way[VictimWay(p)] = [delta |-> delta, count |-> 0]]

\* update_pattern
PatternUpdated(p, delta) ==
    LET same == {w \in 1 .. PtWays : p.way[w].delta = delta}
    IN  IF same # {}
        THEN Aged([p EXCEPT !.way[FirstWhere(same)].count = @ + 1, !.sig = @ + 1])
        ELSE Aged([p EXCEPT !.way[VictimWay(p)] = [delta |-> delta, count |-> 0],
                            !.sig = @ + 1])

\* The confidence in a way, along a path of some depth
Confidence(p, w, accuracy, look, depth) ==
    IF depth = 0 THEN (100 * p.way[w].count) \div p.sig
    ELSE (((accuracy * p.way[w].count) \div p.sig) * look) \div 100

\* read_pattern: the confident ways, and a gap that keeps what is in its place, go to
\* the queue; the first most confident one is the path.
ReadPattern(s, accuracy) ==
    LET p     == s.g.pt[s.sig % PtSets]
        C(w)  == Confidence(p, w, accuracy, s.look, s.depth)
        ways  == {w \in 1 .. PtWays : C(w) >= PfThreshold}
        best  == Max({0} \cup {C(w) : w \in ways})
        added == FoldLeft(LAMBDA q, w : IF w \in ways
                                        THEN Append(q, [delta |-> p.way[w].delta, conf |-> C(w)])
                                        ELSE q,
                          s.queue, [w \in 1 .. PtWays |-> w])
        gap   == [delta |-> 0, conf |-> IF added = << >> THEN 100 ELSE 0]
    IN  IF p.sig = 0 THEN [s EXCEPT !.way = 0]
        ELSE [s EXCEPT !.queue = Append(added, gap), !.look = best,
                       !.depth = IF best >= PfThreshold THEN @ + 1 ELSE @,
                       !.way = IF ways = {} THEN 0 ELSE FirstWhere({w \in ways : C(w) = best})]

-----------------------------------------------------------------------------
(* The filter                                                              *)

FilterSet(line) == line % FilterSets
Remainder(line) == (line \div FilterSets) % Remainders

InFilter(g, line) ==
    LET f == g.filter[FilterSet(line)]
    IN  (f.valid \/ f.useful) /\ f.tag = Remainder(line)

\* L2C_DEMAND
Demanded(g, line) ==
    LET f == g.filter[FilterSet(line)]
    IN  IF f.tag = Remainder(line) /\ ~f.useful
        THEN [g EXCEPT !.filter[FilterSet(line)].useful = TRUE,
                       !.useful = IF f.valid THEN @ + 1 ELSE @]
        ELSE g

Issued(g) ==
    IF g.issued + 1 > GlobalCounterMax
    THEN [g EXCEPT !.issued = (@ + 1) \div 2, !.useful = @ \div 2]
    ELSE [g EXCEPT !.issued = @ + 1]

\* SPP_L2C_PREFETCH and SPP_LLC_PREFETCH: only the former is remembered and counted.
FilteredPrefetch(g, line, conf) ==
    IF InFilter(g, line) \/ conf < FillThreshold THEN g
    ELSE Issued([g EXCEPT !.filter[FilterSet(line)] =
                    [valid |-> TRUE, useful |-> FALSE, tag |-> Remainder(line)]])

\* L2C_EVICT
Evicted(g, line) ==
    LET f == g.filter[FilterSet(line)]
    IN  [g EXCEPT !.filter[FilterSet(line)] = [valid |-> FALSE, useful |-> FALSE, tag |-> 0],
                  !.useful = IF f.valid /\ ~f.useful /\ @ > 0 THEN @ - 1 ELSE @]

-----------------------------------------------------------------------------
(* prefetcher_cache_operate                                                *)

PageOf(line) == line \div PageLines

\* One prefetch of the queue, from the base of its turn; beyond the page it is left to
\* the global history register.
Prefetch(s, line, e) ==
    LET to == s.base + e.delta
        g  == IF PageOf(to) = PageOf(line) THEN FilteredPrefetch(s.g, to, e.conf)
              ELSE GhrUpdated(s.g, s.sig, e.conf, to % PageLines, e.delta)
    IN  IF e.conf < PfThreshold THEN s
        ELSE [s EXCEPT !.g = g, !.head = @ + 1, !.again = TRUE]

\* The path goes on with the delta of the most confident way.
Followed(s) ==
    LET d == s.g.pt[s.sig % PtSets].way[s.way].delta
    IN  IF s.way = 0 THEN s ELSE [s EXCEPT !.base = @ + d, !.sig = Extended(@, d)]

\* One turn of the loop.  The head skips no gap, so that a later turn may start with
\* candidates of an earlier one.  The queue has as many places as the cache has
\* MSHRs, and is not checked.
LookaheadTurn(s, line, accuracy) ==
    LET r == ReadPattern(s, accuracy)
        p == FoldLeft(LAMBDA x, e : Prefetch(x, line, e), [r EXCEPT !.again = FALSE],
                      SubSeq(r.queue, r.head, Len(r.queue)))
    IN  IF Len(r.queue) > QueueSize
        THEN [r EXCEPT !.g.failed = "the queue overflows", !.again = FALSE]
        ELSE Followed(p)

Lookahead(g, line, sig, accuracy) ==
    FoldLeft(LAMBDA s, k : IF s.again THEN LookaheadTurn(s, line, accuracy) ELSE s,
             [g |-> g, sig |-> sig, base |-> line, look |-> 100, depth |-> 0, way |-> 0,
              queue |-> << >>, head |-> 1, again |-> TRUE],
             [k \in 1 .. QueueSize + 2 |-> k]).g

Learnt(g, r) ==
    IF r.last = 0 THEN g ELSE [g EXCEPT !.pt[r.last % PtSets] = PatternUpdated(@, r.delta)]

\* The accuracy is that from before the demand.
Accuracy(g) == IF g.issued = 0 THEN 0 ELSE (100 * g.useful) \div g.issued

Demand(page, offset) ==
    LET line == page * PageLines + offset IN
    /\ spp.failed = "no" /\ begun.demands < MaxDemands
    /\ begun' = [begun EXCEPT !.demands = @ + 1]
    /\ \E accuracy \in {Accuracy(spp)} :
       \E r \in {ReadAndUpdateSig(spp, page, offset)} :
       \E g \in {Learnt(Demanded(r.g, line), r)} :
          spp' = Lookahead(g, line, r.curr, accuracy)

\* prefetcher_cache_fill; a fill of an empty way evicts line 0.
Fill(line) ==
    /\ spp.failed = "no" /\ begun.fills < MaxFills
    /\ begun' = [begun EXCEPT !.fills = @ + 1]
    /\ spp' = Evicted(spp, line)

SppInit == spp = NewSpp /\ begun = [demands |-> 0, fills |-> 0]

SppNext ==
    \/ \E page \in SppPages, offset \in 0 .. PageLines - 1 : Demand(page, offset)
    \/ \E line \in {0} \cup {p * PageLines + o : p \in SppPages, o \in 0 .. PageLines - 1} :
          Fill(line)

SppSpec == SppInit /\ [][SppNext]_sppVars

-----------------------------------------------------------------------------
SumOf(p) == FoldLeft(LAMBDA n, c : n + c, 0, [w \in 1 .. PtWays |-> p.way[w].count])

\* The strides that followed a signature are counted fewer times than the signature, also
\* when the counters are halved, each rounded down: so no stride alone is certain, and
\* there is always a stride with a count below the maximum to replace, as the assertion
\* in update_pattern says.
PatternCountersAgree ==
    \A s \in DOMAIN spp.pt :
        LET p == spp.pt[s] IN p.sig <= CSigMax /\ (p.sig > 0 => SumOf(p) < p.sig)

\* The ages of the signature table are a permutation, so that a victim is always found,
\* and a page has one entry.
SignatureTableSound ==
    /\ {spp.st[w].lru : w \in 1 .. StWays} = 0 .. StWays - 1
    /\ \A v, w \in 1 .. StWays : spp.st[v].valid /\ spp.st[w].valid /\ v # w =>
          spp.st[v].page # spp.st[w].page
=============================================================================
