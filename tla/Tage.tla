-------------------------------- MODULE Tage --------------------------------
(***************************************************************************)
(* TAGE (tage.hpp): a bimodal table and tables of tagged entries that are  *)
(* looked up with folded histories of growing length.  A prediction is     *)
(* made by the longest match or its alternate and trained later at the     *)
(* places it was read from; a mispredicted branch gets entries in tables   *)
(* with longer histories.                                                  *)
(*                                                                         *)
(* AheadDistance is 0 in the plain predictor and the number of branches    *)
(* between prediction and use in the multi-block-ahead one (where the      *)
(* prediction was made for another branch: AheadPredictor).  The random    *)
(* numbers are any.  Statistics are left out.                              *)
(***************************************************************************)
EXTENDS TageHistory

CONSTANTS
    TagBits,                    \* of each history
    FirstLong, First2Way, Last2Way,
    LogEntries, ShortBanks, LongBanks,
    PathWidth, CtrWidth, UsefulBits,
    ExtraEntries, TicksUntilShift,
    AltSelectorLog, AltSelectorWidth,
    BimodalLog, HysteresisShift,
    AheadDistance,
    Pcs,
    MaxFree                     \* bound on the branches that may do anything

ASSUME TageAssumption ==
    /\ TagBits \in [DOMAIN HistorySizes -> {n \in Nat : n > 1}]
    /\ \A j \in DOMAIN HistorySizes :
        FoldWidths[j] = {LogEntries, TagBits[j], TagBits[j] - 1}
    /\ {LogEntries, ShortBanks, LongBanks, PathWidth, UsefulBits, AltSelectorLog,
        AltSelectorWidth, BimodalLog, TicksUntilShift} \subseteq Nat \ {0}
    /\ {ExtraEntries, HysteresisShift, AheadDistance, MaxFree} \subseteq Nat
    /\ CtrWidth > 2 /\ Pcs \subseteq Nat

VARIABLES
    tage,
    ahead,      \* the predictions that were made and not used yet, oldest first
    last,       \* history: the last branch, what was predicted and allocated
    free        \* how many branches may still do anything, and then the only one

tageVars == <<historyVars, tage, ahead, last, free>>

NumTables == 2 * Len(HistorySizes)

\* Tage_Tables_Enabled
EnabledTables ==
    {i \in 1 .. NumTables : i % 2 = 0 \/ i \in First2Way .. Last2Way}
        \ {4, NumTables - 2, 8, NumTables - 6}

EntriesPerBank == 2 ^ LogEntries

\* low_history_tagged_table_ and high_history_tagged_table_
Places ==
    {<<FALSE, k>> : k \in 0 .. ShortBanks * EntriesPerBank - 1}
        \cup {<<TRUE, k>> : k \in 0 .. LongBanks * EntriesPerBank - 1}

\* Mutated form of CtrUpdated: the counter wraps around.
CtrUpdatedWrapping(c, up) ==
    ((c + 2 ^ (CtrWidth - 1) + (IF up THEN 1 ELSE 2 ^ CtrWidth - 1)) % 2 ^ CtrWidth)
        - 2 ^ (CtrWidth - 1)

CtrUpdated(c, up) == SignedUpdated(c, up, CtrWidth)

NewTage ==
    [bimodal |-> [k \in 0 .. 2 ^ BimodalLog - 1 |-> [hysteresis |-> 1, prediction |-> 0]],
     entries |-> [p \in Places |-> [ctr |-> 0, useful |-> 0, tag |-> 0]],
     altSelector |-> [k \in 0 .. 2 ^ AltSelectorLog - 1 |-> 0],
     tick |-> 0, path |-> 0]

-----------------------------------------------------------------------------
(* Indices and tags                                                        *)

FoldValue(j, w) ==
    FoldSet(LAMBDA k, n : n + IF hist.folded[<<j, w>>][k] THEN 2 ^ k ELSE 0, 0, 0 .. w - 1)

\* compute_path_hash
RotatedPath(x, bank) ==
    IF bank >= LogEntries THEN x
    ELSE ((x * 2 ^ bank) % EntriesPerBank) + x \div 2 ^ (LogEntries - bank)

PathHash(path, width, bank) ==
    LET p == path % 2 ^ width
    IN  RotatedPath((p % EntriesPerBank) ## RotatedPath(p \div EntriesPerBank, bank), bank)

HistoryOf(i) == (i + 1) \div 2

TagOf(pc, i) ==
    LET j == HistoryOf(i)
    IN  (pc ## FoldValue(j, TagBits[j]) ## (2 * FoldValue(j, TagBits[j] - 1)))
            % 2 ^ TagBits[j]

\* The two tables of a history have the same tag; the second mixes it in again.
EntryOf(path, pc, i) ==
    LET j     == HistoryOf(i)
        odd   == 2 * j - 1
        width == Min({HistorySizes[j], PathWidth})
        away  == IF odd > LogEntries THEN odd - LogEntries ELSE LogEntries - odd
        index == (pc ## (pc \div 2 ^ (away + 1)) ## FoldValue(j, LogEntries)
                      ## PathHash(path, width, odd)) % EntriesPerBank
    IN  IF i = odd THEN index ELSE index ## (TagOf(pc, i) % EntriesPerBank)

\* The enabled tables of a kind take its banks in turn, from one that depends on the
\* branch.
BankOf(path, pc, i) ==
    LET long  == i >= FirstLong
        banks == IF long THEN LongBanks ELSE ShortBanks
        j     == IF long THEN HistoryOf(FirstLong) ELSE 1
        nth   == Cardinality({t \in EnabledTables : t < i /\ ((t >= FirstLong) <=> long)})
    IN  (((pc ## (path % 2 ^ HistorySizes[j])) % banks) + nth) % banks

\* fill_table_indices_tags
PlacesOf(path, pc) ==
    Each(EnabledTables, LAMBDA i :
        <<i >= FirstLong, EntryOf(path, pc, i) + BankOf(path, pc, i) * EntriesPerBank>>)

-----------------------------------------------------------------------------
(* Prediction                                                              *)

BimodalIndex(pc) == (pc ## (pc \div 4)) % 2 ^ BimodalLog

BimodalValue(t, pc) ==
    2 * t.bimodal[BimodalIndex(pc)].prediction
        + t.bimodal[BimodalIndex(pc) \div 2 ^ HysteresisShift].hysteresis

BimodalUpdated(t, pc, dir) ==
    LET k == BimodalIndex(pc)
        v == Saturated(BimodalValue(t, pc), dir, 0, 3)
    IN  [t EXCEPT !.bimodal[k].prediction = v \div 2,
                  !.bimodal[k \div 2 ^ HysteresisShift].hysteresis = v % 2]

AltSelectorIndex(hit, altConfidence) ==
    (2 * ((hit - 1) \div 8) + IF altConfidence THEN 1 ELSE 0) % (2 ^ AltSelectorLog - 1)

\* What is predicted when the tables of found are the ones that match; 0 is no table.
Answer(t, pc, places, tags, found) ==
    LET match   == found \cup {0}
        hit     == Max(match)
        altBank == IF hit = 0 THEN 0 ELSE Max(match \ {hit})
        bimodal == BimodalValue(t, pc)
        base    == t.bimodal[BimodalIndex(pc)].prediction > 0
        ctr     == t.entries[places[hit]].ctr
        altCtr  == t.entries[places[altBank]].ctr
        alt     == IF altBank = 0 THEN base ELSE altCtr >= 0
        altConf == IF altBank = 0 THEN bimodal \in {0, 3} ELSE Strength(altCtr) > 1
        longest == IF hit = 0 THEN base ELSE ctr >= 0
        useAlt  == t.altSelector[AltSelectorIndex(hit, altConf)] >= 0
    IN  [pc |-> pc, places |-> places, tags |-> tags, hit |-> hit, altBank |-> altBank,
         longest |-> longest, alt |-> alt, altConfidence |-> altConf,
         prediction |-> IF hit # 0 /\ (~useAlt \/ Strength(ctr) > 1)
                        THEN longest ELSE alt]

TagsOf(pc) == Each(EnabledTables, LAMBDA i : TagOf(pc, i))

\* get_prediction
Prediction(t, pc) ==
    LET places == PlacesOf(t.path, pc)
        tags   == TagsOf(pc)
    IN  Answer(t, pc, places, tags,
               {i \in EnabledTables : t.entries[places[i]].tag = tags[i]})

-----------------------------------------------------------------------------
(* Training                                                                *)

\* Mutated form of FirstBank: one table too short.
FirstBankShort(hit, draw) ==
    LET even == ((hit - 2 + 2 * (IF draw.two THEN 2 ELSE 1)) \div 2) * 2
    IN  even + draw.odd

\* Where allocation starts: the tables above the hit, or further; the last bit is random.
FirstBank(hit, draw) ==
    LET even == ((hit - 1 + 2 * (IF draw.two THEN 2 ELSE 1)) \div 2) * 2
    IN  even + draw.odd

\* One table is tried: an entry in no use is taken over if it is weak, and weakened
\* if it is not; one in use costs a tick.
Tried(s, info, dir, i) ==
    LET p == info.places[i]
        e == s.t.entries[p]
    IN  IF i \notin EnabledTables THEN [s EXCEPT !.got = FALSE]
        ELSE IF e.useful # 0 THEN [s EXCEPT !.got = FALSE, !.penalty = @ + 1]
        ELSE IF Strength(e.ctr) <= 3
        THEN [s EXCEPT !.t.entries[p] = [e EXCEPT !.tag = info.tags[i],
                                                  !.ctr = IF dir THEN 0 ELSE -1],
                       !.got = TRUE, !.taken = Append(@, i),
                       !.stop = s.extra <= 0, !.extra = @ - 1]
        ELSE [s EXCEPT !.got = FALSE, !.t.entries[p].ctr = IF @ > 0 THEN @ - 1 ELSE @ + 1]

\* One turn of the loop: a table and, if it gave nothing, its neighbour.  A turn that
\* took an entry leaves the next pair out.
AllocationTurn(s, info, dir) ==
    LET first  == Tried(s, info, dir, s.bank + 1)
        second == IF first.got THEN first ELSE Tried(first, info, dir, (s.bank ## 1) + 1)
    IN  [second EXCEPT !.bank = @ + IF second.got THEN 4 ELSE 2]

Allocation(t, info, dir, draw) ==
    FoldLeft(LAMBDA s, k : IF s.stop \/ s.bank >= NumTables THEN s
                           ELSE AllocationTurn(s, info, dir),
             [t |-> t, bank |-> FirstBank(info.hit, draw), got |-> FALSE, stop |-> FALSE,
              extra |-> ExtraEntries, penalty |-> 0, taken |-> << >>],
             HistorySizes)

\* The ticks, and what they are for
Ticked(s) ==
    LET tick == Max({0, s.t.tick + s.penalty - 2 * Len(s.taken)})
    IN  IF tick >= TicksUntilShift
        THEN [s.t EXCEPT !.tick = 0, !.entries = [p \in Places |->
                            [@[p] EXCEPT !.useful = @ \div 2]]]
        ELSE [s.t EXCEPT !.tick = tick]

WeakHit(t, info) == info.hit > 0 /\ Strength(t.entries[info.places[info.hit]].ctr) = 1

\* Whether a branch gets new entries: it was mispredicted, and a weak longest match was
\* not right.  The draw for a branch that was predicted right in the end never comes:
\* all callers give the prediction of TAGE itself as the final one.
Allocates(t, info, dir) ==
    /\ info.prediction # dir
    /\ info.hit < NumTables
    /\ ~(WeakHit(t, info) /\ info.longest = dir)

SelectorTrained(t, info, dir) ==
    IF WeakHit(t, info) /\ info.longest # info.alt
    THEN [t EXCEPT !.altSelector[AltSelectorIndex(info.hit, info.altConfidence)] =
            SignedUpdated(@, info.alt = dir, AltSelectorWidth)]
    ELSE t

AlternateTrained(t, info, dir) ==
    IF info.altBank > 0
    THEN [t EXCEPT !.entries[info.places[info.altBank]].ctr = CtrUpdated(@, dir)]
    ELSE BimodalUpdated(t, info.pc, dir)

CountersTrained(t, info, dir) ==
    IF info.hit = 0 THEN BimodalUpdated(t, info.pc, dir)
    ELSE LET p == info.places[info.hit]
             a == IF WeakHit(t, info) /\ info.longest # dir
                  THEN AlternateTrained(t, info, dir) ELSE t
             b == [a EXCEPT !.entries[p].ctr = CtrUpdated(@, dir)]
             e == b.entries[p]
             useless ==
                \/ Strength(e.ctr) = 1
                \/ /\ info.alt = dir /\ info.longest = dir /\ info.altBank > 0
                   /\ Strength(b.entries[info.places[info.altBank]].ctr) = 7
                   /\ e.useful = 1
         IN  IF useless THEN [b EXCEPT !.entries[p].useful = 0] ELSE b

\* A longest match is useful when its alternate was wrong and it was right.
UsefulTrained(t, info, dir) ==
    IF info.longest # info.alt /\ info.longest = dir
    THEN [t EXCEPT !.entries[info.places[info.hit]].useful =
            Saturated(@, TRUE, 0, 2 ^ UsefulBits - 1)]
    ELSE t

\* What every commit ends with: the counters, then the useful bit.
TablesTrained(t, info, dir) == UsefulTrained(CountersTrained(t, info, dir), info, dir)

\* commit_state
Committed(t, info, dir, draw) ==
    LET go == Allocates(t, info, dir)
        s  == SelectorTrained(t, info, dir)
        a  == IF go THEN Allocation(s, info, dir, draw) ELSE [t |-> s, taken |-> << >>]
        k  == IF go THEN Ticked(a) ELSE s
    IN  [t     |-> TablesTrained(k, info, dir),
         taken |-> a.taken]

-----------------------------------------------------------------------------
(* Branches                                                                *)

BranchTypes == [conditional : BOOLEAN, indirect : BOOLEAN]

NumBits(type) == IF type.indirect /\ ~type.conditional THEN 3 ELSE 2

BitAt(n, k) == (n \div 2 ^ (k - 1)) % 2 = 1

\* push_into_history.  The target is mixed in for a taken branch that is both
\* conditional and indirect (BRANCH_OTHER).
HashedDirection(pc, type, dir, target) ==
    pc ## (pc \div 4) ## Bit01(dir)
        ## (IF type.indirect /\ type.conditional /\ dir THEN target \div 4 ELSE 0)

HashedPath(pc, type, dir, target) ==
    LET mixed == IF type.indirect /\ type.conditional /\ dir THEN target ELSE 0
    IN  pc ## (pc \div 4) ## (pc \div 16) ## (mixed \div 4) ## (mixed \div 16)

PathPushed(path, pc, type, dir, target) ==
    LET h == HashedPath(pc, type, dir, target)
    IN  FoldLeft(LAMBDA p, k : (2 * p) ## ((h \div 2 ^ (k - 1)) % 128), path,
                 [k \in 1 .. NumBits(type) |-> k]) % 2 ^ PathWidth

HistoryPushed(pc, type, dir, target) ==
    LET h == HashedDirection(pc, type, dir, target)
    IN  Retired(PushedAll(hist, [k \in 1 .. NumBits(type) |-> BitAt(h, k)]), NumBits(type))

\* get_prediction, update_speculative_state, commit_state and commit_state_at_retire of
\* one branch; the prediction that is used and trained is the oldest.
Branch(pc, type, dir, target, draw) ==
    LET queue == Append(ahead, Prediction(tage, pc))
        info  == Head(queue)
        used  == Len(queue) > AheadDistance
        path  == [tage EXCEPT !.path = PathPushed(@, pc, type, dir, target)]
        final == used /\ info.prediction
        c     == Committed(path, info, dir, draw)
    IN  /\ ahead' = IF used THEN Tail(queue) ELSE queue
        /\ hist' = HistoryPushed(pc, type, dir, target)
        /\ UNCHANGED inflight
        /\ IF used /\ type.conditional
           THEN /\ tage' = c.t
                /\ last' = [pc |-> pc, dir |-> dir, final |-> final,
                            hit |-> info.hit, taken |-> c.taken]
           ELSE /\ tage' = path
                /\ last' = [pc |-> pc, dir |-> dir, final |-> dir,
                            hit |-> 0, taken |-> << >>]

\* How far above the hit allocation starts; drawn only where entries are taken.
Draws == [two : BOOLEAN, odd : {0, 1}]

DrawsFor(type) == IF type.conditional THEN Draws ELSE {[two |-> FALSE, odd |-> 0]}

Free ==
    /\ free.left > 0 /\ free.settled = << >>
    /\ free' = [free EXCEPT !.left = @ - 1]
    /\ \E pc \in Pcs, type \in BranchTypes, dir \in BOOLEAN :
        \E draw \in DrawsFor(type) : Branch(pc, type, dir, pc, draw)

\* From some time on there is one branch, and it always goes the same way.
Settle ==
    /\ free.settled = << >>
    /\ \E pc \in Pcs, dir \in BOOLEAN : free' = [left |-> 0, settled |-> <<pc, dir>>, beat |-> FALSE]
    /\ UNCHANGED <<historyVars, tage, ahead, last>>

Again ==
    /\ free.settled # << >>
    /\ free' = [free EXCEPT !.beat = ~@]
    /\ \E draw \in Draws :
        LET pc == free.settled[1]
            dir == free.settled[2]
        IN  Branch(pc, [conditional |-> TRUE, indirect |-> FALSE], dir, pc, draw)

TageInit ==
    /\ HistoryInit
    /\ tage = NewTage
    /\ ahead = << >>
    /\ last = [pc |-> 0, dir |-> FALSE, final |-> FALSE, hit |-> 0, taken |-> << >>]
    /\ free = [left |-> MaxFree, settled |-> << >>, beat |-> FALSE]

TageNext == Free \/ Settle \/ Again

\* The branch is executed again and again (each time is a beat).
TageSpec == TageInit /\ [][TageNext]_tageVars /\ []<>free.beat /\ []<>~free.beat

-----------------------------------------------------------------------------
(* What TAGE promises                                                      *)

\* A mispredicted branch gets at most one entry and the extra ones, each in a table
\* of a longer history than the one that was wrong, and not in neighbouring
\* histories; a branch that was predicted by the longest table gets none.
AllocatesLonger ==
    LET q == last.taken
    IN  /\ Len(q) <= 1 + ExtraEntries
        /\ \A k \in DOMAIN q : q[k] \in EnabledTables /\ HistoryOf(q[k]) > HistoryOf(last.hit)
        /\ \A k \in 1 .. Len(q) - 1 : HistoryOf(q[k + 1]) > HistoryOf(q[k]) + 1

\* Whatever the tables have come to hold, a branch that always goes the same way is
\* predicted right from some time on.
LearnsConstant == <>[](last.final = last.dir)
=============================================================================
