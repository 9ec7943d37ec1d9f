------------------------------- MODULE TageScl -------------------------------
(***************************************************************************)
(* TAGE-SC-L (tagescl.hpp, tagescl.cc): the loop predictor may overrule    *)
(* TAGE, and the statistical corrector both.  With distance 0 it is the    *)
(* predictor of branch/tagescl; with distance 1 that of                    *)
(* branch/multi_block_ahead_tagescl, where the prediction made with a      *)
(* branch is the next one's, and all three are trained with the address    *)
(* that made it.                                                           *)
(*                                                                         *)
(* TAGE is a module of its own (Tage): its answers are any of TageAnswers. *)
(*                                                                         *)
(* The loop predictor (loop_predictor.hpp) is a table of four banks whose  *)
(* entries count the iterations of a loop, once where branches are         *)
(* predicted (spec) and once where they are committed (current), and       *)
(* predict its exit when the count was the same often enough.  Recovery of *)
(* the speculative counts is left out: nothing in the simulator calls it.  *)
(***************************************************************************)
EXTENDS StatisticalCorrector

CONSTANTS
    LoopLogEntries, LoopTagBits, IterationWidth,
    LoopConfidence,         \* CONFIDENCE_THRESHOLD
    SureIterations,         \* confidence times iterations that is enough (128)
    NewLoopAge,             \* the age of a new entry (7)
    Distances,              \* MULTI_BLOCK_AHEAD_DISTANCE
    TageAnswers,            \* what TAGE may say
    SclPcs,
    TripCounts,             \* of the loop the program may come to stay in
    MaxFreeBranches         \* bound on the branches that may do anything

ASSUME LoopAssumption ==
    /\ LoopLogEntries > 1
    /\ {LoopLogEntries, LoopTagBits, IterationWidth, LoopConfidence} \subseteq Nat \ {0}
    /\ {SureIterations, NewLoopAge} \subseteq Nat

ASSUME SclAssumption ==
    /\ Distances \subseteq {0, 1} /\ SclPcs \subseteq Nat
    /\ TripCounts \subseteq Nat \ {0, 1} /\ MaxFreeBranches \in Nat

VARIABLES
    distance,
    loop, sc,
    beneficial,     \* loop_predictor_beneficial_
    made,           \* predictions that were made and not used yet, oldest first
    lastScl,        \* history: the last branch
    program         \* how many branches may do anything, and then the loop

sclVars == <<distance, loop, sc, beneficial, made, lastScl, program>>

-----------------------------------------------------------------------------
\* The loop predictor: operators over its table.
LoopEntries == 0 .. 2 ^ LoopLogEntries - 1

NewLoopTable ==
    [k \in LoopEntries |-> [total |-> 0, tag |-> 0, confidence |-> 0, age |-> 0,
                            dir |-> FALSE, spec |-> 0, current |-> 0]]

LoopCounted(n) == IF n < 2 ^ IterationWidth - 1 THEN n + 1 ELSE n

\* get_indices: the entry of each bank
LoopIndex(pc, bank) ==
    LET rows == 2 ^ (LoopLogEntries - 2)
    IN  ((4 * ((pc ## (pc \div 4)) % rows)) ## (4 * (((pc \div rows) % rows) \div 2 ^ bank)))
            + bank

\* get_tag
LoopTag(pc) ==
    LET t == (pc \div 2 ^ (LoopLogEntries - 2)) % 2 ^ (2 * LoopTagBits)
    IN  (t ## (t \div 2 ^ LoopTagBits)) % 2 ^ LoopTagBits

\* Mutated form of LoopExitNext: the exit is predicted an iteration late.
LoopExitNow(e) == e.total > 0 /\ e.spec = e.total

LoopExitNext(e) == e.spec + 1 = e.total

\* get_prediction; bank -1 is a miss.
LoopPrediction(table, pc) ==
    LET hits == {b \in 0 .. 3 : table[LoopIndex(pc, b)].tag = LoopTag(pc)}
        bank == CHOOSE b \in hits : \A c \in hits : b <= c
        e    == table[LoopIndex(pc, bank)]
    IN  IF hits = {}
        THEN [pc |-> pc, bank |-> -1, valid |-> FALSE, prediction |-> FALSE]
        ELSE [pc |-> pc, bank |-> bank,
              valid |-> \/ e.confidence = LoopConfidence
                        \/ e.confidence * e.total > SureIterations,
              prediction |-> IF LoopExitNext(e) THEN ~e.dir ELSE e.dir]

\* update_speculative_state
LoopAdvanced(table, info) ==
    LET k == LoopIndex(info.pc, info.bank)
        n == LoopCounted(table[k].spec)
    IN  IF info.bank < 0 \/ table[k].total = 0 THEN table
        ELSE [table EXCEPT ![k].spec = IF n >= table[k].total THEN 0 ELSE n]

LoopFreed(e) ==
    [e EXCEPT !.total = 0, !.confidence = 0, !.age = 0, !.current = 0, !.spec = 0]

\* Mutated form of LoopExited: a new count leaves the other one running.
LoopExitedRunning(e, dir) ==
    IF e.current = e.total
    THEN [e EXCEPT !.confidence = IF @ < LoopConfidence THEN @ + 1 ELSE @, !.current = 0]
    ELSE IF e.total = 0
    THEN [e EXCEPT !.confidence = 0, !.total = e.current, !.current = 0]
    ELSE [e EXCEPT !.total = 0, !.confidence = 0, !.current = 0]

\* A branch left the direction of its loop: the count is confirmed, learnt or given up,
\* and a loop of one or two iterations is not worth an entry.
LoopExited(e, dir) ==
    IF e.current = e.total
    THEN LET c == IF e.confidence < LoopConfidence THEN e.confidence + 1 ELSE e.confidence
         IN  IF e.total < 3
             THEN [LoopFreed(e) EXCEPT !.dir = dir, !.confidence = c]
             ELSE [e EXCEPT !.confidence = c, !.current = 0]
    ELSE IF e.total = 0
    THEN [e EXCEPT !.confidence = 0, !.total = e.current, !.spec = 0, !.current = 0]
    ELSE [e EXCEPT !.total = 0, !.confidence = 0, !.current = 0]

\* commit_state of an entry that was hit
LoopConfirmed(e, dir, info, mispredicted, other) ==
    LET aged    == IF info.valid /\ other /\ e.age < LoopConfidence
                   THEN [e EXCEPT !.age = @ + 1] ELSE e
        counted == [aged EXCEPT !.current = LoopCounted(@)]
        again   == IF counted.current > counted.total
                   THEN [counted EXCEPT !.total = 0, !.confidence = 0] ELSE counted
        left    == IF dir # again.dir THEN LoopExited(again, dir) ELSE again
    IN  IF info.valid /\ dir # info.prediction THEN LoopFreed(e)
        ELSE IF mispredicted THEN [left EXCEPT !.spec = left.current]
        ELSE left

\* commit_state of a branch that hit none: an entry of a random bank is taken over when
\* it has no age left.
LoopTaken(table, pc, dir, bank) ==
    LET k == LoopIndex(pc, bank)
    IN  IF table[k].age = 0
        THEN [table EXCEPT ![k] = [total |-> 0, tag |-> LoopTag(pc), confidence |-> 0,
                                   age |-> NewLoopAge, dir |-> ~dir, spec |-> 0,
                                   current |-> 0]]
        ELSE [table EXCEPT ![k].age = @ - 1]

\* commit_state; the draw is a bank, whether to use it, and whether a right prediction
\* that TAGE made as well counts.
LoopCommitted(table, dir, info, mispredicted, tagePrediction, draw) ==
    LET k == LoopIndex(info.pc, info.bank)
    IN  IF info.bank >= 0
        THEN IF table[k].tag # LoopTag(info.pc) THEN table
             ELSE [table EXCEPT ![k] =
                    LoopConfirmed(@, dir, info, mispredicted,
                                  info.prediction # tagePrediction \/ draw.agree)]
        ELSE IF mispredicted /\ draw.take THEN LoopTaken(table, info.pc, dir, draw.bank)
        ELSE table

LoopDraws == [bank : 0 .. 3, take : BOOLEAN, agree : BOOLEAN]
-----------------------------------------------------------------------------
\* get_prediction for all three
SclPrediction(pc, tage) ==
    LET l     == LoopPrediction(loop, pc)
        sofar == IF beneficial >= 0 /\ l.valid THEN l.prediction ELSE tage.prediction
        c     == CorrectorPrediction(sc, pc, tage, sofar)
    IN  [pc |-> pc, tage |-> tage, loop |-> l, sofar |-> sofar, sc |-> c,
         final |-> c.prediction]

\* Mutated form of WithHistories: those of the branch that uses the prediction.
WithHistoriesOfUse(info, pc) == [info EXCEPT !.sc.snapshot = SnapshotOf(sc, pc)]

\* The histories of a prediction are recorded when it is made, ahead, and otherwise
\* by update_speculative_state, before they change.
WithHistories(info, pc) ==
    IF distance > 0 THEN info ELSE [info EXCEPT !.sc.snapshot = SnapshotOf(sc, pc)]

BeneficialTrained(info, dir) ==
    IF info.loop.valid /\ info.final # info.loop.prediction
    THEN SignedUpdated(beneficial, dir = info.loop.prediction, ConfidenceWidth)
    ELSE beneficial

\* Only a mispredicted branch that hit no loop, or a right one that did, draws.
SclDraws == {d \in LoopDraws : d.bank = 0 \/ (d.take /\ d.agree)}

Untrained == [wrong |-> FALSE, missed |-> FALSE, took |-> FALSE,
              read |-> << >>, trained |-> << >>]

\* commit_state of a conditional branch, after its histories moved
SclCommitted(info, dir, moved) ==
    LET missed == info.final # dir /\ info.loop.bank < 0
    IN  \E at \in {Lookups(info.pc, info.tage, info.sofar, info.sc.snapshot)} :
            /\ sc' = CorrectorCommitted(moved, info.pc, at, dir, info.tage, info.sc,
                                        info.sofar)
            /\ beneficial' = BeneficialTrained(info, dir)
            /\ \E draw \in SclDraws :
                /\ loop' = LoopCommitted(LoopAdvanced(loop, info.loop), dir, info.loop,
                                         info.final # dir, info.tage.prediction, draw)
                /\ lastScl' = [wrong |-> info.final # dir, missed |-> missed,
                               took |-> missed /\ draw.take,
                               read |-> info.sc.read, trained |-> at]

\* A branch: get_prediction, update_speculative_state, commit_state and
\* commit_state_at_retire.  The first ones have no prediction ahead: they are not taken,
\* and train nothing; the loop predictor then advances an entry that counts nothing yet.
SclBranch(pc, type, dir, target, tage) ==
    /\ UNCHANGED distance
    /\ \E queue \in {Append(made, SclPrediction(pc, tage))},
          moved \in {CorrectorAdvanced(sc, pc, type, dir, target)} :
        IF Len(queue) > distance
        THEN /\ made' = Tail(queue)
             /\ \E info \in {WithHistories(Head(queue), pc)} :
                IF type.conditional THEN SclCommitted(info, dir, moved)
                ELSE /\ loop' = LoopAdvanced(loop, info.loop) /\ sc' = moved
                     /\ UNCHANGED beneficial /\ lastScl' = Untrained
        ELSE /\ made' = queue /\ sc' = moved
             /\ UNCHANGED <<loop, beneficial>> /\ lastScl' = Untrained

SclTypes == [conditional : BOOLEAN, indirect : BOOLEAN]

FreeBranch ==
    /\ program.left > 0
    /\ program' = [program EXCEPT !.left = @ - 1]
    /\ \E pc \in SclPcs, type \in SclTypes, dir \in BOOLEAN, target \in SclPcs,
          tage \in TageAnswers : SclBranch(pc, type, dir, target, tage)

\* From some time on the program is a loop around one branch, of which TAGE knows no
\* more than that it is usually taken.
EnterLoop ==
    /\ program.trip = 0
    /\ \E trip \in TripCounts, pc \in SclPcs, tage \in {t \in TageAnswers : t.prediction} :
        program' = [left |-> 0, trip |-> trip, at |-> 1, pc |-> pc, tage |-> tage]
    /\ UNCHANGED <<distance, loop, sc, beneficial, made, lastScl>>

LoopBranch ==
    /\ program.trip > 0
    /\ program' = [program EXCEPT !.at = (@ % program.trip) + 1]
    /\ SclBranch(program.pc, [conditional |-> TRUE, indirect |-> FALSE],
                 program.at < program.trip, 0, program.tage)

SclInit ==
    /\ distance \in Distances
    /\ loop = NewLoopTable /\ sc = NewCorrector
    /\ beneficial = -1
    /\ made = << >>
    /\ lastScl = Untrained
    /\ program = [left |-> MaxFreeBranches, trip |-> 0, at |-> 1, pc |-> 0,
                   tage |-> CHOOSE a \in TageAnswers : TRUE]

SclNext == FreeBranch \/ EnterLoop \/ LoopBranch

\* The program goes on, and goes around its loop again and again.  A mispredicted branch
\* without an entry is drawn one again and again: the numbers are pseudo-random.
SclSpec ==
    /\ SclInit /\ [][SclNext]_sclVars
    /\ []<>(program.at = 1 /\ program.trip > 0) /\ []<>(program.at = 2)
    /\ []<>lastScl.missed => []<>lastScl.took

-----------------------------------------------------------------------------
(* What TAGE-SC-L promises                                                 *)

\* The corrector trains the counters that a prediction was read from, though it was
\* made a branch earlier ("so that at commit time the SC trains the same GEHL entries
\* it read here").
TrainsWhatItRead == lastScl.trained = lastScl.read

\* Between branches the two counts of a loop are the same, or it just went on past its
\* count, and is forgotten by its next branch.
LoopCountsAgree ==
    distance = 0 =>
        \A k \in LoopEntries :
            LET e == loop[k]
            IN  e.total > 0 => e.spec = e.current \/ (e.current = e.total /\ e.spec = 0)

\* A loop that always takes the same number of iterations is predicted right from some
\* time on, its exit included.
LearnsLoop == distance = 0 => <>[](~lastScl.wrong)
=============================================================================
