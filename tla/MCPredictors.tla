---------------------------- MODULE MCPredictors ----------------------------
(***************************************************************************)
(* The direction predictors for the model checker, one of them in a        *)
(* behaviour: the history register with the checkpoints of branches in     *)
(* flight, TAGE, the loop predictor and the statistical corrector around   *)
(* any TAGE, and the simple predictors.                                    *)
(***************************************************************************)
EXTENDS Tage, TageScl, DirectionPredictors

MCSizes  == <<1, 2, 3>>
MCTags   == <<2, 2, 2>>
MCWidths == <<{1, 2}, {1, 2}, {1, 2}>>

MCGehlHistories == [global |-> <<3, 2, 1>>, path |-> <<2>>, local1 |-> <<3, 1>>,
                    local2 |-> <<3>>, local3 |-> <<2>>, imli1 |-> <<2>>, imli2 |-> <<2, 1>>]
MCGehlLog == [component \in DOMAIN MCGehlHistories |-> 2]
MCLocalLog   == <<1, 1, 0>>
MCLocalShift == <<2, 5, 10>>

\* What TAGE may say: either way, with high, medium or low confidence.
MCAnswers ==
    {[prediction |-> p, high |-> c = "high", medium |-> c = "medium", low |-> c = "low",
      longest |-> p, alt |-> c = "low", hit |-> 3, altBank |-> 0] :
        p \in BOOLEAN, c \in {"high", "medium", "low"}}

MCOutcomes == 1 :> {TRUE, FALSE} @@ 6 :> {TRUE}
MCHistoryLengths == <<0, 2, 3, 5>>

VARIABLE part

Is(p) == part = p

\* The history register is part of TAGE's state, the rest of it then stands still.
RunInit ==
    /\ part \in {"history", "tage", "scl", "direction"}
    /\ TageInit /\ SclInit /\ DirectionInit
    /\ Is("scl") \/ distance = 0
    /\ Is("direction") \/ dir.kind = "bimodal"

RunNext ==
    /\ UNCHANGED part
    /\ \/ Is("history") /\ HistoryNext /\ UNCHANGED <<tage, ahead, last, free, sclVars, dirVars>>
       \/ Is("tage") /\ TageNext /\ UNCHANGED <<sclVars, dirVars>>
       \/ Is("scl") /\ SclNext /\ UNCHANGED <<tageVars, dirVars>>
       \/ Is("direction") /\ DirectionNext /\ UNCHANGED <<tageVars, sclVars>>

\* The fairness of TageSpec and SclSpec, each for its part.
RunSpec ==
    /\ RunInit /\ [][RunNext]_<<part, tageVars, sclVars, dirVars>>
    /\ []<>(Is("tage") => free.beat) /\ []<>(Is("tage") => ~free.beat)
    /\ []<>(Is("scl") => program.at = 1 /\ program.trip > 0)
    /\ []<>(Is("scl") => program.at = 2)
    /\ []<>lastScl.missed => []<>lastScl.took

\* The histories that TAGE reads fold what they hold (FoldedIsFold), come back to any
\* branch in flight (RecoveryIsExact), and what was wrong under a history allocates only
\* under longer ones (AllocatesLonger).
TageSound == FoldedIsFold /\ RecoveryIsExact /\ AllocatesLonger

\* What the corrector and the loop predictor keep in step though they predict a branch
\* early: counters read and trained (TrainsWhatItRead), and the two counts of a loop
\* (LoopCountsAgree).
SclSound == TrainsWhatItRead /\ LoopCountsAgree

\* From whatever state free branches leave, TAGE learns a branch that always goes the
\* same way (LearnsConstant), and the loop predictor a loop that always takes the same
\* number of iterations (LearnsLoop).
EverythingIsLearned == LearnsConstant /\ LearnsLoop
=============================================================================
