------------------------- MODULE StatisticalCorrector -------------------------
(***************************************************************************)
(* The statistical corrector of TAGE-SC-L (statistical_corrector.hpp):     *)
(* sums counters that are looked up with several histories, and overrules  *)
(* the prediction made so far when the sum is far enough on the other      *)
(* side.  Both files of that name are the same but for the place where the *)
(* histories of a prediction are recorded (SnapshotOf).                    *)
(*                                                                         *)
(* Operators over the corrector's state; TageScl owns it.  A history keeps *)
(* the bits that some table reads.  All configurations use all components. *)
(* Recovery is left out: nothing in the simulator calls it.                *)
(***************************************************************************)
EXTENDS PredictorTables, SequencesExt

CONSTANTS
    GehlHistories,      \* of each GEHL, how much of its history each table reads
    GehlLog,            \* of each GEHL, the logarithm of its tables' sizes
    Precision,          \* bits of a counter
    BiasLog, PerPcLog, WeightLog,
    ThresholdWidth, PerPcWidth, WeightWidth, ConfidenceWidth,
    InitialThreshold, InitialWeight, InitialBiasWeight,
    LocalLog, LocalShift,   \* of the three tables of local histories
    ImliWidth, SumPathWidth,
    WeightBonus         \* what a doubled component adds to the threshold (12)

Gehls == {"global", "path", "local1", "local2", "local3", "imli1", "imli2"}

ASSUME CorrectorAssumption ==
    /\ GehlHistories \in [Gehls -> Seq(Nat)] /\ GehlLog \in [Gehls -> Nat]
    /\ LocalLog \in [1 .. 3 -> Nat] /\ LocalShift \in [1 .. 3 -> Nat]
    /\ {Precision, BiasLog, PerPcWidth, ThresholdWidth, WeightWidth, ConfidenceWidth,
        ImliWidth, SumPathWidth} \subseteq Nat \ {0}
    /\ {PerPcLog, WeightLog, WeightBonus} \subseteq Nat

\* The bits of a history that are kept: int64_t in the code, of which a table reads no
\* more than its length.
HistoryModulus == 2 ^ Max(UNION {Range(GehlHistories[g]) : g \in Gehls})

Magnitude(n) == IF n < 0 THEN -n ELSE n

\* Threshold_Table::get_entry, Local_History_Table::get_index
TableIndex(pc, shift, log) == (pc ## Shr(pc, shift)) % 2 ^ log

WeightIndex(pc) == TableIndex(pc, 2, WeightLog)

\* initialize_bias_tables
InitialBias(k, sk) ==
    LET lo == -(2 ^ (Precision - 1))
        hi == 2 ^ (Precision - 1) - 1
    IN  IF sk THEN <<-(-lo \div 4), hi \div 4, lo, hi>>[(k % 4) + 1]
        ELSE <<lo, hi, -1, 0>>[(k % 4) + 1]

Weights == Gehls \cup {"bias"}

Biases == {"plain", "sk", "bank"}

InitialWeightOf(w) ==
    IF w = "bias" THEN InitialBiasWeight ELSE IF w = "imli2" THEN 0 ELSE InitialWeight

NewCorrector ==
    [global |-> 0, path |-> 0, imli |-> 0,
     local |-> [n \in 1 .. 3 |-> [k \in 0 .. 2 ^ LocalLog[n] - 1 |-> 0]],
     imliTable |-> [k \in 0 .. 2 ^ ImliWidth - 1 |-> 0],
     medium |-> 0, high |-> 0,
     threshold |-> InitialThreshold,
     perPc |-> [k \in 0 .. 2 ^ PerPcLog - 1 |-> 0],
     weight |-> [w \in Weights |-> [k \in 0 .. 2 ^ WeightLog - 1 |-> InitialWeightOf(w)]],
     gehl |-> [g \in Gehls |-> [i \in DOMAIN GehlHistories[g] |->
                [k \in 0 .. 2 ^ GehlLog[g] - 1 |-> IF k % 2 = 1 THEN 0 ELSE -1]]],
     bias |-> [b \in Biases |-> [k \in 0 .. 2 ^ BiasLog - 1 |-> InitialBias(k, b = "sk")]]]

-----------------------------------------------------------------------------
(* Components of the sum                                                   *)

\* Gehl::get_index: the last two tables use half of their entries.
GehlIndex(g, key, history, i) ==
    LET id   == i - 1
        h    == history % 2 ^ GehlHistories[g][i]
        half == id >= Len(GehlHistories[g]) - 2
    IN  (key ## h ## Shr(h, 8 - id) ## Shr(h, 16 - 2 * id)
             ## Shr(h, 24 - 3 * id) ## Shr(h, 32 - 3 * id)
             ## Shr(h, 40 - 4 * id)) % 2 ^ (GehlLog[g] - Bit01(half))

\* The global history is read with the prediction made so far beside the address.
KeyOf(g, pc, sofar) == IF g = "global" THEN 2 * pc + Bit01(sofar) ELSE pc

Term(c) == 2 * c + 1

\* get_bias_table_index, get_bias_sk_table_index, get_bias_bank_table_index
BiasIndex(b, pc, tage, sofar) ==
    LET unsure == tage.low /\ tage.longest # tage.alt
        index  ==
            CASE b = "plain" -> 2 * ((2 * (pc ## (pc \div 4))) ## Bit01(unsure))
              [] b = "sk"    -> 2 * ((2 * (pc ## Shr(pc, BiasLog - 2))) ## Bit01(tage.high))
              [] b = "bank"  -> 128 * (pc ## (pc \div 4)) + 16 * ((tage.hit + 1) \div 4)
                                    + 8 * Bit01(tage.altBank # 0) + 4 * Bit01(tage.low)
                                    + 2 * Bit01(tage.high)
    IN  (index + Bit01(sofar)) % 2 ^ BiasLog

\* Where the counters for a branch with these histories are.
Lookups(pc, tage, sofar, snapshot) ==
    [gehl   |-> Each(Gehls, LAMBDA g : Each(DOMAIN GehlHistories[g],
                    LAMBDA i : GehlIndex(g, KeyOf(g, pc, sofar), snapshot[g], i))),
     bias   |-> Each(Biases, LAMBDA b : BiasIndex(b, pc, tage, sofar)),
     weight |-> Each(Weights, LAMBDA w : WeightIndex(KeyOf(w, pc, sofar)))]

Total(S, F(_)) == FoldSet(LAMBDA x, n : n + F(x), 0, S)

\* Gehl::get_prediction_sum, and the same for the biases
ComponentSum(s, w, at) ==
    IF w = "bias" THEN Total(Biases, LAMBDA b : Term(s.bias[b][at.bias[b]]))
    ELSE Total(DOMAIN GehlHistories[w], LAMBDA i : Term(s.gehl[w][i][at.gehl[w][i]]))

\* get_gehl_prediction_sum
TotalSum(s, at) ==
    Total(Weights, LAMBDA w : ComponentSum(s, w, at)
                                * (IF s.weight[w][at.weight[w]] >= 0 THEN 2 ELSE 1))

-----------------------------------------------------------------------------
(* Prediction                                                              *)

\* The histories a prediction reads.
SnapshotOf(s, pc) ==
    LET localOf(n) == s.local[n][TableIndex(pc, LocalShift[n], LocalLog[n])]
    IN  [global |-> s.global, path |-> s.path, local1 |-> localOf(1),
         local2 |-> localOf(2), local3 |-> localOf(3), imli1 |-> s.imli,
         imli2 |-> s.imliTable[s.imli]]

\* Every doubled component adds to the threshold but the second IMLI one.
ThresholdSum(s, pc) ==
    (s.threshold \div 8) + s.perPc[TableIndex(pc, 2, PerPcLog)]
        + WeightBonus * Cardinality({w \in Weights \ {"imli2"} :
                                        s.weight[w][WeightIndex(pc)] >= 0})

\* The sum is believed unless it is near zero and TAGE was confident.
Believed(s, tage, sum, thresholds) ==
    IF tage.medium THEN Magnitude(sum) >= thresholds \div 4 \/ s.medium < 0
    ELSE IF tage.high /\ Magnitude(sum) < thresholds \div 4 THEN FALSE
    ELSE ~tage.high \/ Magnitude(sum) >= thresholds \div 2 \/ s.high < 0

\* get_prediction
CorrectorPrediction(s, pc, tage, sofar) ==
    LET snapshot   == SnapshotOf(s, pc)
        read       == Lookups(pc, tage, sofar, snapshot)
        sum        == TotalSum(s, read)
        thresholds == ThresholdSum(s, pc)
        other      == (sum >= 0) # sofar
    IN  [sum |-> sum, thresholds |-> thresholds, snapshot |-> snapshot, read |-> read,
         prediction |-> IF other /\ Believed(s, tage, sum, thresholds) THEN ~sofar
                        ELSE sofar]

-----------------------------------------------------------------------------
(* Training                                                                *)

\* Whether a component counts double is trained where that decides the sum.
WeightTrained(c, sum, total, dir) ==
    LET single == total - (IF c >= 0 THEN sum ELSE 0)
    IN  IF (single >= 0) # (single + sum >= 0) THEN SignedUpdated(c, (sum >= 0) = dir, WeightWidth)
        ELSE c

\* The selectors between a confident TAGE and the sum.
SelectorsTrained(s, dir, tage, info, sofar) ==
    LET size  == Magnitude(info.sum)
        other == (info.sum >= 0) # sofar
        high  == /\ other /\ tage.high /\ size < info.thresholds
                 /\ size < info.thresholds \div 2 /\ size >= info.thresholds \div 4
        medium == other /\ tage.medium /\ size < info.thresholds \div 4
    IN  [s EXCEPT !.high = IF high THEN SignedUpdated(@, sofar = dir, ConfidenceWidth) ELSE @,
                  !.medium = IF medium THEN SignedUpdated(@, sofar = dir, ConfidenceWidth) ELSE @]

\* update_gehl_and_threshold for every GEHL, and the same for the biases
CountersTrainedAt(s, at, dir, total) ==
    [s EXCEPT
        !.gehl = Each(Gehls, LAMBDA g : Each(DOMAIN GehlHistories[g], LAMBDA i :
                    [@[g][i] EXCEPT ![at.gehl[g][i]] = SignedUpdated(@, dir, Precision)])),
        !.bias = Each(Biases, LAMBDA b :
                    [@[b] EXCEPT ![at.bias[b]] = SignedUpdated(@, dir, Precision)]),
        !.weight = Each(Weights, LAMBDA w :
                    [@[w] EXCEPT ![at.weight[w]] =
                        WeightTrained(@, ComponentSum(s, w, at), total, dir)])]

\* commit_state: the sum is trained when it was wrong or near zero.
CorrectorCommitted(s, pc, at, dir, tage, info, sofar) ==
    LET right   == (info.sum >= 0) = dir
        chosen  == SelectorsTrained(s, dir, tage, info, sofar)
        counted == [chosen EXCEPT
                        !.threshold = SignedUpdated(@, ~right, ThresholdWidth),
                        !.perPc[TableIndex(pc, 2, PerPcLog)] = SignedUpdated(@, ~right, PerPcWidth)]
    IN  IF right /\ Magnitude(info.sum) >= info.thresholds THEN chosen
        ELSE CountersTrainedAt(counted, at, dir, info.sum)

-----------------------------------------------------------------------------
(* Histories                                                               *)

Shifted(h, bit) == (2 * h + Bit01(bit)) % HistoryModulus

\* The iterations of the innermost loop, and what was done at each.
ImliAdvanced(s, dir, backward) ==
    [s EXCEPT !.imliTable[s.imli] = Shifted(@, dir),
              !.imli = IF ~backward THEN @ ELSE IF ~dir THEN 0
                       ELSE IF @ < 2 ^ ImliWidth - 1 THEN @ + 1 ELSE @]

LocalsAdvanced(s, pc, dir) ==
    [s EXCEPT !.local = [n \in 1 .. 3 |->
        [@[n] EXCEPT ![TableIndex(pc, LocalShift[n], LocalLog[n])] =
            IF n = 2 THEN (Shifted(@, dir) ## (pc % 16)) % HistoryModulus
            ELSE Shifted(@, dir)]]]

SumPathPushed(path, pc, type, dir, target) ==
    LET mixed == IF type.conditional /\ type.indirect /\ dir THEN target ELSE 0
        hash  == pc ## (pc \div 4) ## (pc \div 16) ## (mixed \div 4) ## (mixed \div 16)
        bits  == IF type.indirect /\ ~type.conditional THEN 3 ELSE 2
    IN  FoldLeft(LAMBDA p, k : (2 * p) ## ((hash \div 2 ^ (k - 1)) % 128), path,
                 [k \in 1 .. bits |-> k]) % 2 ^ SumPathWidth

\* update_speculative_state
CorrectorAdvanced(s, pc, type, dir, target) ==
    LET backward == target < pc
        moved == IF ~type.conditional THEN s
                 ELSE LocalsAdvanced([ImliAdvanced(s, dir, backward) EXCEPT
                        !.global = Shifted(@, dir /\ backward)], pc, dir)
    IN  [moved EXCEPT !.path = SumPathPushed(@, pc, type, dir, target)]
=============================================================================
