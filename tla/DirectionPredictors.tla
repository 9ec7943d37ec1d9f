------------------------- MODULE DirectionPredictors -------------------------
(***************************************************************************)
(* The bimodal, gshare, perceptron and hashed perceptron predictors        *)
(* (branch/bimodal, gshare, perceptron, hashed_perceptron).  The core      *)
(* predicts every instruction, and only a branch reports its outcome, at   *)
(* once.  A table is a function on the places used so far, and 0 (or an    *)
(* untrained perceptron) elsewhere.                                        *)
(***************************************************************************)
EXTENDS PredictorTables, SequencesExt

CONSTANTS
    PredictorKinds,
    Branches, NonBranches,      \* instructions
    OutcomesOf,                 \* by branch, a set of possible outcomes
    SimpleCounterMax,           \* of bimodal and gshare
    GshareLength, TableSize,
    PerceptronLength, PerceptronBits, Perceptrons, UpdateEntries, Theta,
    HistoryLengths, WordBits, HistoryWords, WeightBits, Speed, FirstTheta,
    MaxInstructions             \* bound

ASSUME DirectionAssumption ==
    /\ PredictorKinds \subseteq {"bimodal", "gshare", "perceptron", "hashed"}
    /\ (Branches \cup NonBranches) \subseteq Nat /\ Branches \cap NonBranches = {}
    /\ \A b \in Branches : OutcomesOf[b] \subseteq BOOLEAN
    /\ {SimpleCounterMax, GshareLength, TableSize, PerceptronLength, PerceptronBits, Perceptrons,
        UpdateEntries, WordBits, HistoryWords, WeightBits, Speed, FirstTheta} \subseteq Nat \ {0}
    /\ HistoryLengths \in Seq(Nat)
    /\ Theta \in Nat /\ MaxInstructions \in Nat

\* 2 ^ n as the prover is told it: it has no theory of powers.
ASSUME PowersOfTwo ==
    /\ 2 ^ 0 = 1
    /\ \A l \in {GshareLength, PerceptronLength, WordBits} : \A m \in 0 .. l :
        /\ 2 ^ m \in Nat \ {0} /\ 2 ^ l = 2 ^ m * 2 ^ (l - m)
        /\ m > 0 => 2 ^ m = 2 * 2 ^ (m - 1)

VARIABLES
    dir,        \* what the predictor keeps
    trained,    \* ghost: the prediction an update trains, and the one before it
    outcomes    \* ghost: of the branches, newest first

dirVars == <<dir, trained, outcomes>>

At(f, i, default) == IF i \in DOMAIN f THEN f[i] ELSE default
Put(f, i, v)      == [x \in DOMAIN f \cup {i} |-> IF x = i THEN v ELSE f[x]]

\* initialize_branch_predictor
NewDirection(kind) ==
    [kind |-> kind, count |-> 0,
     table |-> << >>,                   \* counters, perceptrons, or weights by table and place
     history |-> 0, spec |-> 0,         \* bit 0 is the newest outcome
     states |-> << >>,                  \* perceptron_state_buf
     words |-> [i \in 1 .. HistoryWords |-> 0],
     places |-> << >>, yout |-> 0, theta |-> FirstTheta, tc |-> 0]

HistoryShifted(history, bit, length) == (2 * history + Bit01(bit)) % 2 ^ length
BitOf(history, i) == (history \div 2 ^ i) % 2 = 1

-----------------------------------------------------------------------------
(* Counters: bimodal and gshare.  From 1 of 0 .. 3 they say taken.         *)

CounterPlace(d, ip) ==
    IF d.kind = "bimodal" THEN ip % TableSize
    ELSE (((d.history ## ip) ## Shr(ip, GshareLength)) ## Shr(ip, 2 * GshareLength)) % TableSize

CounterTaken(d, ip) == At(d.table, CounterPlace(d, ip), 0) >= SimpleCounterMax \div 2

CounterTrained(d, ip, taken) ==
    [d EXCEPT !.table = Put(@, CounterPlace(d, ip),
                            Saturated(At(@, CounterPlace(d, ip), 0), taken, 0, SimpleCounterMax)),
              !.history = IF d.kind = "gshare" THEN HistoryShifted(@, taken, GshareLength) ELSE @]

-----------------------------------------------------------------------------
(* The perceptron                                                          *)

NewPerceptron == [bias |-> 0, weights |-> [i \in 1 .. PerceptronLength |-> 0]]

PerceptronOf(d, ip) == At(d.table, ip % Perceptrons, NewPerceptron)

Output(p, history) ==
    FoldFunctionOnSet(+, p.bias,
        [i \in 1 .. PerceptronLength |->
            IF BitOf(history, i - 1) THEN p.weights[i] ELSE -p.weights[i]],
        1 .. PerceptronLength)

\* Mutated form of Saved: a full buffer loses the newest state.
SavedOver(q, state) == IF Len(q) = UpdateEntries THEN q ELSE Append(q, state)

Saved(q, state) ==
    IF Len(q) = UpdateEntries THEN Append(Tail(q), state) ELSE Append(q, state)

\* The instructions that are no branches stay in the speculative history and the buffer.
PerceptronAsked(d, ip) ==
    LET output == Output(PerceptronOf(d, ip), d.spec)
    IN  [d EXCEPT !.states = Saved(@, [ip |-> ip, output |-> output, history |-> d.spec,
                                       count |-> d.count]),
                  !.spec = HistoryShifted(@, output >= 0, PerceptronLength)]

PerceptronUpdated(p, history, taken) ==
    LET W(w, up) == SignedUpdated(w, up, PerceptronBits)
    IN  [bias |-> W(p.bias, taken),
         weights |-> [i \in 1 .. PerceptronLength |->
                        W(p.weights[i], BitOf(history, i - 1) = taken)]]

StatesOf(d, ip) == {i \in DOMAIN d.states : d.states[i].ip = ip}

\* last_branch_result: the oldest state of the branch; without one nothing is learnt, not
\* even the history.
PerceptronTrained(d, ip, taken) ==
    IF StatesOf(d, ip) = {} THEN d
    ELSE LET i     == Min(StatesOf(d, ip))
             state == d.states[i]
             past  == HistoryShifted(d.history, taken, PerceptronLength)
             right == (state.output >= 0) = taken
             weak  == state.output <= Theta /\ state.output >= -Theta
         IN  [d EXCEPT !.states = RemoveAt(@, i), !.history = past,
                       !.spec = IF right THEN @ ELSE past,
                       !.table = IF right /\ ~weak THEN @
                                 ELSE Put(@, ip % Perceptrons,
                                          PerceptronUpdated(PerceptronOf(d, ip), state.history,
                                                            taken))]

-----------------------------------------------------------------------------
(* The hashed perceptron                                                   *)

\* The words of the history that a table uses, the last one in part, and the pc
HashedPlace(d, ip, length) ==
    LET most == length \div WordBits
        x    == FoldFunctionOnSet(LAMBDA a, b : a ## b, 0, d.words, 1 .. most)
        rest == d.words[most + 1] % 2 ^ (length % WordBits)
    IN  ((x ## rest) ## ip) % 2 ^ WordBits

HashedAsked(d, ip) ==
    LET places == [i \in DOMAIN HistoryLengths |-> HashedPlace(d, ip, HistoryLengths[i])]
    IN  [d EXCEPT !.places = places,
                  !.yout = FoldLeft(+, 0, [i \in DOMAIN places |->
                                              At(d.table, <<i, places[i]>>, 0)])]

\* Mutated form of WordsShifted: a word takes the bit that is the highest of the word before
\* when that has been shifted already.
WordsShiftedLate(words, taken) ==
    [i \in DOMAIN words |->
        (2 * words[i] + (IF i = 1 THEN Bit01(taken)
                         ELSE (2 * words[i - 1]) \div 2 ^ (WordBits - 1) % 2)) % 2 ^ WordBits]

\* Each word takes the highest bit of the word before.
WordsShifted(words, taken) ==
    [i \in DOMAIN words |->
        (2 * words[i] + (IF i = 1 THEN Bit01(taken)
                         ELSE words[i - 1] \div 2 ^ (WordBits - 1))) % 2 ^ WordBits]

Absolute(x) == IF x < 0 THEN -x ELSE x

\* The threshold goes up after Speed mispredictions, and down after as many right answers
\* below it.
ThetaUpdated(d, right) ==
    IF ~right THEN IF d.tc + 1 >= Speed THEN [d EXCEPT !.theta = @ + 1, !.tc = 0]
                   ELSE [d EXCEPT !.tc = @ + 1]
    ELSE IF d.tc - 1 <= -Speed THEN [d EXCEPT !.theta = @ - 1, !.tc = 0]
         ELSE [d EXCEPT !.tc = @ - 1]

HashedTrained(d, taken) ==
    LET right == taken = (d.yout >= 1)
        used  == {<<i, d.places[i]>> : i \in DOMAIN d.places}
        table == [u \in DOMAIN d.table \cup used |->
                    IF u \in used THEN SignedUpdated(At(d.table, u, 0), taken, WeightBits)
                    ELSE d.table[u]]
        e     == [d EXCEPT !.words = WordsShifted(@, taken)]
    IN  IF right /\ Absolute(d.yout) >= d.theta THEN e
        ELSE ThetaUpdated([e EXCEPT !.table = table], right)

-----------------------------------------------------------------------------
(* The core                                                                *)

\* predict_branch
DirectionAsked(d, ip) ==
    CASE d.kind = "perceptron" -> PerceptronAsked(d, ip)
      [] d.kind = "hashed"     -> HashedAsked(d, ip)
      [] OTHER                 -> d

\* last_branch_result
DirectionTrained(d, ip, taken) ==
    CASE d.kind = "perceptron" -> PerceptronTrained(d, ip, taken)
      [] d.kind = "hashed"     -> HashedTrained(d, taken)
      [] OTHER                 -> CounterTrained(d, ip, taken)

\* The number of the prediction an update would train
TrainedPrediction(d, ip) ==
    IF d.kind # "perceptron" THEN d.count
    ELSE IF StatesOf(d, ip) = {} THEN 0 ELSE d.states[Min(StatesOf(d, ip))].count

Counted(d) == [d EXCEPT !.count = @ + 1]

NoBranch(ip) ==
    /\ dir.count < MaxInstructions
    /\ dir' = DirectionAsked(Counted(dir), ip)
    /\ UNCHANGED <<trained, outcomes>>

DirectionBranch(ip, taken) ==
    /\ dir.count < MaxInstructions
    /\ \E d \in {DirectionAsked(Counted(dir), ip)} :
        /\ dir' = DirectionTrained(d, ip, taken)
        /\ trained' = [own |-> d.count, trained |-> TrainedPrediction(d, ip)]
    /\ outcomes' = <<taken>> \o outcomes

DirectionInit ==
    /\ \E kind \in PredictorKinds : dir = NewDirection(kind)
    /\ trained = [own |-> 0, trained |-> 0] /\ outcomes = << >>

DirectionNext ==
    \/ \E ip \in NonBranches : NoBranch(ip)
    \/ \E ip \in Branches, taken \in BOOLEAN : taken \in OutcomesOf[ip] /\ DirectionBranch(ip, taken)

DirectionSpec == DirectionInit /\ [][DirectionNext]_dirVars

-----------------------------------------------------------------------------
\* A branch trains what was saved at its own prediction, though the buffer of the
\* perceptron keeps the states of all instructions that are no branches, and overflows.
TrainsItsOwn == trained.own = trained.trained

\* The words of the hashed perceptron hold the outcomes of the branches in their order,
\* and its threshold is never below 0; the histories of gshare and the perceptron hold
\* them too, whatever the speculative one holds.
Outcome(k) == k \in DOMAIN outcomes /\ outcomes[k]

HoldsOutcomes ==
    /\ dir.kind = "hashed" =>
        /\ dir.theta >= 0
        /\ \A i \in 1 .. HistoryWords, b \in 1 .. WordBits :
            BitOf(dir.words[i], b - 1) = Outcome((i - 1) * WordBits + b)
    /\ dir.kind = "gshare" =>
        \A b \in 1 .. GshareLength : BitOf(dir.history, b - 1) = Outcome(b)
    /\ dir.kind = "perceptron" =>
        \A b \in 1 .. PerceptronLength : BitOf(dir.history, b - 1) = Outcome(b)

HistoriesSound == TrainsItsOwn /\ HoldsOutcomes
=============================================================================
