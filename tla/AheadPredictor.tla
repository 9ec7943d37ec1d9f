--------------------------- MODULE AheadPredictor ---------------------------
(***************************************************************************)
(* The multi-block-ahead direction predictor of                            *)
(* branch/multi_block_ahead_tage (tagescl differs in the tables it asks).  *)
(*                                                                         *)
(* O3_CPU::do_predict_branch calls predict_branch for EVERY instruction,   *)
(* since a fetched instruction is not yet known to be a branch, and        *)
(* last_branch_result for the branches only.  Each call of predict_branch  *)
(* asks TAGE for the prediction of the branch Distance branches ahead,     *)
(* keeps it in that branch's slot, and answers with what was kept in the   *)
(* slot of the current branch.  An instruction that turns out not to be a  *)
(* branch leaves a prediction behind which the next one must overwrite.    *)
(*                                                                         *)
(* A prediction is abstracted to its origin: the pc it was generated from  *)
(* and the number of branch outcomes TAGE's history held at the time.      *)
(***************************************************************************)
EXTENDS CircularBuffer, Sequences

CONSTANTS
    Pcs,            \* instruction addresses
    Kinds,          \* the branch types that occur
    MaxSpecBits,    \* max_num_speculative_bits_ of Long_History_Register
    None            \* no pc, no prediction

AllKinds == {"DIRECT_JUMP", "INDIRECT", "CONDITIONAL", "DIRECT_CALL",
             "INDIRECT_CALL", "RETURN", "OTHER"}

\* inflight_branches = 1 and at most three bits a branch: the register
\* reserves room for 3 * max_in_flight_branches bits at least.
ASSUME PredictorAssumption ==
    /\ Kinds \subseteq AllKinds
    /\ MaxSpecBits \in Nat
    /\ MaxSpecBits >= 3 * InFlight
    /\ None \notin Pcs

IsConditional(kind) == kind \in {"CONDITIONAL", "OTHER"}
IsIndirect(kind) == kind \in {"INDIRECT", "INDIRECT_CALL", "RETURN", "OTHER"}

\* num_bit_inserts of push_into_history
HistoryBits(kind) == IF IsIndirect(kind) /\ ~IsConditional(kind) THEN 3 ELSE 2

VARIABLES
    buf,        \* prediction_info_buffer_
    state,      \* NONE or PREDICTED
    lastIp,     \* last_ip
    id,         \* id of the branch being predicted
    specBits,   \* num_speculative_bits_ of TAGE's history register
    branches,   \* number of branches whose outcome was pushed into history
    served,     \* origin of the last answer of predict_branch
    trained,    \* origin of the prediction the last branch trained
    aborted     \* an assertion failed and the simulator stopped

vars == <<buf, state, lastIp, id, specBits, branches, served, trained, aborted>>

\* The fields of Tage_SC_L_Prediction_Info: tage_prediction_valid and
\* updated_history; gen stands for tage and final_prediction, bits for
\* num_global_history_bits.
Empty == [valid |-> FALSE, gen |-> None, bits |-> 0, updated |-> FALSE]

Origins == [pc : Pcs, at : Nat]
Slots   == [valid : BOOLEAN, gen : Origins \cup {None}, bits : {0, 2, 3},
            updated : BOOLEAN]

Init ==
    /\ buf = NewBuffer(Empty)
    /\ state = "NONE"
    /\ lastIp = None
    /\ id = 0
    /\ specBits = 0
    /\ branches = 0
    /\ served = None
    /\ trained = None
    /\ aborted = FALSE

Abort == /\ aborted' = TRUE
         /\ UNCHANGED <<buf, state, lastIp, id, specBits, branches, served, trained>>

(***************************************************************************)
(* commit_state_at_retire: only a branch has updated the history, so the   *)
(* slot of an instruction that was none stays where it is.                 *)
(***************************************************************************)
RetireAsserts(b, bits, i) ==
    /\ InBuffer(b, i)
    /\ At(b, i).updated =>
          /\ At(b, i).bits > 0
          /\ At(b, i).bits <= bits
          /\ i = b.readId
RetiredBuffer(b, i) ==
    IF At(b, i).updated THEN DeallocateFront(b, i, Empty) ELSE b

\* Mutated form of RetiredBits: one bit more than was pushed is retired.
RetiredBitTooMany(b, bits, i) ==
    IF At(b, i).updated THEN bits - At(b, i).bits - 1 ELSE bits

RetiredBits(b, bits, i) ==
    IF At(b, i).updated THEN bits - At(b, i).bits ELSE bits

\* Mutated forms of Generated: the slot one too near is written; a prediction
\* a non-branch left is kept.
GeneratedOneShort(b, i, ip) ==
    LET ahead == AddId(i, Distance - 1)
    IN  Put(b, ahead, [valid   |-> TRUE,
                       gen     |-> [pc |-> ip, at |-> branches],
                       bits    |-> At(b, ahead).bits,
                       updated |-> At(b, ahead).updated])
GeneratedOnce(b, i, ip) ==
    LET ahead == AddId(i, Distance)
    IN  IF At(b, ahead).valid THEN b
        ELSE Put(b, ahead, [valid   |-> TRUE,
                            gen     |-> [pc |-> ip, at |-> branches],
                            bits    |-> At(b, ahead).bits,
                            updated |-> At(b, ahead).updated])

\* get_prediction(i, ip): the slot Distance ahead takes the new prediction.
Generated(b, i, ip) ==
    LET ahead == AddId(i, Distance)
    IN  Put(b, ahead, [valid   |-> TRUE,
                       gen     |-> [pc |-> ip, at |-> branches],
                       bits    |-> At(b, ahead).bits,
                       updated |-> At(b, ahead).updated])

\* Mutated form of Answer: the prediction just generated is returned.
AnswerFresh(b, i) == At(b, AddId(i, Distance)).gen

Answer(b, i) == IF At(b, i).valid THEN At(b, i).gen ELSE None

PredictBranch(ip) ==
    LET retires == state = "PREDICTED"
        b == IF retires THEN RetiredBuffer(buf, id) ELSE buf
        i == b.readId
        g == Generated(b, i, ip)
    IN  /\ ~aborted
        /\ IF /\ retires => RetireAsserts(buf, specBits, id)
              /\ InBuffer(b, i)
              /\ InBuffer(b, AddId(i, Distance))
           THEN /\ buf' = g
                /\ served' = Answer(g, i)
                /\ id' = i
                /\ specBits' = IF retires THEN RetiredBits(buf, specBits, id)
                                          ELSE specBits
                /\ lastIp' = ip
                /\ state' = "PREDICTED"
                /\ UNCHANGED <<branches, trained, aborted>>
           ELSE Abort

\* Mutated form of Trained: the slot of the next branch is used.
TrainedNext(b, i, kind) ==
    IF IsConditional(kind) /\ At(b, AddId(i, 1)).valid
    THEN At(b, AddId(i, 1)).gen ELSE None

\* commit_state: only a conditional branch with a prediction trains TAGE.
Trained(b, i, kind) ==
    IF IsConditional(kind) /\ At(b, i).valid THEN At(b, i).gen ELSE None

\* update_speculative_state, the slot's part of it
HistoryUpdated(b, i, bits) ==
    Put(b, i, [valid |-> At(b, i).valid, gen |-> At(b, i).gen,
               bits |-> bits, updated |-> TRUE])

(***************************************************************************)
(* last_branch_result: push the outcome into the history, train TAGE with  *)
(* the prediction of this branch if it is conditional, and retire it.      *)
(***************************************************************************)
LastBranchResult(ip, kind) ==
    LET bits == HistoryBits(kind)
        b == HistoryUpdated(buf, id, bits)
    IN  /\ ~aborted
        /\ IF /\ state = "PREDICTED"
              /\ lastIp = ip
              /\ InBuffer(buf, id)
              /\ specBits + bits <= MaxSpecBits
              /\ RetireAsserts(b, specBits + bits, id)
           THEN /\ branches' = branches + 1
                /\ trained' = Trained(b, id, kind)
                /\ buf' = RetiredBuffer(b, id)
                /\ specBits' = RetiredBits(b, specBits + bits, id)
                /\ state' = "NONE"
                /\ UNCHANGED <<lastIp, id, served, aborted>>
           ELSE Abort

\* do_predict_branch calls last_branch_result right after predict_branch, for
\* the same instruction, when it is a branch.
Next ==
    \/ \E ip \in Pcs : PredictBranch(ip)
    \/ \E kind \in Kinds : state = "PREDICTED" /\ LastBranchResult(lastIp, kind)

Spec == Init /\ [][Next]_vars
-----------------------------------------------------------------------------
\* Every variable has its type.
TypeOK ==
    /\ buf \in [slot : [Index -> Slots], readId : Ids, allocId : Ids]
    /\ state \in {"NONE", "PREDICTED"}
    /\ lastIp \in Pcs \cup {None}
    /\ id \in Ids
    /\ specBits \in Nat
    /\ branches \in Nat
    /\ served \in Origins \cup {None}
    /\ trained \in Origins \cup {None}
    /\ aborted \in BOOLEAN

\* No assertion of the predictor or of the buffer fails before the 32-bit ids
\* of the branches run out (utils.hpp CircularBuffer, multi_block_ahead_tage.cc).
AbortsOnlyWhenIdsRunOut == aborted => branches + Distance >= IdMod

\* Once Distance branches have resolved every answer comes from TAGE, and from
\* the history exactly Distance branches back, whatever non-branches predicted
\* in between (get_prediction).
ServedDistanceBack ==
    state = "PREDICTED" =>
        IF branches < Distance THEN served = None
        ELSE served \in Origins /\ served.at = branches - Distance

\* A conditional branch trains the very prediction it was served
\* (commit_state uses br_pc_used_for_pred_gen of the slot it was served from).
TrainsWhatWasServed == [][trained' # trained => trained' \in {served, None}]_vars

\* No history bit stays speculative between two calls: what a branch pushed it
\* has retired, so the register never fills (Long_History_Register::push_bit).
NoSpeculativeBitsLeft == specBits = 0

\* Between two calls the slot of a branch is in use exactly when the branch
\* Distance before it has been predicted, and holds that branch's prediction;
\* the slot furthest ahead is in use only while an instruction waits to be
\* known as a branch, and the rest of the ring is clear (deallocate_front
\* clears what it frees, get_prediction overwrites what a non-branch left).
SlotOwnership ==
    \A k \in Index :
        LET s == buf.slot[PhysicalIndex(branches + k)]
            inUse == \/ k < Distance /\ branches + k >= Distance
                     \/ k = Distance /\ state = "PREDICTED"
        IN  /\ s = Empty \/ inUse
            /\ inUse => /\ s.valid /\ ~s.updated
                        /\ s.gen \in Origins
                        /\ s.gen.at = branches + k - Distance
                        /\ k = Distance => s.gen.pc = lastIp

\* The ids follow the branches, and no call but the one that aborts is made
\* with an id of a wrapped window.
IdsFollowBranches ==
    /\ buf.readId = branches
    /\ buf.allocId = AddId(branches, Distance)
    /\ branches + Distance <= IdMod
    /\ state = "PREDICTED" => /\ branches + Distance < IdMod
                              /\ id = branches
                              /\ lastIp \in Pcs

-----------------------------------------------------------------------------
\* The origins the slots of the next branches hold, oldest first.
RecentOrigins ==
    LET n == IF branches < Distance THEN branches ELSE Distance
    IN  [k \in 1 .. n |->
            At(buf, AddId(buf.readId, Distance - n + k - 1)).gen]

\* The predictor does what AheadOracle promises.
Oracle == INSTANCE AheadOracle
            WITH recent <- RecentOrigins,
                 current <- IF state = "PREDICTED" THEN lastIp ELSE None,
                 resolved <- branches

\* The slots of the circular buffer implement the promise of AheadOracle
\* (get_prediction, commit_state and deallocate_front together).
ImplementsOracle == Oracle!OracleSpec
=============================================================================
