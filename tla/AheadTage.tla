----------------------------- MODULE AheadTage -----------------------------
(***************************************************************************)
(* The ahead TAGE predictor of branch/ahead_tage.  As in AheadPredictor    *)
(* every instruction asks for the prediction of the branch Distance        *)
(* branches ahead, but here TAGE answers for every value the hash of the   *)
(* branches in between may take.  The answers wait in                      *)
(* future_tage_response_delay_queue, whose entries also record the outcome *)
(* of the branch that made them; when the branch arrives, the hash of the  *)
(* outcomes of the newest Distance entries picks one answer.               *)
(*                                                                         *)
(* An answer is abstracted to its origin, the hash to the branches whose   *)
(* outcomes it covers, and the single-cycle BTB (module L0Btb) to its bit  *)
(* use_bm.  FFP_USE_LATE_PRED is 1, so no answer is ever too late.         *)
(* TAGE's tables and history registers are not tracked.                    *)
(***************************************************************************)
EXTENDS CircularBuffer, Sequences

CONSTANTS
    AheadPcs,       \* branch addresses
    None            \* no address, no answer

Origins == [pc : AheadPcs, at : Nat]
Hashes  == [1 .. Distance -> Nat]
Answers == [gen : Origins, hash : Hashes]

ASSUME AheadAssumption == None \notin AheadPcs /\ None \notin Answers

VARIABLES
    buf,        \* prediction_info_buffer_
    queue,      \* future_tage_response_delay_queue
    state,
    lastIp,
    id,
    branches,   \* number of branches resolved
    consulted,  \* answer TAGE gave for the current branch, or None
    source,     \* where the final prediction came from: "tage" or "btb"
    trained,    \* answer the last branch trained TAGE with, or None
    aborted

vars == <<buf, queue, state, lastIp, id, branches, consulted, source, trained,
          aborted>>

\* tage_prediction_valid, br_pc_used_for_pred_gen, tag2 and updated_history
Empty == [valid |-> FALSE, gen |-> None, hash |-> None, updated |-> FALSE]

Slots   == [valid : BOOLEAN, gen : Origins \cup {None}, hash : Hashes \cup {None},
            updated : BOOLEAN]
Entries == [branchId : Ids, gen : Origins, outcome : Nat \cup {None}]

Init ==
    /\ buf = NewBuffer(Empty)
    /\ queue = << >>
    /\ state = "NONE"
    /\ lastIp = None
    /\ id = 0
    /\ branches = 0
    /\ consulted = None
    /\ source = "btb"
    /\ trained = None
    /\ aborted = FALSE

Abort == /\ aborted' = TRUE
         /\ UNCHANGED <<buf, queue, state, lastIp, id, branches, consulted,
                        source, trained>>

FrontOf(q) == Head(q)
Back(q)  == q[Len(q)]
PopBack(q) == SubSeq(q, 1, Len(q) - 1)

(***************************************************************************)
(* commit_state_at_retire.  A branch frees its slot, and its queue entry   *)
(* if it has one (the first Distance branches have none); an instruction   *)
(* that was no branch takes back the entry it appended.                    *)
(***************************************************************************)
RetireAsserts(b, q, i) ==
    /\ InBuffer(b, i)
    /\ q # << >>
    /\ IF At(b, i).updated THEN i = b.readId
       ELSE Back(q).branchId = AddId(i, Distance)

RetiredBuffer(b, i) ==
    IF At(b, i).updated THEN DeallocateFront(b, i, Empty) ELSE b

\* Mutated forms of RetiredQueue: the entry of a non-branch is left behind; the
\* front goes whether or not it is this branch's.
RetiredQueueKeeps(b, q, i) ==
    IF At(b, i).updated /\ FrontOf(q).branchId = i THEN Tail(q) ELSE q
RetiredQueueAlways(b, q, i) ==
    IF At(b, i).updated THEN Tail(q) ELSE PopBack(q)

RetiredQueue(b, q, i) ==
    IF ~At(b, i).updated THEN PopBack(q)
    ELSE IF FrontOf(q).branchId = i THEN Tail(q) ELSE q

\* Mutated form of HashedBranches: the newest entry is skipped.
HashedBranchesStale(q) ==
    LET n == IF Len(q) - 1 < Distance THEN Len(q) - 1 ELSE Distance
    IN  [j \in 1 .. n |-> q[Len(q) - j].outcome]

\* get_recent_hist_hash: the outcomes of the newest Distance entries, newest
\* first.
HashedBranches(q) ==
    LET n == IF Len(q) < Distance THEN Len(q) ELSE Distance
    IN  [j \in 1 .. n |-> q[Len(q) - j + 1].outcome]

\* The first entry made for branch i.
Found(q, i) == \E j \in 1 .. Len(q) : q[j].branchId = i
EntryFor(q, i) ==
    q[CHOOSE j \in 1 .. Len(q) :
        /\ q[j].branchId = i
        /\ \A h \in 1 .. j - 1 : q[h].branchId # i]

\* Mutated form of PickedAnswer: the front is taken for the branch's entry.
PickedFront(b, q, i) ==
    IF At(b, i).valid /\ q # << >>
    THEN [gen |-> Back(q).gen, hash |-> HashedBranches(q)] ELSE None

\* The answer for branch i: that of its entry under the current hash.
PickedAnswer(b, q, i) ==
    IF At(b, i).valid /\ Found(q, i)
    THEN [gen |-> EntryFor(q, i).gen, hash |-> HashedBranches(q)]
    ELSE None

NewEntry(i, ip) ==
    [branchId |-> AddId(i, Distance), gen |-> [pc |-> ip, at |-> branches],
     outcome |-> None]

\* tag2 of the slot is set when its entry is found
RememberHash(b, i, answer) ==
    IF answer = None THEN b
    ELSE Put(b, i, [At(b, i) EXCEPT !.hash = answer.hash])

Generated(b, i, ip) ==
    LET ahead == AddId(i, Distance)
    IN  Put(b, ahead, [At(b, ahead) EXCEPT
                          !.valid = TRUE, !.gen = [pc |-> ip, at |-> branches]])

PredictBranch(ip, useBm) ==
    LET retires == state = "PREDICTED"
        b == IF retires THEN RetiredBuffer(buf, id) ELSE buf
        q == IF retires THEN RetiredQueue(buf, queue, id) ELSE queue
        i == b.readId
        answer == PickedAnswer(b, q, i)
    IN  /\ ~aborted
        /\ IF /\ retires => RetireAsserts(buf, queue, id)
              /\ InBuffer(b, i)
              /\ InBuffer(b, AddId(i, Distance))
           THEN /\ consulted' = answer
                /\ source' = IF answer # None /\ ~useBm THEN "tage" ELSE "btb"
                /\ buf' = Generated(RememberHash(b, i, answer), i, ip)
                /\ queue' = Append(q, NewEntry(i, ip))
                /\ id' = i
                /\ lastIp' = ip
                /\ state' = "PREDICTED"
                /\ UNCHANGED <<branches, trained, aborted>>
           ELSE Abort

\* update_speculative_state: the newest entry is this branch's own, and takes
\* its outcome.
SpeculativeAsserts(q, i) == q # << >> /\ Back(q).branchId = AddId(i, Distance)
WithOutcome(q) == [q EXCEPT ![Len(q)] = [@ EXCEPT !.outcome = branches]]

\* Mutated form of Trained: the hash is computed afresh, when the queue already
\* holds the branch's own entry.
TrainedRehashed(b, q, i, conditional) ==
    IF conditional /\ At(b, i).valid
    THEN [gen |-> At(b, i).gen, hash |-> HashedBranches(q)] ELSE None

\* commit_state: a conditional branch trains the answer under the hash it was
\* picked by, whichever predictor was believed.
Trained(b, q, i, conditional) ==
    IF conditional /\ At(b, i).valid
    THEN [gen |-> At(b, i).gen, hash |-> At(b, i).hash] ELSE None

LastBranchResult(ip, conditional) ==
    LET b == Put(buf, id, [At(buf, id) EXCEPT !.updated = TRUE])
        q == WithOutcome(queue)
    IN  /\ ~aborted
        /\ IF /\ state = "PREDICTED"
              /\ lastIp = ip
              /\ InBuffer(buf, id)
              /\ SpeculativeAsserts(queue, id)
              /\ RetireAsserts(b, q, id)
           THEN /\ branches' = branches + 1
                /\ trained' = Trained(b, q, id, conditional)
                /\ buf' = RetiredBuffer(b, id)
                /\ queue' = RetiredQueue(b, q, id)
                /\ state' = "NONE"
                /\ UNCHANGED <<lastIp, id, consulted, source, aborted>>
           ELSE Abort

Next ==
    \/ \E ip \in AheadPcs, useBm \in BOOLEAN : PredictBranch(ip, useBm)
    \/ \E conditional \in BOOLEAN :
          state = "PREDICTED" /\ LastBranchResult(lastIp, conditional)

Spec == Init /\ [][Next]_vars
-----------------------------------------------------------------------------
\* Every variable has its type.
TypeOK ==
    /\ buf \in [slot : [Index -> Slots], readId : Ids, allocId : Ids]
    /\ queue \in Seq(Entries)
    /\ state \in {"NONE", "PREDICTED"}
    /\ lastIp \in AheadPcs \cup {None}
    /\ id \in Ids
    /\ branches \in Nat
    /\ consulted \in Answers \cup {None}
    /\ source \in {"tage", "btb"}
    /\ trained \in Answers \cup {None}
    /\ aborted \in BOOLEAN

\* The queue holds one entry for each of the next Distance branches that has
\* been predicted for, in order, and one more while an instruction waits to be
\* known as a branch; each knows the outcome of the branch that made it.
QueueIsWindow ==
    LET first == IF branches < Distance THEN Distance ELSE branches
        next  == branches + Distance
        n     == next - first + IF state = "PREDICTED" THEN 1 ELSE 0
    IN  /\ Len(queue) = n
        /\ \A k \in 1 .. n :
              LET made == first + k - 1 - Distance
              IN  /\ queue[k].branchId = first + k - 1
                  /\ queue[k].gen.at = made
                  /\ queue[k].outcome = IF made < branches THEN made ELSE None

\* A slot marked valid has exactly one queue entry, generated together with it,
\* so that tag2 and final_prediction are never left unset.
SlotAndQueueAgree ==
    \A k \in 0 .. Distance :
        LET i == branches + k
            s == buf.slot[PhysicalIndex(i)]
        IN  i < IdMod /\ s.valid =>
               \E j \in 1 .. Len(queue) :
                  /\ queue[j].branchId = i
                  /\ queue[j].gen = s.gen
                  /\ \A h \in 1 .. Len(queue) : queue[h].branchId = i => h = j

\* The hash covers exactly the branches between the one that made the answer
\* and the one that uses it: never a non-branch, never one too few.
HashCoversTheGap ==
    consulted # None /\ state = "PREDICTED" =>
        /\ consulted.gen.at = branches - Distance
        /\ consulted.hash = [j \in 1 .. Distance |-> branches - j]

\* Once Distance branches have resolved TAGE always has an answer.
AlwaysConsulted ==
    state = "PREDICTED" /\ branches >= Distance => consulted # None

\* A branch trains exactly the answer that was picked for it, under the same
\* hash (commit_state reads back tag2).
TrainsWhatWasPicked ==
    [][trained' # trained => trained' \in {consulted, None}]_vars

\* The queue is the window of branches predicted for (QueueIsWindow) and agrees with
\* the slots (SlotAndQueueAgree); an answer is picked by the hash of exactly the missing
\* branches (HashCoversTheGap), and once there are enough there always is one
\* (AlwaysConsulted).
QueueSound ==
    /\ TypeOK
    /\ QueueIsWindow /\ SlotAndQueueAgree /\ HashCoversTheGap /\ AlwaysConsulted

RecentOrigins ==
    LET n == IF branches < Distance THEN branches ELSE Distance
    IN  [k \in 1 .. n |->
            At(buf, AddId(buf.readId, Distance - n + k - 1)).gen]

OriginOf(answer) == IF answer = None THEN None ELSE answer.gen

Oracle == INSTANCE AheadOracle
            WITH Pcs <- AheadPcs,
                 recent <- RecentOrigins,
                 current <- IF state = "PREDICTED" THEN lastIp ELSE None,
                 resolved <- branches,
                 served <- OriginOf(consulted),
                 trained <- OriginOf(trained)

\* The slots and the delay queue together implement AheadOracle.
ImplementsOracle == Oracle!OracleSpec
=============================================================================
