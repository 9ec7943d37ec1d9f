--------------------------- MODULE MultiBlockBtb ---------------------------
(***************************************************************************)
(* The multi-block-ahead BTB of btb/multi_cycle_multi_block_ahead_btb (the *)
(* single-cycle one differs in its sizes only).  A block is found through  *)
(* the branch BEFORE it: an entry of the MBTB is keyed by that branch, the *)
(* start of its block, and the transition it made (T taken, N not taken, R *)
(* the return to a call).  What follows a return is found through the call *)
(* it returns to: the call snapshots the entry of its R transition into    *)
(* the SAS, next to the RAS, and the return moves the snapshot to          *)
(* PENDING_SAS_ENTRY for the prediction after it.                          *)
(*                                                                         *)
(* The MBTB and INDIRECT_BTB are caches whose contents other branches may  *)
(* evict: a lookup may hit or miss and yield any entry.  What is tracked   *)
(* is where they are read and written.  Statistics are left out.           *)
(***************************************************************************)
EXTENDS Integers, Sequences, SequencesExt

CONSTANTS
    Ips,            \* addresses of the instructions, naturals
    Kind,           \* the type of the instruction at an address
    Targets,        \* branch targets, naturals; 0 for none
    StackSize,      \* RAS_SIZE = SAS_SIZE = 64
    HistoryLength,  \* width of CONDITIONAL_HISTORY
    Answers,        \* what the MBTB may answer: the type of an entry, or a miss
    MaxRun          \* bound: instructions between two branches

Calls     == {"DIRECT_CALL", "INDIRECT_CALL"}
Indirects == {"INDIRECT", "INDIRECT_CALL"}
Conditionals == {"CONDITIONAL", "OTHER"}
Kinds == Calls \cup Indirects \cup Conditionals
            \cup {"DIRECT_JUMP", "RETURN", "NOT_BRANCH"}

Infos == {"INDIRECT", "RETURN", "ALWAYS_TAKEN", "CONDITIONAL"}
Miss  == "MISS"

ASSUME BtbAssumption ==
    /\ Ips \subseteq Nat \ {0}
    /\ Kind \in [Ips -> Kinds]
    /\ Targets \subseteq Nat
    /\ StackSize \in Nat \ {0}
    /\ HistoryLength \in Nat \ {0}
    /\ Answers \subseteq Infos \cup {Miss}
    /\ MaxRun \in Nat

VARIABLES
    ras,            \* RAS: the addresses of the calls, newest last
    sas,            \* SAS: [info, blockStart], newest last
    history,        \* CONDITIONAL_HISTORY, newest outcome first
    callSize,       \* CALL_SIZE, by call
    lastIp, lastBlock, lastTransition,
    wasReturn,      \* LAST_BRANCH_WAS_RETURN
    returnCall,     \* LAST_RETURN_CALL_IP
    pendingSas,     \* PENDING_SAS_ENTRY
    curBlock, newBlock,     \* CUR_BLOCK_START, NEW_BLOCK_PENDING
    predQueue,      \* PRED_QUEUE, the addresses
    current,        \* branch predicted and not yet updated, or 0
    prediction,     \* what was predicted for current
    lookup,         \* key and INDIRECT_BTB slot that prediction would read
    update,         \* where the step before wrote, if it was an update
    calls,          \* history: the calls not yet returned to, with their block
    returnedTo      \* history: the call the last branch returned to, if any

stacks == <<ras, sas, calls>>
last   == <<lastIp, lastBlock, lastTransition, wasReturn, returnCall, pendingSas>>
multiVars   == <<stacks, history, callSize, last, curBlock, newBlock, predQueue,
            current, prediction, lookup, update, returnedTo>>

Snapshot(info, block) == [info |-> info, blockStart |-> block]
Valid(s) == s.info # Miss

Key(ip, block, transition) ==
    [ip |-> ip, block |-> block, transition |-> transition]
Slot(ip, transition) == [ip |-> ip, history |-> history, transition |-> transition]

NoCall == <<0, 0>>
Nothing == << >>

MultiInit ==
    /\ ras = << >> /\ sas = << >> /\ calls = << >>
    /\ history = [i \in 1 .. HistoryLength |-> FALSE]
    /\ callSize = [ip \in {i \in Ips : Kind[i] \in Calls} |-> 4]
    /\ lastIp = 0 /\ lastBlock = 0 /\ lastTransition = "N"
    /\ wasReturn = FALSE /\ returnCall = 0 /\ pendingSas = Snapshot(Miss, 0)
    /\ curBlock = 0 /\ newBlock = FALSE
    /\ predQueue = << >>
    /\ current = 0
    /\ prediction = Nothing /\ lookup = Nothing /\ update = Nothing
    /\ returnedTo = NoCall

\* Looked up by the branch after it, a call is a taken branch.
Succ(transition) == IF transition = "R" THEN "T" ELSE transition

AfterReturn == wasReturn /\ Valid(pendingSas)

\* The INDIRECT_BTB slot btb_prediction reads for the branch after the last one.
IndirectSlot ==
    IF AfterReturn THEN Slot(returnCall, "R")
    ELSE Slot(lastIp, Succ(lastTransition))

\* Mutated form of UpdatedSlot: a return whose snapshot missed is looked through.
UpdatedSlotAnyReturn ==
    IF wasReturn THEN Slot(returnCall, "R") ELSE Slot(lastIp, Succ(lastTransition))

\* The slot update_btb writes for that branch: a hash of its own.
UpdatedSlot ==
    IF AfterReturn THEN Slot(returnCall, "R")
    ELSE Slot(lastIp, Succ(lastTransition))

\* The target and direction a hit of this type predicts; stored is the target
\* in the entry, or in the INDIRECT_BTB.
Predicted(info, stored) ==
    CASE info = Miss -> [target |-> 0, alwaysTaken |-> FALSE]
      [] info = "RETURN" ->
            [target |-> IF ras = << >> THEN 0 ELSE Last(ras) + callSize[Last(ras)],
             alwaysTaken |-> TRUE]
      [] info = "CONDITIONAL" -> [target |-> stored, alwaysTaken |-> FALSE]
      [] OTHER -> [target |-> stored, alwaysTaken |-> TRUE]

(***************************************************************************)
(* btb_prediction, for every instruction: hit is what the MBTB answers,    *)
(* which only counts when no snapshot is pending.                          *)
(***************************************************************************)
Predict(ip, hit, stored) ==
    /\ current = 0
    /\ Kind[ip] = "NOT_BRANCH" => Len(predQueue) < MaxRun
    /\ curBlock' = IF newBlock THEN ip ELSE curBlock
    /\ newBlock' = FALSE
    /\ prediction' = IF Kind[ip] = "NOT_BRANCH" THEN Nothing
                     ELSE Predicted(IF AfterReturn THEN pendingSas.info ELSE hit, stored)
    /\ lookup' = IF Kind[ip] = "NOT_BRANCH" THEN Nothing
                 ELSE [key |-> Key(lastIp, lastBlock, Succ(lastTransition)),
                       slot |-> IndirectSlot]
    /\ predQueue' = Append(predQueue, ip)
    /\ current' = IF Kind[ip] = "NOT_BRANCH" THEN 0 ELSE ip
    /\ update' = Nothing
    /\ UNCHANGED <<stacks, history, callSize, last, returnedTo>>

\* Mutated form of Drained: only the front is taken.
DrainedOne(q, ip) == Tail(q)

\* What is left of PRED_QUEUE once the entry of ip is reached.
Drained(q, ip) ==
    LET hits == {i \in 1 .. Len(q) : q[i] = ip}
    IN  IF hits = {} THEN << >>
        ELSE SubSeq(q, (CHOOSE i \in hits : \A j \in hits : i <= j) + 1, Len(q))

\* A stack of at most StackSize entries: the oldest falls out.
Pushed(s, e) ==
    LET t == Append(s, e) IN IF Len(t) > StackSize THEN Tail(t) ELSE t

\* Mutated form of PushedSas: the SAS is not trimmed with the RAS.
PushedSasUntrimmed(s, e) == Append(s, e)
PushedSas(s, e) == Pushed(s, e)

Transition(kind, taken) ==
    IF kind \in Calls THEN "R"
    ELSE IF taken /\ kind # "RETURN" THEN "T" ELSE "N"

\* Mutated form of WrittenKey: the transition of a call is kept as it is.
WrittenKeyRaw ==
    IF wasReturn THEN Key(returnCall, pendingSas.blockStart, "R")
    ELSE Key(lastIp, lastBlock, lastTransition)

\* The entry update_btb writes: the one of the last branch, or of the call the
\* last branch returned to.
WrittenKey ==
    IF wasReturn THEN Key(returnCall, pendingSas.blockStart, "R")
    ELSE Key(lastIp, lastBlock, Succ(lastTransition))

Abs(x) == IF x < 0 THEN -x ELSE x

\* Mutated form of DroppedPending: the snapshot outlives the branch after it.
DroppedPendingKept == pendingSas

\* PENDING_SAS_ENTRY.valid = false.
DroppedPending == [pendingSas EXCEPT !.info = Miss]

\* CALL: the call and the snapshot of what followed its last return.
PushCall(ip, info) ==
    /\ ras' = Pushed(ras, ip)
    /\ sas' = PushedSas(sas, Snapshot(info, curBlock))
    /\ calls' = Pushed(calls, <<ip, curBlock>>)
    /\ returnedTo' = NoCall
    /\ UNCHANGED callSize
    /\ wasReturn' = FALSE
    /\ pendingSas' = DroppedPending
    /\ UNCHANGED returnCall

\* RETURN with a call to return to: learn the length of the call instruction,
\* and hand the snapshot to the next prediction.
PopCall(target) ==
    LET call == Last(ras)
        size == Abs(call - target)
    IN  /\ ras' = Front(ras)
        /\ sas' = IF sas = << >> THEN sas ELSE Front(sas)
        /\ calls' = Front(calls)
        /\ returnedTo' = Last(calls)
        /\ callSize' = IF size <= 10 THEN [callSize EXCEPT ![call] = size]
                       ELSE callSize
        /\ wasReturn' = TRUE
        /\ returnCall' = call
        /\ pendingSas' = IF sas = << >> THEN Snapshot(Miss, 0) ELSE Last(sas)

\* Every other branch.
NoStack ==
    /\ UNCHANGED <<stacks, callSize, returnCall>>
    /\ returnedTo' = NoCall
    /\ wasReturn' = FALSE
    /\ pendingSas' = DroppedPending

(***************************************************************************)
(* update_btb of the branch just predicted; info is what the MBTB answers  *)
(* a call for its snapshot.  Only conditional branches fall through, and   *)
(* their target is then 0: such an update writes no entry, though it looks *)
(* for one under the same key.                                             *)
(***************************************************************************)
Update(target, taken, info) ==
    LET ip == current
        kind == Kind[ip]
    IN  /\ current # 0
        /\ kind \notin Conditionals => taken
        /\ taken <=> target # 0
        /\ \/ kind \in Calls /\ PushCall(ip, info)
           \/ kind = "RETURN" /\ ras # << >> /\ PopCall(target)
           \/ /\ kind \notin Calls
              /\ kind = "RETURN" => ras = << >>
              /\ NoStack
        /\ predQueue' = Drained(predQueue, ip)
        /\ history' = IF kind \in Conditionals
                      THEN [i \in 1 .. HistoryLength |->
                              IF i = 1 THEN taken ELSE history[i - 1]]
                      ELSE history
        /\ update' = [key |-> WrittenKey, slot |-> UpdatedSlot, lookup |-> lookup,
                      call |-> returnedTo]
        /\ lastIp' = ip
        /\ lastTransition' = Transition(kind, taken)
        /\ lastBlock' = curBlock
        /\ newBlock' = TRUE
        /\ current' = 0
        /\ prediction' = Nothing /\ lookup' = Nothing
        /\ UNCHANGED curBlock

MultiNext ==
    \/ \E ip \in Ips, hit \in Answers, stored \in Targets :
          Predict(ip, hit, stored)
    \/ \E target \in Targets, taken \in BOOLEAN, info \in Answers :
          Update(target, taken, info)

MultiSpec == MultiInit /\ [][MultiNext]_multiVars
-----------------------------------------------------------------------------
\* RAS and SAS keep step: as many entries, no more than their size, and each
\* snapshot belongs to the call beside it, however calls overflow and returns
\* underflow the stacks.
StacksPaired ==
    /\ Len(ras) = Len(calls) /\ Len(sas) = Len(calls)
    /\ Len(calls) <= StackSize
    /\ \A i \in 1 .. Len(calls) :
          ras[i] = calls[i][1] /\ sas[i].blockStart = calls[i][2]

\* The pending snapshot and LAST_RETURN_CALL_IP are those of the call the last
\* branch returned to, and are dropped after any other branch.
PendingIsOfLastReturn ==
    /\ wasReturn <=> returnedTo # NoCall
    /\ wasReturn => <<returnCall, pendingSas.blockStart>> = returnedTo
    /\ ~wasReturn => ~Valid(pendingSas)

\* An update writes the entry the prediction of that branch was looked up by,
\* except after a return: then it writes the R entry of the call returned to,
\* the one the next execution of that call snapshots.
WrittenWhereItIsReadNext ==
    update # Nothing =>
        update.key = IF update.call = NoCall THEN update.lookup.key
                     ELSE Key(update.call[1], update.call[2], "R")

\* The target of an indirect branch is stored in the slot it was read from,
\* after a return too (the two hashes of btb_prediction and update_btb).
IndirectReadWhereWritten ==
    update # Nothing => update.slot = update.lookup.slot

\* PRED_QUEUE holds the instructions since the last branch and nothing else.
QueueSinceLastBranch ==
    \A i \in 1 .. Len(predQueue) :
        IF i = Len(predQueue) /\ current # 0 THEN predQueue[i] = current
        ELSE Kind[predQueue[i]] = "NOT_BRANCH"

\* A return is predicted by the call it returns to: the return stacks move together
\* (StacksPaired), and the target in flight is that of the last return
\* (PendingIsOfLastReturn).
ReturnsMatchCalls == StacksPaired /\ PendingIsOfLastReturn

\* A block is trained where the next prediction for it looks (WrittenWhereItIsReadNext,
\* IndirectReadWhereWritten), and with what was predicted since the last branch
\* (QueueSinceLastBranch).
TrainsWhereItReads ==
    WrittenWhereItIsReadNext /\ IndirectReadWhereWritten /\ QueueSinceLastBranch
=============================================================================
