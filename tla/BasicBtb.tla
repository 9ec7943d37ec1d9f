------------------------------ MODULE BasicBtb ------------------------------
(***************************************************************************)
(* The BTBs that look one block ahead, btb/basic_btb and its copies with   *)
(* other sizes, driven by do_predict_branch of the core: every instruction *)
(* of the trace is looked up, and a branch updates at once.                *)
(*                                                                         *)
(* An entry is found by the start of the block the instruction is in; the  *)
(* table may evict any entry at any time (see LruTable for its order).     *)
(* Calls and returns of the trace match.  The statistics are left out.     *)
(***************************************************************************)
EXTENDS PredictorTables, SequencesExt, Functions

CONSTANTS
    CodeKind,       \* the type of the instruction at an address
    CodeTargets,    \* where it may go when taken, but for returns
    CallLength,     \* length of the call at an address
    FirstIp,
    BasicRasSize, IndirectSize, CallSizes, BasicHistoryLength,
    MaxCallDepth    \* bound on the calls of the trace

CallTypes == {"DIRECT_CALL", "INDIRECT_CALL"}
IndirectTypes == {"INDIRECT", "INDIRECT_CALL"}
ConditionalTypes == {"CONDITIONAL", "OTHER"}
CodeIps == DOMAIN CodeKind

ASSUME BasicBtbAssumption ==
    /\ CodeIps \subseteq Nat \ {0} /\ FirstIp \in CodeIps
    /\ CodeTargets \in [CodeIps -> SUBSET CodeIps] /\ CallLength \in [CodeIps -> Nat]
    /\ \A i \in CodeIps :
        /\ CodeKind[i] \in {"NOT_BRANCH"} \cup ConditionalTypes => i + 1 \in CodeIps
        /\ CodeKind[i] \in CallTypes => i + CallLength[i] \in CodeIps
    /\ {BasicRasSize, IndirectSize, CallSizes, BasicHistoryLength} \subseteq Nat \ {0}
    /\ MaxCallDepth \in Nat

VARIABLES
    ip,         \* the instruction to come
    btb,        \* entries [ip, target, info] by start of block, a partial function
    indirect,   \* INDIRECT_BTB
    pastTaken,  \* CONDITIONAL_HISTORY, a number with the newest outcome as bit 0
    callStack,  \* RAS, newest last
    sizeOf,     \* CALL_SIZE
    fetchAddr, newFetchBlock, queued,
    outcome,    \* ghost: the last prediction and what came
    open,       \* ghost: the calls not yet returned to
    returned    \* ghost: the calls that were returned to, while nothing else used their
                \* place in CALL_SIZE, but for those too long for it

basicVars == <<ip, btb, indirect, pastTaken, callStack, sizeOf, fetchAddr, newFetchBlock, queued,
               outcome, open, returned>>

SizeSlot(call) == call % CallSizes

\* A longer instruction is taken for no call.
MaxCallSize == 10

BasicIndirectSlot(at) == (at ## pastTaken) % IndirectSize

InfoOf(kind) ==
    CASE kind \in IndirectTypes    -> "INDIRECT"
      [] kind = "RETURN"           -> "RETURN"
      [] kind \in ConditionalTypes -> "CONDITIONAL"
      [] OTHER                     -> "ALWAYS_TAKEN"

BlockStart == IF newFetchBlock THEN ip ELSE fetchAddr

\* btb_prediction
BasicPredicted ==
    IF BlockStart \notin DOMAIN btb THEN [hit |-> FALSE, target |-> 0, always |-> FALSE]
    ELSE LET e == btb[BlockStart] IN
         CASE e.info = "RETURN"   ->
                [hit |-> TRUE, always |-> TRUE,
                 target |-> IF callStack = << >> THEN 0
                            ELSE Last(callStack) + sizeOf[SizeSlot(Last(callStack))]]
           [] e.info = "INDIRECT" ->
                [hit |-> TRUE, always |-> TRUE,
                 target |-> indirect[BasicIndirectSlot(ip)]]
           [] OTHER ->
                [hit |-> TRUE, always |-> e.info # "CONDITIONAL", target |-> e.target]

Asked(p) == Append(queued, <<ip, p.target, p.hit>>)

\* An instruction that is no branch
Step ==
    /\ CodeKind[ip] = "NOT_BRANCH"
    /\ queued' = Asked(BasicPredicted)
    /\ fetchAddr' = BlockStart /\ newFetchBlock' = FALSE
    /\ ip' = ip + 1
    /\ outcome' = [outcome EXCEPT !.kind = "NOT_BRANCH"]
    /\ UNCHANGED <<btb, indirect, pastTaken, callStack, sizeOf, open, returned>>

\* Mutated form of CallPushed: a full stack loses its newest call.
CallPushedOver(call) ==
    IF Len(callStack) = BasicRasSize THEN Append(Front(callStack), call) ELSE Append(callStack, call)

CallPushed(call) ==
    IF Len(callStack) = BasicRasSize THEN Append(Tail(callStack), call) ELSE Append(callStack, call)

\* Size of the call as the return shows it, if it may be one
Learned(call, target) ==
    LET size == IF call > target THEN call - target ELSE target - call
    IN  IF size <= MaxCallSize THEN [sizeOf EXCEPT ![SizeSlot(call)] = size] ELSE sizeOf

\* An entry that is found is given the type and target of the branch, and kept: a branch
\* that is not taken has no target and changes nothing.
Entered(b, start, kind, target) ==
    IF target = 0 THEN b
    ELSE LET e == [ip     |-> IF start \in DOMAIN b THEN b[start].ip ELSE ip,
                   target |-> target, info |-> InfoOf(kind)]
         IN  [s \in DOMAIN b \cup {start} |-> IF s = start THEN e ELSE b[s]]

\* update_btb, but for the table
Updated(kind, target, taken) ==
    /\ callStack' =
        CASE kind \in CallTypes -> CallPushed(ip)
          [] kind = "RETURN" /\ callStack # << >> -> Front(callStack)
          [] OTHER -> callStack
    /\ indirect' = IF kind \in IndirectTypes THEN [indirect EXCEPT ![BasicIndirectSlot(ip)] = target]
                   ELSE indirect
    /\ pastTaken' =
        IF kind \in ConditionalTypes THEN (2 * pastTaken + Bit01(taken)) % 2 ^ BasicHistoryLength
        ELSE pastTaken
    /\ sizeOf' = IF kind = "RETURN" /\ callStack # << >> THEN Learned(Last(callStack), target)
                 ELSE sizeOf
    /\ newFetchBlock' = TRUE

\* Where a branch goes, and whether it is taken
TargetWays(kind) ==
    CASE kind = "RETURN" -> IF open = << >> THEN {} ELSE {<<Last(open) + CallLength[Last(open)], TRUE>>}
      [] kind \in ConditionalTypes ->
            {<<0, FALSE>>} \cup {<<t, TRUE>> : t \in CodeTargets[ip]}
      [] OTHER -> {<<t, TRUE>> : t \in CodeTargets[ip]}

Branch ==
    LET kind == CodeKind[ip] IN
    /\ kind # "NOT_BRANCH"
    /\ kind \in CallTypes => Len(open) < MaxCallDepth
    /\ \E way \in TargetWays(kind) : LET target == way[1] taken == way[2] IN
        /\ Updated(kind, target, taken)
        /\ fetchAddr' = BlockStart
        /\ btb' = Entered(btb, BlockStart, kind, target)
        /\ ip' = IF taken THEN target ELSE ip + 1
        /\ queued' = << >>
        /\ open' = CASE kind \in CallTypes -> Append(open, ip)
                     [] kind = "RETURN"    -> Front(open)
                     [] OTHER -> open
        /\ outcome' = [kind |-> kind, predicted |-> BasicPredicted.target, came |-> target,
                       hit  |-> BasicPredicted.hit,
                       due  |-> /\ BasicPredicted.hit /\ btb[BlockStart].info = "RETURN"
                                /\ kind = "RETURN" /\ Last(open) \in returned
                                /\ open = << >> \/ callStack # << >>]
        /\ returned' = IF kind = "RETURN" /\ callStack # << >>
                       THEN {c \in returned : SizeSlot(c) # SizeSlot(Last(open))}
                            \cup {c \in {Last(open)} : CallLength[c] <= MaxCallSize}
                       ELSE returned

Evict(start) ==
    /\ start \in DOMAIN btb
    /\ btb' = Restrict(btb, DOMAIN btb \ {start})
    /\ UNCHANGED <<ip, indirect, pastTaken, callStack, sizeOf, fetchAddr, newFetchBlock, queued,
                   outcome, open, returned>>

BasicInit ==
    /\ ip = FirstIp /\ btb = << >> /\ indirect = [s \in 0 .. IndirectSize - 1 |-> 0]
    /\ pastTaken = 0 /\ callStack = << >>
    /\ sizeOf = [s \in 0 .. CallSizes - 1 |-> 4]
    /\ fetchAddr = 0 /\ newFetchBlock = TRUE /\ queued = << >>
    /\ outcome = [kind |-> "NOT_BRANCH", predicted |-> 0, came |-> 0, hit |-> FALSE, due |-> FALSE]
    /\ open = << >> /\ returned = {}

BasicNext == Step \/ Branch \/ \E start \in DOMAIN btb : Evict(start)

BasicSpec == BasicInit /\ [][BasicNext]_basicVars

-----------------------------------------------------------------------------
\* The stack holds the latest calls of those not returned to, also after it was too small
\* for them; so a return to a call that was returned to before is predicted right, when
\* the entry of its block is that of a return.
ReturnsPredicted ==
    /\ \E n \in 0 .. Len(open) : callStack = SubSeq(open, n + 1, Len(open))
    /\ outcome.due => outcome.predicted = outcome.came

\* The branch that ends a block in the code
Ends(start, e) ==
    /\ start <= e /\ CodeKind[e] # "NOT_BRANCH"
    /\ \A i \in CodeIps : start <= i /\ i < e => CodeKind[i] = "NOT_BRANCH"

EndOf(start) == CHOOSE e \in CodeIps : Ends(start, e)

\* An entry is of the branch that ends the block it is found by, whatever the path that
\* came to the block, and has its type.
EntryIsOfItsBranch ==
    \A start \in DOMAIN btb :
        /\ btb[start].ip = EndOf(start)
        /\ btb[start].info = InfoOf(CodeKind[EndOf(start)])

BasicBtbSound == ReturnsPredicted /\ EntryIsOfItsBranch
=============================================================================
