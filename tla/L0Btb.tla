------------------------------- MODULE L0Btb -------------------------------
(***************************************************************************)
(* One set of the single-cycle BTB of branch/ahead_tage/btb.hpp, and the   *)
(* part of commit_state (ahead_tage_wrapper.hpp) that trains it.  An entry *)
(* holds the two-bit direction counter and the bit use_bm by which the     *)
(* wrapper prefers the counter to TAGE's late answer.                      *)
(*                                                                         *)
(* A branch is committed right after it was predicted, so btb_prediction,  *)
(* kept in the prediction info, is what the set answers before the commit. *)
(* Targets are not tracked: nothing reads them.                            *)
(***************************************************************************)
EXTENDS Naturals, FiniteSets, FiniteSetsExt

CONSTANTS
    Pcs,        \* branches that map to the set
    Assoc,      \* ASSOC: 4
    Thresh,     \* FFP_BM_THRESH: 2
    None

CounterMax == 3
BmMax      == 7
Ways       == 0 .. Assoc - 1

ASSUME L0Assumption ==
    /\ Assoc \in Nat \ {0}
    /\ Thresh \in 0 .. BmMax - 1
    /\ None \notin Pcs

VARIABLES
    ways,       \* sets[set]
    lru,        \* lru[set]
    lastTouch   \* when a way was last inserted or touched: the rank of its
                \* last use among the ways, 0 for the oldest

vars == <<ways, lru, lastTouch>>

NoEntry == [valid |-> FALSE, pc |-> None, counter |-> 0, bmCtr |-> 0,
            useBm |-> FALSE]
Entries == [valid : BOOLEAN, pc : Pcs \cup {None}, counter : 0 .. CounterMax,
            bmCtr : 0 .. BmMax, useBm : BOOLEAN]

Init ==
    /\ ways = [w \in Ways |-> NoEntry]
    /\ lru = [w \in Ways |-> 0]
    /\ lastTouch = [w \in Ways |-> 0]

Matches(pc) == {w \in Ways : ways[w].valid /\ ways[w].pc = pc}

\* probe: the first way that matches
Hit(pc) == Matches(pc) # {}
WayOf(pc) == Min(Matches(pc))

\* btb_prediction: with USE_2_BIT_COUNTER_IN_L0 a hit predicts by its counter
L0Predicted(pc) == Hit(pc) /\ ways[WayOf(pc)].counter > 1

\* touch: the ways younger than this one age
Touched(w) ==
    [v \in Ways |-> IF v = w THEN 0
                    ELSE IF lru[v] < lru[w] THEN lru[v] + 1 ELSE lru[v]]

\* What touch is for: the way is now the one used last.
UsedLast(w) ==
    [v \in Ways |-> IF v = w THEN Assoc - 1
                    ELSE IF lastTouch[v] > lastTouch[w] THEN lastTouch[v] - 1
                    ELSE lastTouch[v]]

\* find_victim: the first free way, else the first of the oldest
Victim ==
    LET free == {w \in Ways : ~ways[w].valid}
    IN  IF free # {} THEN Min(free)
        ELSE Min({w \in Ways : \A v \in Ways : lru[v] <= lru[w]})

Insert(pc, counter) ==
    LET w == Victim
    IN  /\ ways' = [ways EXCEPT ![w] =
                      [NoEntry EXCEPT !.valid = TRUE, !.pc = pc,
                                      !.counter = counter]]
        /\ lru' = Touched(w)
        /\ lastTouch' = UsedLast(w)

\* Mutated form of Confidence: a wrong counter loses one point but keeps
\* use_bm, the other side of FFP_KILL_BM_ONE_WRONG without its threshold.
ConfidenceLinger(e, bmCorrect, tageCorrect) ==
    IF bmCorrect /\ ~tageCorrect
    THEN LET c == IF e.bmCtr < BmMax THEN e.bmCtr + 1 ELSE e.bmCtr
         IN  [e EXCEPT !.bmCtr = c, !.useBm = @ \/ c > Thresh]
    ELSE IF ~bmCorrect /\ tageCorrect
    THEN [e EXCEPT !.bmCtr = IF @ > 0 THEN @ - 1 ELSE @]
    ELSE e

\* The confidence in the counter against TAGE: earned a point at a time, lost
\* at the first mistake TAGE would not have made.
Confidence(e, bmCorrect, tageCorrect) ==
    IF bmCorrect /\ ~tageCorrect
    THEN LET c == IF e.bmCtr < BmMax THEN e.bmCtr + 1 ELSE e.bmCtr
         IN  [e EXCEPT !.bmCtr = c, !.useBm = @ \/ c > Thresh]
    ELSE IF ~bmCorrect /\ tageCorrect
    THEN [e EXCEPT !.bmCtr = 0, !.useBm = FALSE]
    ELSE e

Trained(e, taken, bm, tage) ==
    Confidence([e EXCEPT !.counter = IF taken
                                     THEN IF @ < CounterMax THEN @ + 1 ELSE @
                                     ELSE IF @ > 0 THEN @ - 1 ELSE @],
               bm = taken, tage = taken)

CommitTaken(pc, tage) ==
    IF Hit(pc)
    THEN LET w == WayOf(pc)
         IN  /\ ways' = [ways EXCEPT ![w] = Trained(@, TRUE, L0Predicted(pc), tage)]
             /\ lru' = Touched(w)
             /\ lastTouch' = UsedLast(w)
    ELSE Insert(pc, 2)

\* Mutated form of CommitNotTaken: the insertion is decided without the probe.
CommitNotTakenBlind(pc, tage) ==
    IF ~L0Predicted(pc) /\ tage THEN Insert(pc, 1) ELSE UNCHANGED vars

CommitNotTaken(pc, tage) ==
    IF Hit(pc)
    THEN /\ ways' = [ways EXCEPT ![WayOf(pc)] =
                        Trained(@, FALSE, L0Predicted(pc), tage)]
         /\ UNCHANGED <<lru, lastTouch>>
    ELSE IF ~L0Predicted(pc) /\ tage THEN Insert(pc, 1)
    ELSE UNCHANGED vars

\* commit_state of a direct branch; tage is the answer TAGE gave for it.
Next ==
    \E pc \in Pcs, tage \in BOOLEAN :
        CommitTaken(pc, tage) \/ CommitNotTaken(pc, tage)

Spec == Init /\ [][Next]_vars
-----------------------------------------------------------------------------
\* A branch has at most one entry in its set, whichever of the two commit
\* paths inserted it.
OneEntryPerBranch == \A pc \in Pcs : Cardinality(Matches(pc)) <= 1

\* use_bm stands exactly while the counter has beaten TAGE more than Thresh
\* times since its last mistake, and is gone after an eviction.
UseBmIsEarned ==
    \A w \in Ways : ways[w].useBm <=> ways[w].bmCtr > Thresh

\* The replacement the arrays lru and touch() of btb.hpp are there for: the
\* entry evicted is the one used longest ago.
EvictsLeastRecentlyUsed ==
    [][\A w \in Ways : ways[w].valid /\ ways'[w].pc # ways[w].pc =>
          \A v \in Ways : lastTouch[w] <= lastTouch[v]]_vars

\* A set holds a branch once (OneEntryPerBranch), and the counter overrules TAGE only
\* while it has beaten it (UseBmIsEarned).
L0Sound == OneEntryPerBranch /\ UseBmIsEarned
=============================================================================
