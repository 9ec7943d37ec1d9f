-------------------------- MODULE Predictors_proofs --------------------------
(***************************************************************************)
(* The three BTBs and the simple direction predictors, for every program   *)
(* and all sizes of their tables, stacks and histories.                    *)
(*                                                                         *)
(* L0Btb: a branch has at most one entry in its set of the single-cycle    *)
(* BTB, use_bm stands exactly while it is earned, and the ages touch() is  *)
(* to maintain never move.                                                 *)
(*                                                                         *)
(* MultiBlockBtb, whatever its caches answer: the RAS, the SAS and the     *)
(* calls not returned to stay side by side through overflows and           *)
(* underflows, the pending snapshot is that of the last return, and an     *)
(* update writes where the prediction read.                                *)
(*                                                                         *)
(* BasicBtb: the return of a call that was seen to return is predicted     *)
(* right, and an entry is of the branch that ends its block.               *)
(*                                                                         *)
(* DirectionPredictors: between two instructions the buffer of the         *)
(* perceptron holds only states of instructions that are no branches, so   *)
(* that the oldest state of a branch is its own.  A shift moves each bit   *)
(* of a history to the next place, and from word to word.                  *)
(***************************************************************************)
EXTENDS L0Btb, MultiBlockBtb, BasicBtb, DirectionPredictors,
        FiniteSetTheorems, WellFoundedInduction, SequenceTheorems, TLAPS

(***************************************************************************)
(* The single-cycle BTB of the ahead TAGE                                  *)
(***************************************************************************)

\* Entries and their confidences have their types; a valid way has a branch.
L0TypeOK ==
    /\ ways \in [Ways -> Entries]
    /\ \A w \in Ways : ways[w].valid => ways[w].pc \in Pcs

\* OneEntryPerBranch, without counting.
OneWayPerBranch ==
    \A v, w \in Ways :
        /\ ways[v].valid
        /\ ways[w].valid
        /\ ways[v].pc = ways[w].pc
        => v = w

\* touch() ages the ways younger than the one touched.  As all start at age
\* 0, none is younger than another, and none ever ages.
AgesNeverMove == lru = [w \in Ways |-> 0]

\* The inductive invariant.
L0IInv == L0TypeOK /\ OneWayPerBranch /\ UseBmIsEarned /\ AgesNeverMove

-----------------------------------------------------------------------------
\* The first of some ways is one of them.
LEMMA MinIsIn ==
    ASSUME NEW S, S \subseteq Nat, S # {}
    PROVE  Min(S) \in S /\ \A y \in S : Min(S) <= y
<1>1. \E x \in S : \A y \in S : ~(<<y, x>> \in OpToRel(<, Nat))
  BY WFMin, NatLessThanWellFounded
<1>2. PICK x \in S : \A y \in S : ~(<<y, x>> \in OpToRel(<, Nat))
  BY <1>1
<1>3. \A y \in S : x <= y
  <2>1. SUFFICES ASSUME NEW y \in S PROVE x <= y
    OBVIOUS
  <2>2. x \in Nat /\ y \in Nat
    OBVIOUS
  <2>3. ~(y < x)
    <3>1. SUFFICES ASSUME y < x PROVE FALSE
      OBVIOUS
    <3>2. <<y, x>> \in OpToRel(<, Nat)
      BY <2>2, <3>1 DEF OpToRel
    <3>. QED BY <1>2, <3>2
  <2>. QED BY <2>2, <2>3
<1>. QED BY <1>2, <1>3 DEF Min

\* The way of a hit is valid and holds the branch.
LEMMA WayOfHit ==
    ASSUME NEW pc, Hit(pc)
    PROVE  /\ WayOf(pc) \in Ways
           /\ ways[WayOf(pc)].valid
           /\ ways[WayOf(pc)].pc = pc
<1>1. Matches(pc) \subseteq Nat /\ Matches(pc) # {}
  BY L0Assumption DEF Hit, Matches, Ways
<1>2. WayOf(pc) \in Matches(pc)
  BY <1>1, MinIsIn DEF WayOf
<1>. QED BY <1>2 DEF Matches

\* A victim is found: a free way, or the first of them all.
LEMMA VictimIsAWay == AgesNeverMove => Victim \in Ways
<1>. SUFFICES ASSUME AgesNeverMove PROVE Victim \in Ways
  OBVIOUS
<1>. DEFINE free == {w \in Ways : ~ways[w].valid}
            oldest == {w \in Ways : \A v \in Ways : lru[v] <= lru[w]}
<1>1. free \subseteq Nat /\ oldest \subseteq Nat /\ 0 \in Ways
  BY L0Assumption DEF Ways
<1>2. 0 \in oldest
  BY <1>1 DEF AgesNeverMove
<1>3. free # {} => Min(free) \in free
  BY <1>1, MinIsIn
<1>4. Min(oldest) \in oldest
  BY <1>1, <1>2, MinIsIn
<1>. QED BY <1>3, <1>4 DEF Victim

\* touch() of a set whose ways have all age 0 changes nothing.
LEMMA TouchedChangesNothing ==
    ASSUME AgesNeverMove, NEW w \in Ways
    PROVE  Touched(w) = lru
BY DEF AgesNeverMove, Touched

\* What use_bm means for one entry.
Earned(e) == e.useBm <=> e.bmCtr > Thresh

\* Training keeps the branch of an entry, and its bit earned.
LEMMA TrainedKeeps ==
    ASSUME NEW e \in Entries, Earned(e), NEW taken \in BOOLEAN,
           NEW bm \in BOOLEAN, NEW tage \in BOOLEAN
    PROVE  /\ Trained(e, taken, bm, tage) \in Entries
           /\ Earned(Trained(e, taken, bm, tage))
           /\ Trained(e, taken, bm, tage).valid = e.valid
           /\ Trained(e, taken, bm, tage).pc = e.pc
<1>. USE L0Assumption DEF CounterMax, BmMax
<1>. DEFINE next == IF taken THEN IF e.counter < CounterMax THEN e.counter + 1 ELSE e.counter
                    ELSE IF e.counter > 0 THEN e.counter - 1 ELSE e.counter
            d == [e EXCEPT !.counter = next]
            bmRight == bm = taken
            tageRight == tage = taken
<1>1. next \in 0 .. CounterMax
  BY DEF Entries
<1>2. /\ d \in Entries /\ Earned(d)
      /\ d.valid = e.valid /\ d.pc = e.pc
  BY <1>1 DEF Entries, Earned
<1>3. Trained(e, taken, bm, tage) = Confidence(d, bmRight, tageRight)
  BY DEF Trained
<1>. HIDE DEF d, bmRight, tageRight
<1>4. CASE bmRight /\ ~tageRight
  <2>. DEFINE c == IF d.bmCtr < BmMax THEN d.bmCtr + 1 ELSE d.bmCtr
  <2>1. Confidence(d, bmRight, tageRight)
          = [d EXCEPT !.bmCtr = c, !.useBm = d.useBm \/ c > Thresh]
    BY <1>4 DEF Confidence
  <2>2. c \in 0 .. BmMax /\ (d.bmCtr > Thresh => c > Thresh)
    BY <1>2 DEF Entries
  <2>. HIDE DEF c
  <2>3. (d.useBm \/ c > Thresh) \in BOOLEAN /\ ((d.useBm \/ c > Thresh) <=> c > Thresh)
    BY <1>2, <2>2 DEF Earned
  <2>. DEFINE bit == d.useBm \/ c > Thresh
              t == [d EXCEPT !.bmCtr = c, !.useBm = bit]
  <2>4. bit \in BOOLEAN /\ (bit <=> c > Thresh)
    BY <2>3
  <2>. HIDE DEF bit
  <2>5. /\ t \in Entries /\ t.bmCtr = c /\ t.useBm = bit
        /\ t.valid = d.valid /\ t.pc = d.pc
    BY <1>2, <2>2, <2>4 DEF Entries
  <2>6. Trained(e, taken, bm, tage) = t
    BY <1>3, <2>1 DEF bit
  <2>. HIDE DEF t
  <2>. QED BY <1>2, <2>4, <2>5, <2>6 DEF Earned
<1>5. CASE ~bmRight /\ tageRight
  <2>1. Confidence(d, bmRight, tageRight) = [d EXCEPT !.bmCtr = 0, !.useBm = FALSE]
    BY <1>5 DEF Confidence
  <2>2. 0 \in 0 .. BmMax /\ ~(0 > Thresh)
    OBVIOUS
  <2>3. /\ [d EXCEPT !.bmCtr = 0, !.useBm = FALSE] \in Entries
        /\ [d EXCEPT !.bmCtr = 0, !.useBm = FALSE].bmCtr = 0
        /\ [d EXCEPT !.bmCtr = 0, !.useBm = FALSE].useBm = FALSE
        /\ [d EXCEPT !.bmCtr = 0, !.useBm = FALSE].valid = d.valid
        /\ [d EXCEPT !.bmCtr = 0, !.useBm = FALSE].pc = d.pc
    BY <1>2, <2>2 DEF Entries
  <2>. QED BY <1>2, <1>3, <2>1, <2>2, <2>3 DEF Earned
<1>6. CASE bmRight <=> tageRight
  BY <1>2, <1>3, <1>6 DEF Confidence
<1>. QED BY <1>4, <1>5, <1>6

-----------------------------------------------------------------------------
LEMMA InitL0IInv == Init => L0IInv
<1>. SUFFICES ASSUME Init PROVE L0IInv
  OBVIOUS
<1>1. NoEntry \in Entries /\ ~NoEntry.valid /\ Earned(NoEntry)
  BY L0Assumption DEF NoEntry, Entries, Earned, CounterMax, BmMax
<1>. QED BY <1>1 DEF Init, L0IInv, L0TypeOK, OneWayPerBranch, UseBmIsEarned, AgesNeverMove,
                     Earned

\* A commit that hits trains the entry of the branch in place.
LEMMA TrainL0IInv ==
    ASSUME L0IInv, NEW pc \in Pcs, Hit(pc), NEW taken \in BOOLEAN, NEW tage \in BOOLEAN,
           ways' = [ways EXCEPT ![WayOf(pc)] = Trained(@, taken, L0Predicted(pc), tage)],
           lru' \in {lru, Touched(WayOf(pc))}
    PROVE  L0IInv'
<1>. DEFINE w == WayOf(pc)
            t == Trained(ways[w], taken, L0Predicted(pc), tage)
<1>1. w \in Ways
  BY WayOfHit
<1>2. ways[w] \in Entries /\ Earned(ways[w]) /\ L0Predicted(pc) \in BOOLEAN
  BY <1>1 DEF L0IInv, L0TypeOK, UseBmIsEarned, Earned, L0Predicted
<1>. HIDE DEF w
<1>3. /\ t \in Entries /\ Earned(t)
      /\ t.valid = ways[w].valid /\ t.pc = ways[w].pc
  <2>. DEFINE e == ways[w]
              bm == L0Predicted(pc)
  <2>1. e \in Entries /\ Earned(e) /\ bm \in BOOLEAN
    BY <1>2
  <2>2. t = Trained(e, taken, bm, tage) /\ ways[w] = e
    OBVIOUS
  <2>. HIDE DEF e, bm, t
  <2>3. /\ Trained(e, taken, bm, tage) \in Entries
        /\ Earned(Trained(e, taken, bm, tage))
        /\ Trained(e, taken, bm, tage).valid = e.valid
        /\ Trained(e, taken, bm, tage).pc = e.pc
    BY <2>1, TrainedKeeps
  <2>. QED BY <2>2, <2>3
<1>4. ways' = [ways EXCEPT ![w] = t]
  BY DEF w
<1>. HIDE DEF t
<1>5. \A v \in Ways : ways'[v] = IF v = w THEN t ELSE ways[v]
  BY <1>1, <1>4 DEF L0IInv, L0TypeOK
<1>6. \A v \in Ways : ways'[v].valid = ways[v].valid /\ ways'[v].pc = ways[v].pc
  BY <1>3, <1>5
<1>7. L0TypeOK'
  BY <1>3, <1>4, <1>6 DEF L0IInv, L0TypeOK
<1>8. OneWayPerBranch'
  BY <1>6 DEF L0IInv, OneWayPerBranch
<1>9. UseBmIsEarned'
  BY <1>3, <1>5 DEF L0IInv, UseBmIsEarned, Earned
<1>10. AgesNeverMove'
  BY <1>1, TouchedChangesNothing DEF L0IInv, AgesNeverMove, w
<1>. QED BY <1>7, <1>8, <1>9, <1>10 DEF L0IInv

\* A miss inserts the branch into one way, over a free entry or an old one.
LEMMA InsertL0IInv ==
    ASSUME L0IInv, NEW pc \in Pcs, ~Hit(pc), NEW counter \in 0 .. CounterMax,
           Insert(pc, counter)
    PROVE  L0IInv'
<1>. DEFINE w == Victim
            t == [NoEntry EXCEPT !.valid = TRUE, !.pc = pc, !.counter = counter]
<1>1. w \in Ways
  BY VictimIsAWay DEF L0IInv
<1>2. t \in Entries /\ Earned(t) /\ t.pc = pc /\ t.pc \in Pcs
  <2>1. NoEntry \in Entries /\ NoEntry.bmCtr = 0 /\ NoEntry.useBm = FALSE
    BY L0Assumption DEF NoEntry, Entries, CounterMax, BmMax
  <2>2. /\ t \in Entries /\ t.pc = pc
        /\ t.bmCtr = NoEntry.bmCtr /\ t.useBm = NoEntry.useBm
    BY <2>1 DEF Entries
  <2>3. ~(0 > Thresh)
    BY L0Assumption DEF BmMax
  <2>. QED BY <2>1, <2>2, <2>3 DEF Earned
<1>3. ways' = [ways EXCEPT ![w] = t] /\ lru' = Touched(w)
  BY DEF Insert
<1>. HIDE DEF w, t
<1>4. \A v \in Ways : ways'[v] = IF v = w THEN t ELSE ways[v]
  BY <1>1, <1>3 DEF L0IInv, L0TypeOK
<1>5. \A v \in Ways : ~(ways[v].valid /\ ways[v].pc = pc)
  BY DEF Hit, Matches
<1>6. L0TypeOK'
  BY <1>2, <1>3, <1>4 DEF L0IInv, L0TypeOK
<1>7. OneWayPerBranch'
  BY <1>2, <1>4, <1>5 DEF L0IInv, OneWayPerBranch
<1>8. UseBmIsEarned'
  BY <1>2, <1>4 DEF L0IInv, UseBmIsEarned, Earned
<1>9. AgesNeverMove'
  BY <1>1, <1>3, TouchedChangesNothing DEF L0IInv, AgesNeverMove
<1>. QED BY <1>6, <1>7, <1>8, <1>9 DEF L0IInv

LEMMA NextL0IInv == L0IInv /\ [Next]_vars => L0IInv'
<1>. SUFFICES ASSUME L0IInv, [Next]_vars PROVE L0IInv'
  OBVIOUS
<1>1. CASE UNCHANGED vars
  BY <1>1 DEF vars, L0IInv, L0TypeOK, OneWayPerBranch, UseBmIsEarned, AgesNeverMove
<1>2. ASSUME NEW pc \in Pcs, NEW tage \in BOOLEAN, CommitTaken(pc, tage)
      PROVE  L0IInv'
  <2>1. CASE Hit(pc)
    BY <1>2, <2>1, TrainL0IInv DEF CommitTaken
  <2>2. CASE ~Hit(pc)
    <3>1. 2 \in 0 .. CounterMax
      BY DEF CounterMax
    <3>. QED BY <1>2, <2>2, <3>1, InsertL0IInv DEF CommitTaken
  <2>. QED BY <2>1, <2>2
<1>3. ASSUME NEW pc \in Pcs, NEW tage \in BOOLEAN, CommitNotTaken(pc, tage)
      PROVE  L0IInv'
  <2>1. CASE Hit(pc)
    BY <1>3, <2>1, TrainL0IInv DEF CommitNotTaken
  <2>2. CASE ~Hit(pc) /\ Insert(pc, 1)
    <3>1. 1 \in 0 .. CounterMax
      BY DEF CounterMax
    <3>. QED BY <2>2, <3>1, InsertL0IInv
  <2>. QED BY <1>1, <1>3, <2>1, <2>2 DEF CommitNotTaken
<1>. QED BY <1>1, <1>2, <1>3 DEF Next

LEMMA SpecL0IInv == Spec => []L0IInv
<1>. QED BY InitL0IInv, NextL0IInv, PTL DEF Spec

-----------------------------------------------------------------------------
\* A set holds a branch at most once, whichever commit path inserted it, and
\* use_bm stands exactly while the counter has beaten TAGE often enough.
THEOREM L0IsSound == Spec => []L0Sound
<1>1. L0IInv => L0Sound
  <2>. SUFFICES ASSUME L0IInv, NEW pc \in Pcs PROVE Cardinality(Matches(pc)) <= 1
    BY DEF L0IInv, L0Sound, OneEntryPerBranch
  <2>1. \A v, w \in Matches(pc) : v = w
    BY DEF L0IInv, OneWayPerBranch, Matches
  <2>2. CASE Matches(pc) = {}
    <3>1. Cardinality(Matches(pc)) = 0
      BY <2>2, FS_EmptySet
    <3>. QED BY <3>1
  <2>3. CASE Matches(pc) # {}
    <3>1. PICK w : Matches(pc) = {w}
      BY <2>1, <2>3
    <3>2. Cardinality(Matches(pc)) = 1
      BY <3>1, FS_Singleton
    <3>. QED BY <3>2
  <2>. QED BY <2>2, <2>3
<1>. QED BY <1>1, SpecL0IInv, PTL

\* The ages of a set never leave 0, whatever is committed: touch() compares
\* the age of the way touched with ages that are all the same.  This is why
\* EvictsLeastRecentlyUsed fails, in a set of any size.
THEOREM NothingAges == Spec => []AgesNeverMove
<1>1. L0IInv => AgesNeverMove
  BY DEF L0IInv
<1>. QED BY <1>1, SpecL0IInv, PTL

\* What a full set does instead of evicting the entry used longest ago: the
\* entry that gives way to another branch is always that of way 0.
EvictsTheFirstWay ==
    [][\A w \in Ways : ways[w].valid /\ ways'[w].pc # ways[w].pc => w = 0]_vars

\* A commit that hits replaces no branch, one that misses takes a free way if
\* there is one, and way 0 otherwise: all ways are equally old.
THEOREM OnlyTheFirstWayIsEvicted == Spec => EvictsTheFirstWay
<1>1. ASSUME L0IInv, Next, NEW w \in Ways, ways[w].valid, ways'[w].pc # ways[w].pc
      PROVE  w = 0
  <2>1. ways \in [Ways -> Entries] /\ AgesNeverMove
    BY <1>1 DEF L0IInv, L0TypeOK
  <2>2. ASSUME NEW pc \in Pcs, NEW taken \in BOOLEAN, NEW tage \in BOOLEAN, Hit(pc),
               ways' = [ways EXCEPT ![WayOf(pc)]
                          = Trained(@, taken, L0Predicted(pc), tage)]
        PROVE  FALSE
    <3>1. WayOf(pc) \in Ways /\ L0Predicted(pc) \in BOOLEAN
      BY <2>2, WayOfHit DEF L0Predicted
    <3>2. ways[WayOf(pc)] \in Entries /\ Earned(ways[WayOf(pc)])
      BY <1>1, <2>1, <3>1 DEF L0IInv, UseBmIsEarned, Earned
    <3>. DEFINE e == ways[WayOf(pc)]
                bm == L0Predicted(pc)
                t == Trained(e, taken, bm, tage)
    <3>3. e \in Entries /\ Earned(e) /\ bm \in BOOLEAN
      BY <3>1, <3>2
    <3>4. ways' = [ways EXCEPT ![WayOf(pc)] = t] /\ e.pc = ways[WayOf(pc)].pc
      BY <2>2
    <3>. HIDE DEF e, bm
    <3>5. t.pc = e.pc
      BY <2>2, <3>3, TrainedKeeps
    <3>. HIDE DEF t
    <3>. QED BY <1>1, <2>1, <3>1, <3>4, <3>5
  <2>3. ASSUME NEW pc \in Pcs, NEW counter \in Nat, Insert(pc, counter)
        PROVE  w = 0
    <3>1. w = Victim
      BY <1>1, <2>1, <2>3, VictimIsAWay DEF Insert
    <3>. DEFINE free == {v \in Ways : ~ways[v].valid}
                oldest == {v \in Ways : \A u \in Ways : lru[u] <= lru[v]}
    <3>2. free \subseteq Nat /\ (free # {} => Min(free) \in free)
      BY L0Assumption, MinIsIn DEF Ways
    <3>3. free = {} /\ Victim = Min(oldest)
      BY <1>1, <3>1, <3>2 DEF Victim
    <3>4. oldest \subseteq Nat /\ 0 \in oldest
      BY L0Assumption, <2>1 DEF Ways, AgesNeverMove
    <3>5. Min(oldest) \in Nat /\ Min(oldest) <= 0
      BY <3>4, MinIsIn
    <3>. QED BY <3>1, <3>3, <3>5
  <2>4. PICK pc \in Pcs, tage \in BOOLEAN :
             CommitTaken(pc, tage) \/ CommitNotTaken(pc, tage)
    BY <1>1 DEF Next
  <2>5. CASE CommitTaken(pc, tage)
    BY <2>2, <2>3, <2>5 DEF CommitTaken
  <2>6. CASE CommitNotTaken(pc, tage)
    BY <1>1, <2>2, <2>3, <2>6 DEF CommitNotTaken, vars
  <2>. QED BY <2>4, <2>5, <2>6
<1>2. L0IInv /\ [Next]_vars =>
        [\A w \in Ways : ways[w].valid /\ ways'[w].pc # ways[w].pc => w = 0]_vars
  BY <1>1
<1>. QED BY <1>2, SpecL0IInv, PTL DEF Spec, EvictsTheFirstWay

(***************************************************************************)
(* The multi-block-ahead BTB                                               *)
(***************************************************************************)

CallIps   == {at \in Ips : Kind[at] \in Calls}
Blocks    == Ips \cup {0}
Pairs     == CallIps \X Blocks
Snapshots == [info : Infos \cup {Miss}, blockStart : Blocks]

\* Every variable a later step reads has its type: only calls are pushed.
MultiTypeOK ==
    /\ ras \in Seq(CallIps)
    /\ sas \in Seq(Snapshots)
    /\ calls \in Seq(Pairs)
    /\ history \in [1 .. HistoryLength -> BOOLEAN]
    /\ callSize \in [CallIps -> Nat]
    /\ {lastIp, lastBlock, curBlock, returnCall, current} \subseteq Blocks
    /\ lastTransition \in {"T", "N", "R"}
    /\ wasReturn \in BOOLEAN /\ newBlock \in BOOLEAN
    /\ pendingSas \in Snapshots
    /\ predQueue \in Seq(Ips)

\* The prediction in flight looked where the state still points.
LookupIsCurrent ==
    current # 0 =>
        /\ Kind[current] # "NOT_BRANCH"
        /\ lookup = [key  |-> Key(lastIp, lastBlock, Succ(lastTransition)),
                     slot |-> IndirectSlot]

\* The inductive invariant.
MultiIInv ==
    /\ MultiTypeOK
    /\ StacksPaired
    /\ PendingIsOfLastReturn
    /\ LookupIsCurrent
    /\ WrittenWhereItIsReadNext
    /\ IndirectReadWhereWritten
    /\ QueueSinceLastBranch

-----------------------------------------------------------------------------
\* The last entry of a stack and what is left without it.
IsPopped(S, s) ==
    /\ Last(s) = s[Len(s)] /\ Last(s) \in S
    /\ Front(s) \in Seq(S) /\ Len(Front(s)) = Len(s) - 1
    /\ \A i \in 1 .. Len(s) - 1 : Front(s)[i] = s[i]

\* The entry of a pop.
LEMMA FrontLast ==
    ASSUME NEW S, NEW s \in Seq(S), s # << >>
    PROVE  Len(s) \in Nat \ {0} /\ IsPopped(S, s)
<1>1. Len(s) \in Nat \ {0}
  BY EmptySeq
<1>. DEFINE m == Len(s) - 1
            f == SubSeq(s, 1, m)
<1>2. m \in Nat /\ Len(s) \in 1 .. Len(s)
  BY <1>1
<1>3. \A i \in 1 .. m : i \in 1 .. Len(s)
  BY <1>1
<1>4. Last(s) = s[Len(s)] /\ Last(s) \in S
  BY <1>2, ElementOfSeq DEF Last
<1>5. /\ f \in Seq(S)
      /\ Len(f) = IF 1 <= m THEN m - 1 + 1 ELSE 0
      /\ \A i \in 1 .. m - 1 + 1 : f[i] = s[1 + i - 1]
  <2>1. 1 \in Int /\ m \in Int /\ \A i \in 1 .. m : s[i] \in S
    BY <1>2, <1>3, ElementOfSeq
  <2>. HIDE DEF m
  <2>. QED BY <2>1, SubSeqProperties
<1>6. Front(s) = f
  BY DEF Front
<1>. HIDE DEF f, m
<1>7. Len(f) = m /\ \A i \in 1 .. m : f[i] = s[i]
  <2>1. m - 1 + 1 = m /\ (~(1 <= m) => m = 0) /\ \A i \in 1 .. m : 1 + i - 1 = i
    BY <1>2
  <2>. QED BY <1>5, <2>1
<1>. QED BY <1>1, <1>4, <1>5, <1>6, <1>7 DEF m, IsPopped

\* What a push does: a full stack loses its oldest entry.
Dropped(n) == IF n = StackSize THEN 1 ELSE 0
IsPushed(old, new, e) ==
    LET n == Len(old) + 1 - Dropped(Len(old))
    IN  /\ Len(new) = n
        /\ \A i \in 1 .. n :
              new[i] = IF i = n THEN e ELSE old[i + Dropped(Len(old))]

\* A push keeps the order, and drops the oldest entry of a full stack.
LEMMA PushedFacts ==
    ASSUME NEW S, NEW s \in Seq(S), NEW e \in S, Len(s) <= StackSize
    PROVE  Pushed(s, e) \in Seq(S) /\ IsPushed(s, Pushed(s, e), e)
<1>. USE BtbAssumption
<1>. DEFINE t == Append(s, e)
<1>1. /\ Len(s) \in Nat /\ t \in Seq(S) /\ Len(t) = Len(s) + 1
      /\ \A i \in 1 .. Len(s) : t[i] = s[i]
      /\ t[Len(s) + 1] = e
  BY AppendProperties, LenProperties
<1>. HIDE DEF t
<1>2. CASE Len(s) = StackSize
  <2>1. Len(t) > StackSize /\ t # << >>
    BY <1>1, <1>2
  <2>2. /\ Tail(t) \in Seq(S) /\ Len(Tail(t)) = Len(s)
        /\ \A i \in 1 .. Len(s) : Tail(t)[i] = t[i + 1]
    BY <1>1, <2>1, HeadTailProperties
  <2>3. Pushed(s, e) = Tail(t)
    BY <2>1 DEF Pushed, t
  <2>. QED BY <1>1, <1>2, <2>2, <2>3 DEF IsPushed, Dropped
<1>3. CASE Len(s) # StackSize
  <2>1. ~(Len(t) > StackSize)
    BY <1>1, <1>3
  <2>2. Pushed(s, e) = t
    BY <2>1 DEF Pushed, t
  <2>. QED BY <1>1, <1>3, <2>2 DEF IsPushed, Dropped
<1>. QED BY <1>2, <1>3

-----------------------------------------------------------------------------
\* initialize_btb establishes the inductive invariant.
LEMMA InitMultiIInv == MultiInit => MultiIInv
<1>. SUFFICES ASSUME MultiInit PROVE MultiIInv
  OBVIOUS
<1>. USE BtbAssumption DEF MultiInit
<1>1. MultiTypeOK
  BY EmptySeq DEF MultiTypeOK, CallIps, Blocks, Snapshots, Snapshot
<1>2. StacksPaired
  BY DEF StacksPaired
<1>3. PendingIsOfLastReturn
  BY DEF PendingIsOfLastReturn, Valid, Snapshot
<1>4. LookupIsCurrent /\ WrittenWhereItIsReadNext /\ IndirectReadWhereWritten
  BY DEF LookupIsCurrent, WrittenWhereItIsReadNext, IndirectReadWhereWritten
<1>5. QueueSinceLastBranch
  BY DEF QueueSinceLastBranch
<1>. QED BY <1>1, <1>2, <1>3, <1>4, <1>5 DEF MultiIInv

\* btb_prediction keeps it: nothing it reads moves before the update.
LEMMA PredictMultiIInv ==
    ASSUME MultiIInv, NEW at \in Ips, NEW hit \in Answers, NEW stored \in Targets,
           Predict(at, hit, stored)
    PROVE  MultiIInv'
<1>. USE BtbAssumption DEF Predict
<1>1. MultiTypeOK'
  <2>1. predQueue' \in Seq(Ips)
    BY AppendProperties DEF MultiIInv, MultiTypeOK
  <2>. QED BY <2>1 DEF MultiIInv, MultiTypeOK, stacks, last, Blocks
<1>2. StacksPaired' /\ PendingIsOfLastReturn'
  BY DEF MultiIInv, stacks, last, StacksPaired, PendingIsOfLastReturn, Valid
<1>3. LookupIsCurrent'
  BY DEF LookupIsCurrent, last, IndirectSlot, AfterReturn, Slot, Valid
<1>4. WrittenWhereItIsReadNext' /\ IndirectReadWhereWritten'
  BY DEF WrittenWhereItIsReadNext, IndirectReadWhereWritten
<1>5. QueueSinceLastBranch'
  <2>1. /\ predQueue \in Seq(Ips) /\ QueueSinceLastBranch /\ current = 0
        /\ at # 0
    BY DEF MultiIInv, MultiTypeOK
  <2>2. /\ Len(predQueue) \in Nat /\ Len(predQueue') = Len(predQueue) + 1
        /\ \A i \in 1 .. Len(predQueue) : predQueue'[i] = predQueue[i]
        /\ predQueue'[Len(predQueue) + 1] = at
    BY <2>1, AppendProperties, LenProperties
  <2>3. \A i \in 1 .. Len(predQueue) : Kind[predQueue[i]] = "NOT_BRANCH"
    BY <2>1 DEF QueueSinceLastBranch
  <2>4. current' = IF Kind[at] = "NOT_BRANCH" THEN 0 ELSE at
    OBVIOUS
  <2>. QED BY <2>1, <2>2, <2>3, <2>4 DEF QueueSinceLastBranch
<1>. QED BY <1>1, <1>2, <1>3, <1>4, <1>5 DEF MultiIInv

-----------------------------------------------------------------------------
\* A call keeps the three stacks side by side: the oldest entry of a full
\* stack falls out of each of them.
LEMMA PushCallPairs ==
    ASSUME MultiIInv, NEW at \in CallIps, NEW info \in Answers, PushCall(at, info)
    PROVE  /\ ras' \in Seq(CallIps) /\ sas' \in Seq(Snapshots)
           /\ calls' \in Seq(Pairs)
           /\ StacksPaired'
<1>. USE BtbAssumption
<1>. DEFINE entry == Snapshot(info, curBlock)
            pair  == <<at, curBlock>>
            drop  == Dropped(Len(calls))
            n     == Len(calls) + 1 - drop
<1>1. /\ ras \in Seq(CallIps) /\ sas \in Seq(Snapshots)
      /\ calls \in Seq(Pairs) /\ curBlock \in Blocks
      /\ StacksPaired
  BY DEF MultiIInv, MultiTypeOK
<1>2. entry \in Snapshots /\ pair \in Pairs
      /\ entry.blockStart = curBlock /\ pair[1] = at /\ pair[2] = curBlock
  BY <1>1 DEF Snapshots, Snapshot, Pairs
<1>. HIDE DEF entry, pair
<1>3. Len(ras) = Len(calls) /\ Len(sas) = Len(calls) /\ Len(calls) <= StackSize
  BY <1>1 DEF StacksPaired
<1>4. Len(calls) \in Nat /\ drop \in {0, 1} /\ n \in Nat /\ n <= StackSize
      /\ \A i \in 1 .. n : i # n => i + drop \in 1 .. Len(calls)
  BY <1>1, <1>3, LenProperties DEF Dropped
<1>5. /\ ras' = Pushed(ras, at) /\ sas' = Pushed(sas, entry)
      /\ calls' = Pushed(calls, pair)
  BY DEF PushCall, PushedSas, entry, pair
<1>6. /\ ras' \in Seq(CallIps) /\ Len(ras') = n
      /\ \A i \in 1 .. n : ras'[i] = IF i = n THEN at ELSE ras[i + drop]
  <2>1. Pushed(ras, at) \in Seq(CallIps) /\ IsPushed(ras, Pushed(ras, at), at)
    BY <1>1, <1>3, PushedFacts
  <2>. QED BY <1>3, <1>5, <2>1 DEF IsPushed
<1>7. /\ sas' \in Seq(Snapshots) /\ Len(sas') = n
      /\ \A i \in 1 .. n : sas'[i] = IF i = n THEN entry ELSE sas[i + drop]
  <2>1. Pushed(sas, entry) \in Seq(Snapshots) /\ IsPushed(sas, Pushed(sas, entry), entry)
    BY <1>1, <1>2, <1>3, PushedFacts
  <2>. QED BY <1>3, <1>5, <2>1 DEF IsPushed
<1>8. /\ calls' \in Seq(Pairs) /\ Len(calls') = n
      /\ \A i \in 1 .. n : calls'[i] = IF i = n THEN pair ELSE calls[i + drop]
  <2>1. Pushed(calls, pair) \in Seq(Pairs) /\ IsPushed(calls, Pushed(calls, pair), pair)
    BY <1>1, <1>2, <1>3, PushedFacts
  <2>. QED BY <1>3, <1>5, <2>1 DEF IsPushed
<1>. HIDE DEF drop, n
<1>9. \A i \in 1 .. n : ras'[i] = calls'[i][1] /\ sas'[i].blockStart = calls'[i][2]
  <2>1. SUFFICES ASSUME NEW i \in 1 .. n
                 PROVE  ras'[i] = calls'[i][1] /\ sas'[i].blockStart = calls'[i][2]
    OBVIOUS
  <2>2. CASE i = n
    BY <1>2, <1>6, <1>7, <1>8, <2>2
  <2>3. CASE i # n
    <3>1. i + drop \in 1 .. Len(calls)
      BY <1>4, <2>3
    <3>2. ras[i + drop] = calls[i + drop][1]
          /\ sas[i + drop].blockStart = calls[i + drop][2]
      BY <1>1, <3>1 DEF StacksPaired
    <3>. QED BY <1>6, <1>7, <1>8, <2>3, <3>2
  <2>. QED BY <2>2, <2>3
<1>. QED BY <1>4, <1>6, <1>7, <1>8, <1>9 DEF StacksPaired

\* A return with a call to return to takes the newest entry of each of them.
LEMMA PopCallPairs ==
    ASSUME MultiIInv, NEW target \in Targets, ras # << >>, PopCall(target)
    PROVE  /\ ras' \in Seq(CallIps) /\ sas' \in Seq(Snapshots)
           /\ calls' \in Seq(Pairs)
           /\ callSize' \in [CallIps -> Nat]
           /\ returnCall' \in CallIps /\ pendingSas' \in Snapshots
           /\ StacksPaired' /\ PendingIsOfLastReturn'
<1>1. /\ ras \in Seq(CallIps) /\ sas \in Seq(Snapshots)
      /\ calls \in Seq(Pairs) /\ callSize \in [CallIps -> Nat]
      /\ StacksPaired
  BY DEF MultiIInv, MultiTypeOK
<1>2. Len(ras) = Len(calls) /\ Len(sas) = Len(calls) /\ Len(calls) <= StackSize
  BY <1>1 DEF StacksPaired
<1>3. /\ Len(calls) \in Nat \ {0}
      /\ ras # << >> /\ sas # << >> /\ calls # << >>
  BY <1>1, <1>2, EmptySeq, LenProperties
<1>4. /\ Last(ras) = ras[Len(calls)] /\ Last(ras) \in CallIps
      /\ Front(ras) \in Seq(CallIps) /\ Len(Front(ras)) = Len(calls) - 1
      /\ \A i \in 1 .. Len(calls) - 1 : Front(ras)[i] = ras[i]
  <2>1. IsPopped(CallIps, ras)
    BY <1>1, <1>3, FrontLast
  <2>. QED BY <1>2, <2>1 DEF IsPopped
<1>5. /\ Last(sas) = sas[Len(calls)] /\ Last(sas) \in Snapshots
      /\ Front(sas) \in Seq(Snapshots) /\ Len(Front(sas)) = Len(calls) - 1
      /\ \A i \in 1 .. Len(calls) - 1 : Front(sas)[i] = sas[i]
  <2>1. IsPopped(Snapshots, sas)
    BY <1>1, <1>3, FrontLast
  <2>. QED BY <1>2, <2>1 DEF IsPopped
<1>6. /\ Last(calls) = calls[Len(calls)] /\ Last(calls) \in Pairs
      /\ Front(calls) \in Seq(Pairs) /\ Len(Front(calls)) = Len(calls) - 1
      /\ \A i \in 1 .. Len(calls) - 1 : Front(calls)[i] = calls[i]
  <2>1. IsPopped(Pairs, calls)
    BY <1>1, <1>3, FrontLast
  <2>. QED BY <2>1 DEF IsPopped
<1>7. /\ ras' = Front(ras) /\ sas' = Front(sas) /\ calls' = Front(calls)
      /\ returnedTo' = Last(calls) /\ wasReturn' = TRUE
      /\ returnCall' = Last(ras) /\ pendingSas' = Last(sas)
  BY <1>3 DEF PopCall
<1>8. callSize' \in [CallIps -> Nat]
  <2>1. Last(ras) \in Nat /\ target \in Nat
    BY <1>4, BtbAssumption DEF CallIps
  <2>2. Abs(Last(ras) - target) \in Nat
    BY <2>1 DEF Abs
  <2>. QED BY <1>1, <2>2 DEF PopCall
<1>9. StacksPaired'
  <2>. DEFINE n == Len(calls) - 1
  <2>0. n <= StackSize
    BY <1>2, <1>3, BtbAssumption
  <2>1. n <= StackSize /\ \A i \in 1 .. n : i \in 1 .. Len(calls)
    BY <1>3, <2>0
  <2>2. Len(ras') = n /\ Len(sas') = n /\ Len(calls') = n
    BY <1>4, <1>5, <1>6, <1>7
  <2>3. ASSUME NEW i \in 1 .. n
        PROVE  ras'[i] = calls'[i][1] /\ sas'[i].blockStart = calls'[i][2]
    <3>1. ras'[i] = ras[i] /\ sas'[i] = sas[i] /\ calls'[i] = calls[i]
      BY <1>4, <1>5, <1>6, <1>7
    <3>2. ras[i] = calls[i][1] /\ sas[i].blockStart = calls[i][2]
      BY <1>1, <2>1 DEF StacksPaired
    <3>. QED BY <3>1, <3>2
  <2>. HIDE DEF n
  <2>. QED BY <2>1, <2>2, <2>3 DEF StacksPaired
<1>10. PendingIsOfLastReturn'
  <2>1. Len(calls) \in 1 .. Len(calls)
    BY <1>3
  <2>2. Last(ras) = Last(calls)[1] /\ Last(sas).blockStart = Last(calls)[2]
    <3>1. /\ ras[Len(calls)] = calls[Len(calls)][1]
          /\ sas[Len(calls)].blockStart = calls[Len(calls)][2]
      BY <1>1, <2>1 DEF StacksPaired
    <3>. QED BY <1>4, <1>5, <1>6, <3>1
  <2>3. Last(calls) = <<Last(calls)[1], Last(calls)[2]>> /\ Last(calls)[1] # 0
    BY <1>6, BtbAssumption DEF CallIps, Pairs
  <2>. QED BY <1>7, <2>2, <2>3 DEF PendingIsOfLastReturn, NoCall
<1>. QED BY <1>4, <1>5, <1>6, <1>7, <1>8, <1>9, <1>10

\* The branch predicted is the last of the queue and the only one of its
\* kind in it: the update drains the queue.
LEMMA UpdateDrains ==
    ASSUME MultiIInv, current # 0
    PROVE  Drained(predQueue, current) = << >>
<1>. DEFINE q == predQueue
            hits == {i \in 1 .. Len(q) : q[i] = current}
<1>1. q \in Seq(Ips) /\ Len(q) \in Nat
  BY LenProperties DEF MultiIInv, MultiTypeOK
<1>2. /\ Kind[current] # "NOT_BRANCH"
      /\ \A i \in 1 .. Len(q) : IF i = Len(q) THEN q[i] = current
                                ELSE Kind[q[i]] = "NOT_BRANCH"
  BY DEF MultiIInv, LookupIsCurrent, QueueSinceLastBranch
<1>3. \A i \in hits : i = Len(q)
  BY <1>2
<1>4. CASE hits = {}
  BY <1>4 DEF Drained
<1>5. CASE hits # {}
  <2>1. Len(q) \in hits
    BY <1>3, <1>5
  <2>2. hits = {Len(q)}
    BY <1>3, <2>1
  <2>3. (CHOOSE i \in hits : \A j \in hits : i <= j) = Len(q)
    BY <1>1, <2>2
  <2>4. Drained(q, current) = SubSeq(q, Len(q) + 1, Len(q))
    BY <1>5, <2>3 DEF Drained
  <2>. QED BY <1>1, <2>4, SubSeqEmpty
<1>. QED BY <1>4, <1>5

\* update_btb keeps it.
LEMMA UpdateMultiIInv ==
    ASSUME MultiIInv, NEW target \in Targets, NEW taken \in BOOLEAN, NEW info \in Answers,
           Update(target, taken, info)
    PROVE  MultiIInv'
<1>1. /\ MultiTypeOK /\ StacksPaired /\ PendingIsOfLastReturn /\ LookupIsCurrent
      /\ current # 0 /\ current \in Ips /\ current \in Blocks
  BY DEF MultiIInv, MultiTypeOK, Blocks, Update
<1>2. /\ predQueue' = << >>
      /\ lastIp' = current /\ lastBlock' = curBlock /\ curBlock' = curBlock
      /\ current' = 0 /\ newBlock' = TRUE /\ lookup' = Nothing
      /\ lastTransition' = Transition(Kind[current], taken)
      /\ update' = [key |-> WrittenKey, slot |-> UpdatedSlot, lookup |-> lookup,
                    call |-> returnedTo]
  BY <1>1, UpdateDrains DEF Update
<1>3. history' \in [1 .. HistoryLength -> BOOLEAN]
  <2>1. HistoryLength \in Nat \ {0} /\ history \in [1 .. HistoryLength -> BOOLEAN]
    BY <1>1, BtbAssumption DEF MultiTypeOK
  <2>2. \A i \in 1 .. HistoryLength : i # 1 => i - 1 \in 1 .. HistoryLength
    BY <2>1
  <2>. QED BY <2>1, <2>2 DEF Update
<1>4. /\ ras' \in Seq(CallIps) /\ sas' \in Seq(Snapshots) /\ calls' \in Seq(Pairs)
      /\ callSize' \in [CallIps -> Nat]
      /\ returnCall' \in Blocks /\ wasReturn' \in BOOLEAN
      /\ pendingSas' \in Snapshots
      /\ StacksPaired' /\ PendingIsOfLastReturn'
  <2>1. [pendingSas EXCEPT !.info = Miss] \in Snapshots
        /\ [pendingSas EXCEPT !.info = Miss].info = Miss
    BY <1>1 DEF MultiTypeOK, Snapshots
  <2>2. CASE Kind[current] \in Calls /\ PushCall(current, info)
    <3>1. current \in CallIps
      BY <1>1, <2>2 DEF CallIps
    <3>2. /\ ras' \in Seq(CallIps) /\ sas' \in Seq(Snapshots)
          /\ calls' \in Seq(Pairs) /\ StacksPaired'
      BY <2>2, <3>1, PushCallPairs
    <3>3. /\ returnedTo' = NoCall /\ callSize' = callSize /\ returnCall' = returnCall
          /\ wasReturn' = FALSE /\ pendingSas' = DroppedPending
      BY <2>2 DEF PushCall
    <3>. QED BY <1>1, <2>1, <3>2, <3>3 DEF MultiTypeOK, PendingIsOfLastReturn,
                                            DroppedPending, Valid
  <2>3. CASE ras # << >> /\ PopCall(target)
    <3>1. /\ ras' \in Seq(CallIps) /\ sas' \in Seq(Snapshots)
          /\ calls' \in Seq(Pairs)
          /\ callSize' \in [CallIps -> Nat]
          /\ returnCall' \in CallIps /\ pendingSas' \in Snapshots
          /\ StacksPaired' /\ PendingIsOfLastReturn'
      BY <2>3, PopCallPairs
    <3>2. wasReturn' = TRUE
      BY <2>3 DEF PopCall
    <3>. QED BY <3>1, <3>2 DEF CallIps, Blocks
  <2>4. CASE NoStack
    <3>1. /\ ras' = ras /\ sas' = sas /\ calls' = calls
          /\ callSize' = callSize /\ returnCall' = returnCall
          /\ returnedTo' = NoCall /\ wasReturn' = FALSE
          /\ pendingSas' = DroppedPending
      BY <2>4 DEF NoStack, stacks
    <3>2. StacksPaired'
      BY <1>1, <3>1 DEF StacksPaired
    <3>. QED BY <1>1, <2>1, <3>1, <3>2 DEF MultiTypeOK, PendingIsOfLastReturn,
                                            DroppedPending, Valid
  <2>. QED BY <2>2, <2>3, <2>4 DEF Update
<1>5. MultiTypeOK'
  <2>1. lastTransition' \in {"T", "N", "R"}
    BY <1>2 DEF Transition
  <2>2. predQueue' \in Seq(Ips)
    BY <1>2, EmptySeq
  <2>3. {lastIp', lastBlock', curBlock', returnCall', current'} \subseteq Blocks
    BY <1>1, <1>2, <1>4 DEF MultiTypeOK, Blocks
  <2>. QED BY <1>2, <1>3, <1>4, <2>1, <2>2, <2>3 DEF MultiTypeOK
<1>6. LookupIsCurrent'
  BY <1>2 DEF LookupIsCurrent
<1>7. lookup = [key  |-> Key(lastIp, lastBlock, Succ(lastTransition)),
                slot |-> IndirectSlot]
  BY <1>1 DEF LookupIsCurrent
<1>8. WrittenWhereItIsReadNext'
  <2>1. CASE wasReturn
    <3>1. returnedTo # NoCall /\ returnedTo = <<returnCall, pendingSas.blockStart>>
      BY <1>1, <2>1 DEF PendingIsOfLastReturn
    <3>2. returnedTo[1] = returnCall /\ returnedTo[2] = pendingSas.blockStart
      BY <3>1
    <3>3. WrittenKey = Key(returnedTo[1], returnedTo[2], "R")
      BY <2>1, <3>2 DEF WrittenKey
    <3>. QED BY <1>2, <3>1, <3>3 DEF WrittenWhereItIsReadNext
  <2>2. CASE ~wasReturn
    <3>1. returnedTo = NoCall
      BY <1>1, <2>2 DEF PendingIsOfLastReturn
    <3>2. WrittenKey = lookup.key
      BY <1>7, <2>2 DEF WrittenKey
    <3>. QED BY <1>2, <3>1, <3>2 DEF WrittenWhereItIsReadNext
  <2>. QED BY <2>1, <2>2
<1>9. IndirectReadWhereWritten'
  <2>1. UpdatedSlot = lookup.slot
    BY <1>7 DEF UpdatedSlot, IndirectSlot
  <2>. QED BY <1>2, <2>1 DEF IndirectReadWhereWritten
<1>10. QueueSinceLastBranch'
  BY <1>2 DEF QueueSinceLastBranch
<1>. QED BY <1>4, <1>5, <1>6, <1>8, <1>9, <1>10 DEF MultiIInv

LEMMA NextMultiIInv == MultiIInv /\ [MultiNext]_multiVars => MultiIInv'
<1>. SUFFICES ASSUME MultiIInv, [MultiNext]_multiVars PROVE MultiIInv'
  OBVIOUS
<1>1. ASSUME NEW at \in Ips, NEW hit \in Answers, NEW stored \in Targets,
             Predict(at, hit, stored)
      PROVE  MultiIInv'
  BY <1>1, PredictMultiIInv
<1>2. ASSUME NEW target \in Targets, NEW taken \in BOOLEAN, NEW info \in Answers,
             Update(target, taken, info)
      PROVE  MultiIInv'
  BY <1>2, UpdateMultiIInv
<1>3. CASE UNCHANGED multiVars
  BY <1>3 DEF MultiIInv, multiVars, stacks, last, MultiTypeOK, StacksPaired,
              PendingIsOfLastReturn, Valid, LookupIsCurrent, IndirectSlot,
              AfterReturn, Slot, WrittenWhereItIsReadNext,
              IndirectReadWhereWritten, QueueSinceLastBranch
<1>. QED BY <1>1, <1>2, <1>3 DEF MultiNext

LEMMA SpecMultiIInv == MultiSpec => []MultiIInv
<1>. QED BY InitMultiIInv, NextMultiIInv, PTL DEF MultiSpec

-----------------------------------------------------------------------------
\* Type correctness of the two BTBs: above all, only calls are ever on the
\* RAS, so that the CALL_SIZE a return reads is that of a call.
THEOREM BtbTypeCorrect == MultiSpec => []MultiTypeOK
<1>1. MultiIInv => MultiTypeOK
  BY DEF MultiIInv
<1>. QED BY <1>1, SpecMultiIInv, PTL

\* However calls overflow and returns underflow them, the RAS and the SAS
\* hold the same calls, and the pending snapshot is that of the call the last
\* branch returned to.
THEOREM ReturnsAlwaysMatchCalls == MultiSpec => []ReturnsMatchCalls
<1>1. MultiIInv => ReturnsMatchCalls
  BY DEF MultiIInv, ReturnsMatchCalls
<1>. QED BY <1>1, SpecMultiIInv, PTL

\* An update writes where its prediction looked, after a return where the
\* next execution of the call will, and PRED_QUEUE holds what was predicted
\* since the last branch.
THEOREM AlwaysTrainsWhereItReads == MultiSpec => []TrainsWhereItReads
<1>1. MultiIInv => TrainsWhereItReads
  BY DEF MultiIInv, TrainsWhereItReads
<1>. QED BY <1>1, SpecMultiIInv, PTL

(***************************************************************************)
(* The basic BTBs                                                          *)
(***************************************************************************)

CodeCalls == {i \in CodeIps : CodeKind[i] \in CallTypes}

BtbEntries == [ip : CodeIps, target : CodeIps, info : {"INDIRECT", "RETURN", "CONDITIONAL", "ALWAYS_TAKEN"}]

BasicTypeOK ==
    /\ ip \in CodeIps
    /\ DOMAIN btb \subseteq Nat /\ btb \in [DOMAIN btb -> BtbEntries]
    /\ indirect \in [0 .. IndirectSize - 1 -> CodeIps \cup {0}]
    /\ callStack \in Seq(CodeCalls) /\ open \in Seq(CodeCalls)
    /\ sizeOf \in [0 .. CallSizes - 1 -> Nat]
    /\ fetchAddr \in Nat /\ newFetchBlock \in BOOLEAN
    /\ returned \subseteq CodeCalls

\* The stack holds the latest of the calls not returned to.
LatestCalls ==
    /\ Len(callStack) <= Len(open)
    /\ \A i \in 1 .. Len(callStack) :
        callStack[i] = open[Len(open) - Len(callStack) + i]

\* The size of a call that was returned to is known.
SizesKnown == \A c \in returned : sizeOf[SizeSlot(c)] = CallLength[c]

\* A block under way holds no branch so far.
InsideBlock ==
    ~newFetchBlock =>
        /\ fetchAddr <= ip
        /\ \A i \in CodeIps : fetchAddr <= i /\ i < ip => CodeKind[i] = "NOT_BRANCH"

DueIsRight == outcome.due => outcome.predicted = outcome.came

\* EntryIsOfItsBranch, without the choice
EntriesEndBlocks ==
    \A start \in DOMAIN btb :
        /\ Ends(start, btb[start].ip)
        /\ btb[start].info = InfoOf(CodeKind[btb[start].ip])

BasicIInv ==
    /\ BasicTypeOK
    /\ LatestCalls
    /\ SizesKnown
    /\ InsideBlock
    /\ DueIsRight
    /\ EntriesEndBlocks

-----------------------------------------------------------------------------
\* A block has one end.
LEMMA OneEnd ==
    ASSUME NEW start \in Nat, NEW d \in CodeIps, NEW e \in CodeIps,
           Ends(start, d), Ends(start, e)
    PROVE  d = e
<1>1. d \in Nat /\ e \in Nat
  BY BasicBtbAssumption
<1>2. ~(d < e) /\ ~(e < d)
  BY DEF Ends
<1>. QED BY <1>1, <1>2

LEMMA EndIs ==
    ASSUME NEW start \in Nat, NEW e \in CodeIps, Ends(start, e)
    PROVE  EndOf(start) = e
BY OneEnd DEF EndOf

LEMMA EntriesAreOfTheirBranches == BasicIInv => EntryIsOfItsBranch
BY EndIs DEF BasicIInv, BasicTypeOK, BtbEntries, EntriesEndBlocks, EntryIsOfItsBranch

LEMMA StackIsSuffix ==
    BasicIInv => \E n \in 0 .. Len(open) : callStack = SubSeq(open, n + 1, Len(open))
<1>. SUFFICES ASSUME BasicIInv
     PROVE  \E n \in 0 .. Len(open) : callStack = SubSeq(open, n + 1, Len(open))
  OBVIOUS
<1>. DEFINE n == Len(open) - Len(callStack)
            t == SubSeq(open, n + 1, Len(open))
<1>1. /\ open \in Seq(CodeCalls) /\ callStack \in Seq(CodeCalls)
      /\ Len(open) \in Nat /\ Len(callStack) \in Nat /\ Len(callStack) <= Len(open)
  BY LenProperties DEF BasicIInv, BasicTypeOK, LatestCalls
<1>2. n \in 0 .. Len(open)
  BY <1>1
<1>3. /\ t \in Seq(CodeCalls) /\ Len(t) = Len(callStack)
      /\ \A i \in 1 .. Len(callStack) : t[i] = open[n + i]
  BY <1>1, SubSeqProperties
<1>4. callStack = t
  <2>. HIDE DEF t
  <2>. QED BY <1>1, <1>3, SeqEqual DEF BasicIInv, LatestCalls
<1>. QED BY <1>2, <1>4

\* The place of an instruction, and the start of its block.
LEMMA BlockFacts ==
    ASSUME BasicIInv
    PROVE  /\ ip \in Nat /\ BlockStart \in Nat /\ BlockStart <= ip
           /\ \A i \in CodeIps : i \in Nat
           /\ \A i \in CodeIps : BlockStart <= i /\ i < ip => CodeKind[i] = "NOT_BRANCH"
<1>1. ip \in Nat /\ \A i \in CodeIps : i \in Nat
  BY BasicBtbAssumption DEF BasicIInv, BasicTypeOK
<1>. QED BY <1>1 DEF BasicIInv, BasicTypeOK, InsideBlock, BlockStart

LEMMA InitBasicIInv == BasicInit => BasicIInv
<1>. SUFFICES ASSUME BasicInit PROVE BasicIInv
  OBVIOUS
<1>1. BasicTypeOK
  BY BasicBtbAssumption DEF BasicInit, BasicTypeOK
<1>2. LatestCalls /\ SizesKnown /\ InsideBlock /\ DueIsRight /\ EntriesEndBlocks
  BY DEF BasicInit, LatestCalls, SizesKnown, InsideBlock, DueIsRight, EntriesEndBlocks
<1>. QED BY <1>1, <1>2 DEF BasicIInv

LEMMA StepIInv == ASSUME BasicIInv, Step PROVE BasicIInv'
<1>1. ip' \in CodeIps /\ ip' = ip + 1
  BY BasicBtbAssumption DEF Step, BasicIInv, BasicTypeOK
<1>2. BlockStart \in Nat /\ fetchAddr' = BlockStart /\ newFetchBlock' = FALSE
  BY BlockFacts DEF Step
<1>3. BasicTypeOK'
  BY <1>1, <1>2 DEF Step, BasicIInv, BasicTypeOK
<1>4. InsideBlock'
  <2>1. \A i \in CodeIps : i < ip + 1 => i < ip \/ i = ip
    BY BlockFacts
  <2>. QED BY <1>1, <1>2, <2>1, BlockFacts DEF InsideBlock, Step
<1>5. DueIsRight'
  BY DEF Step, BasicIInv, DueIsRight
<1>6. LatestCalls' /\ SizesKnown' /\ EntriesEndBlocks'
  BY DEF Step, BasicIInv, LatestCalls, SizesKnown, EntriesEndBlocks
<1>. QED BY <1>3, <1>4, <1>5, <1>6 DEF BasicIInv

LEMMA EvictIInv ==
    ASSUME BasicIInv, NEW start \in DOMAIN btb, Evict(start) PROVE BasicIInv'
<1>1. DOMAIN btb' \subseteq DOMAIN btb /\ \A s \in DOMAIN btb' : btb'[s] = btb[s]
  BY DEF Evict, Restrict
<1>2. btb' \in [DOMAIN btb' -> BtbEntries]
  BY <1>1 DEF Evict, Restrict, BasicIInv, BasicTypeOK
<1>3. BasicTypeOK'
  BY <1>1, <1>2 DEF Evict, BasicIInv, BasicTypeOK
<1>4. EntriesEndBlocks'
  BY <1>1 DEF BasicIInv, EntriesEndBlocks
<1>5. LatestCalls' /\ SizesKnown' /\ InsideBlock' /\ DueIsRight'
  BY DEF Evict, BasicIInv, LatestCalls, SizesKnown, InsideBlock, DueIsRight
<1>. QED BY <1>3, <1>4, <1>5 DEF BasicIInv

\* A full stack loses its oldest call.
LEMMA CallPushedFacts ==
    ASSUME BasicIInv, NEW call \in CodeCalls
    PROVE  LET d == IF Len(callStack) = BasicRasSize THEN 1 ELSE 0
               n == Len(callStack) + 1 - d
           IN  /\ CallPushed(call) \in Seq(CodeCalls)
               /\ Len(CallPushed(call)) = n
               /\ \A i \in 1 .. n :
                    CallPushed(call)[i] = IF i = n THEN call ELSE callStack[i + d]
<1>1. callStack \in Seq(CodeCalls) /\ Len(callStack) \in Nat /\ BasicRasSize \in Nat \ {0}
  BY BasicBtbAssumption, LenProperties DEF BasicIInv, BasicTypeOK
<1>2. CASE Len(callStack) = BasicRasSize
  <2>. DEFINE t == Tail(callStack)
  <2>1. callStack # << >>
    BY <1>1, <1>2
  <2>2. /\ t \in Seq(CodeCalls) /\ Len(t) = Len(callStack) - 1
        /\ \A i \in 1 .. Len(callStack) - 1 : t[i] = callStack[i + 1]
    BY <1>1, <2>1, HeadTailProperties
  <2>3. CallPushed(call) = Append(t, call)
    BY <1>2 DEF CallPushed
  <2>. HIDE DEF t
  <2>4. /\ Append(t, call) \in Seq(CodeCalls) /\ Len(Append(t, call)) = Len(callStack)
        /\ \A i \in 1 .. Len(callStack) - 1 : Append(t, call)[i] = t[i]
        /\ Append(t, call)[Len(callStack)] = call
    BY <1>1, <2>2, AppendProperties
  <2>. QED BY <1>1, <1>2, <2>2, <2>3, <2>4
<1>3. CASE Len(callStack) # BasicRasSize
  <2>1. CallPushed(call) = Append(callStack, call)
    BY <1>3 DEF CallPushed
  <2>. QED BY <1>1, <1>3, <2>1, AppendProperties
<1>. QED BY <1>2, <1>3

\* Where a return goes, and any other branch.
LEMMA ReturnWay ==
    ASSUME NEW way \in TargetWays("RETURN")
    PROVE  open # << >> /\ way = <<Last(open) + CallLength[Last(open)], TRUE>>
<1>. DEFINE there == <<Last(open) + CallLength[Last(open)], TRUE>>
<1>1. open = << >> => TargetWays("RETURN") = {}
  BY Zenon DEF TargetWays, ConditionalTypes
<1>2. open # << >> => TargetWays("RETURN") = {there}
  BY Zenon DEF TargetWays, ConditionalTypes
<1>. HIDE DEF there
<1>3. open # << >> /\ way = there
  BY <1>1, <1>2
<1>. QED BY <1>3 DEF there

LEMMA OtherWay ==
    ASSUME NEW kind, kind # "RETURN", NEW way \in TargetWays(kind)
    PROVE  \/ kind \in ConditionalTypes /\ way = <<0, FALSE>>
           \/ \E t \in CodeTargets[ip] : way = <<t, TRUE>>
<1>1. CASE kind \in ConditionalTypes
  <2>1. TargetWays(kind) = {<<0, FALSE>>} \cup {<<t, TRUE>> : t \in CodeTargets[ip]}
    BY Zenon, <1>1 DEF TargetWays, ConditionalTypes
  <2>. QED BY Zenon, <1>1, <2>1
<1>2. CASE kind \notin ConditionalTypes
  <2>1. TargetWays(kind) = {<<t, TRUE>> : t \in CodeTargets[ip]}
    BY Zenon, <1>2 DEF TargetWays
  <2>. QED BY Zenon, <2>1
<1>. QED BY <1>1, <1>2

\* What a branch does to the stack and to the calls not returned to.
LEMMA BranchStacks ==
    ASSUME BasicIInv, Branch
    PROVE  /\ callStack' \in Seq(CodeCalls) /\ open' \in Seq(CodeCalls)
           /\ LatestCalls'
<1>. DEFINE kind == CodeKind[ip]
<1>1. /\ open \in Seq(CodeCalls) /\ callStack \in Seq(CodeCalls) /\ ip \in CodeIps
      /\ Len(open) \in Nat /\ Len(callStack) \in Nat /\ Len(callStack) <= Len(open)
      /\ \A i \in 1 .. Len(callStack) : callStack[i] = open[Len(open) - Len(callStack) + i]
  BY LenProperties DEF BasicIInv, BasicTypeOK, LatestCalls
<1>2. /\ callStack' = CASE kind \in CallTypes -> CallPushed(ip)
                        [] kind = "RETURN" /\ callStack # << >> -> Front(callStack)
                        [] OTHER -> callStack
      /\ open' = CASE kind \in CallTypes -> Append(open, ip)
                   [] kind = "RETURN"    -> Front(open)
                   [] OTHER -> open
      /\ kind = "RETURN" => open # << >>
  <2>1. PICK way \in TargetWays(kind) :
          /\ Updated(kind, way[1], way[2])
          /\ open' = CASE kind \in CallTypes -> Append(open, ip)
                       [] kind = "RETURN"    -> Front(open)
                       [] OTHER -> open
    BY DEF Branch
  <2>2. kind = "RETURN" => open # << >>
    BY <2>1, ReturnWay
  <2>. QED BY <2>1, <2>2 DEF Updated
<1>3. CASE kind \in CallTypes
  <2>. DEFINE d == IF Len(callStack) = BasicRasSize THEN 1 ELSE 0
              n == Len(callStack) + 1 - d
  <2>0. ip \in CodeCalls
    BY <1>1, <1>3 DEF CodeCalls
  <2>1. /\ callStack' \in Seq(CodeCalls) /\ Len(callStack') = n
        /\ \A i \in 1 .. n : callStack'[i] = IF i = n THEN ip ELSE callStack[i + d]
    BY <1>2, <1>3, <2>0, CallPushedFacts DEF CallTypes
  <2>2. /\ open' \in Seq(CodeCalls) /\ Len(open') = Len(open) + 1
        /\ \A i \in 1 .. Len(open) : open'[i] = open[i]
        /\ open'[Len(open) + 1] = ip
    BY <1>1, <1>2, <1>3, <2>0, AppendProperties DEF CallTypes
  <2>3. d \in {0, 1} /\ n = Len(callStack) + 1 - d
    OBVIOUS
  <2>. HIDE DEF d, n
  <2>4. ASSUME NEW i \in 1 .. n PROVE callStack'[i] = open'[Len(open') - n + i]
    <3>1. CASE i = n
      BY <1>1, <2>1, <2>2, <2>3, <3>1
    <3>2. CASE i # n
      <4>1. i + d \in 1 .. Len(callStack) /\ Len(open) - Len(callStack) + (i + d) \in 1 .. Len(open)
        BY <1>1, <2>3, <3>2
      <4>2. Len(open') - n + i = Len(open) - Len(callStack) + (i + d)
        BY <1>1, <2>2, <2>3
      <4>. QED BY <1>1, <2>1, <2>2, <3>2, <4>1, <4>2
    <3>. QED BY <3>1, <3>2
  <2>5. n <= Len(open')
    BY <1>1, <2>2, <2>3
  <2>. QED BY <2>1, <2>2, <2>4, <2>5 DEF LatestCalls
<1>4. CASE kind = "RETURN"
  <2>1. open # << >> /\ open' = Front(open)
    BY <1>2, <1>4 DEF CallTypes
  <2>2. /\ open' \in Seq(CodeCalls) /\ Len(open') = Len(open) - 1
        /\ \A i \in 1 .. Len(open) - 1 : open'[i] = open[i]
    BY <1>1, <2>1, FrontLast DEF IsPopped
  <2>3. CASE callStack = << >>
    <3>1. callStack' = << >>
      BY <1>2, <1>4, <2>3 DEF CallTypes
    <3>. QED BY <1>1, <2>1, <2>2, <3>1, FrontLast DEF LatestCalls
  <2>4. CASE callStack # << >>
    <3>1. callStack' = Front(callStack)
      BY <1>2, <1>4, <2>4 DEF CallTypes
    <3>2. /\ callStack' \in Seq(CodeCalls) /\ Len(callStack') = Len(callStack) - 1
          /\ \A i \in 1 .. Len(callStack) - 1 : callStack'[i] = callStack[i]
          /\ Len(callStack) \in Nat \ {0}
      BY <1>1, <2>4, <3>1, FrontLast DEF IsPopped
    <3>3. ASSUME NEW i \in 1 .. Len(callStack) - 1
          PROVE  callStack'[i] = open'[Len(open') - Len(callStack') + i]
      <4>1. /\ i \in 1 .. Len(callStack)
            /\ Len(open) - Len(callStack) + i \in 1 .. Len(open) - 1
            /\ Len(open') - Len(callStack') + i = Len(open) - Len(callStack) + i
        BY <1>1, <2>2, <3>2
      <4>. QED BY <1>1, <2>2, <3>2, <4>1
    <3>. QED BY <1>1, <2>2, <3>2, <3>3 DEF LatestCalls
  <2>. QED BY <2>3, <2>4
<1>5. CASE kind \notin CallTypes /\ kind # "RETURN"
  BY <1>1, <1>2, <1>5 DEF LatestCalls
<1>. QED BY <1>3, <1>4, <1>5

\* The call on top of the stack is the one that is returned to.
LEMMA TopOfStack ==
    ASSUME BasicIInv, callStack # << >>
    PROVE  open # << >> /\ Last(callStack) = Last(open) /\ Last(open) \in CodeCalls
<1>1. /\ open \in Seq(CodeCalls) /\ callStack \in Seq(CodeCalls)
      /\ Len(open) \in Nat /\ Len(callStack) \in Nat /\ Len(callStack) <= Len(open)
      /\ \A i \in 1 .. Len(callStack) : callStack[i] = open[Len(open) - Len(callStack) + i]
  BY LenProperties DEF BasicIInv, BasicTypeOK, LatestCalls
<1>2. Len(callStack) \in 1 .. Len(callStack) /\ Len(open) # 0
  <2>1. Len(callStack) # 0
    BY <1>1, EmptySeq
  <2>. QED BY <1>1, <2>1
<1>3. callStack[Len(callStack)] = open[Len(open)]
  BY <1>1, <1>2
<1>4. open # << >>
  BY <1>1, <1>2, EmptySeq
<1>. QED BY <1>1, <1>3, <1>4, FrontLast DEF IsPopped

\* Where a branch goes.
LEMMA BranchWay ==
    ASSUME BasicIInv, Branch
    PROVE  \E target \in CodeIps \cup {0}, taken \in BOOLEAN :
              /\ <<target, taken>> \in TargetWays(CodeKind[ip])
              /\ target = 0 => CodeKind[ip] \in ConditionalTypes
              /\ CodeKind[ip] \notin ConditionalTypes => taken
              /\ taken => target \in CodeIps
              /\ Updated(CodeKind[ip], target, taken)
              /\ btb' = Entered(btb, BlockStart, CodeKind[ip], target)
              /\ ip' = IF taken THEN target ELSE ip + 1
              /\ outcome'.came = target
<1>. DEFINE kind == CodeKind[ip]
<1>1. PICK way \in TargetWays(kind) :
        /\ Updated(kind, way[1], way[2])
        /\ btb' = Entered(btb, BlockStart, kind, way[1])
        /\ ip' = IF way[2] THEN way[1] ELSE ip + 1
        /\ outcome' = [kind |-> kind, predicted |-> BasicPredicted.target, came |-> way[1],
                       hit  |-> BasicPredicted.hit,
                       due  |-> /\ BasicPredicted.hit /\ btb[BlockStart].info = "RETURN"
                                /\ kind = "RETURN" /\ Last(open) \in returned
                                /\ open = << >> \/ callStack # << >>]
  BY DEF Branch
<1>2. ip \in CodeIps /\ CodeTargets[ip] \subseteq CodeIps /\ 0 \notin CodeIps
  BY BasicBtbAssumption DEF BasicIInv, BasicTypeOK
<1>. SUFFICES /\ way[1] \in CodeIps \cup {0} /\ way[2] \in BOOLEAN
              /\ way = <<way[1], way[2]>>
              /\ way[1] = 0 => kind \in ConditionalTypes
              /\ kind \notin ConditionalTypes => way[2]
              /\ way[2] => way[1] \in CodeIps
  <2>. HIDE DEF kind
  <2>. QED BY <1>1 DEF kind
<1>3. CASE kind = "RETURN"
  <2>1. open # << >> /\ way = <<Last(open) + CallLength[Last(open)], TRUE>>
    BY <1>1, <1>3, ReturnWay
  <2>2. Last(open) \in CodeCalls
    BY <2>1, FrontLast DEF BasicIInv, BasicTypeOK, IsPopped
  <2>3. way[1] \in CodeIps /\ way[2] = TRUE
    BY <2>1, <2>2, BasicBtbAssumption DEF CodeCalls
  <2>. QED BY <1>1, <1>2, <1>3, <2>1, <2>3 DEF ConditionalTypes
<1>4. CASE kind \in ConditionalTypes
  <2>1. way = <<0, FALSE>> \/ \E t \in CodeTargets[ip] : way = <<t, TRUE>>
    BY <1>1, <1>4, OtherWay DEF ConditionalTypes
  <2>2. CASE way = <<0, FALSE>>
    BY <1>4, <2>2
  <2>3. CASE \E t \in CodeTargets[ip] : way = <<t, TRUE>>
    BY <1>2, <1>4, <2>3
  <2>. QED BY <2>1, <2>2, <2>3
<1>5. CASE kind # "RETURN" /\ kind \notin ConditionalTypes
  <2>1. \E t \in CodeTargets[ip] : way = <<t, TRUE>>
    BY <1>1, <1>5, OtherWay
  <2>. QED BY <1>2, <1>5, <2>1
<1>. QED BY <1>3, <1>4, <1>5

LEMMA BranchIInv == ASSUME BasicIInv, Branch PROVE BasicIInv'
<1>. DEFINE kind == CodeKind[ip]
<1>1. PICK target \in CodeIps \cup {0}, taken \in BOOLEAN :
              /\ <<target, taken>> \in TargetWays(kind)
              /\ target = 0 => kind \in ConditionalTypes
              /\ kind \notin ConditionalTypes => taken
              /\ taken => target \in CodeIps
              /\ Updated(kind, target, taken)
              /\ btb' = Entered(btb, BlockStart, kind, target)
              /\ ip' = IF taken THEN target ELSE ip + 1
              /\ outcome'.came = target
  BY BranchWay
<1>2. ip \in CodeIps /\ kind # "NOT_BRANCH" /\ BlockStart \in Nat /\ 0 \notin CodeIps
  BY BlockFacts, BasicBtbAssumption DEF Branch, BasicIInv, BasicTypeOK
<1>3. ip' \in CodeIps
  BY <1>1, <1>2, BasicBtbAssumption
<1>4. Ends(BlockStart, ip)
  BY <1>2, BlockFacts DEF Ends
<1>5. /\ DOMAIN btb' \subseteq Nat /\ btb' \in [DOMAIN btb' -> BtbEntries]
      /\ EntriesEndBlocks'
  <2>1. DOMAIN btb \subseteq Nat /\ btb \in [DOMAIN btb -> BtbEntries] /\ EntriesEndBlocks
    BY DEF BasicIInv, BasicTypeOK
  <2>2. CASE target = 0
    <3>1. btb' = btb
      BY <1>1, <2>2 DEF Entered
    <3>. QED BY <2>1, <3>1 DEF EntriesEndBlocks
  <2>3. CASE target # 0
    <3>. DEFINE e == [ip     |-> IF BlockStart \in DOMAIN btb THEN btb[BlockStart].ip ELSE ip,
                      target |-> target, info |-> InfoOf(kind)]
    <3>1. btb' = [s \in DOMAIN btb \cup {BlockStart} |-> IF s = BlockStart THEN e ELSE btb[s]]
      BY <1>1, <2>3 DEF Entered
    <3>2. e.ip = ip
      BY <1>2, <1>4, <2>1, OneEnd DEF EntriesEndBlocks, BtbEntries
    <3>3. InfoOf(kind) \in {"INDIRECT", "RETURN", "CONDITIONAL", "ALWAYS_TAKEN"}
      BY DEF InfoOf
    <3>4. e \in BtbEntries /\ e.info = InfoOf(kind)
      BY <1>2, <2>3, <3>2, <3>3 DEF BtbEntries
    <3>. HIDE DEF e, kind
    <3>5. DOMAIN btb' \subseteq Nat /\ btb' \in [DOMAIN btb' -> BtbEntries]
      BY <1>2, <2>1, <3>1, <3>4
    <3>6. EntriesEndBlocks'
      <4>1. ASSUME NEW s \in DOMAIN btb'
            PROVE  Ends(s, btb'[s].ip) /\ btb'[s].info = InfoOf(CodeKind[btb'[s].ip])
        <5>1. CASE s = BlockStart
          BY <1>4, <3>1, <3>2, <3>4, <5>1 DEF kind
        <5>2. CASE s # BlockStart
          BY <2>1, <3>1, <5>2 DEF EntriesEndBlocks
        <5>. QED BY <5>1, <5>2
      <4>. QED BY <4>1 DEF EntriesEndBlocks
    <3>. QED BY <3>5, <3>6
  <2>. QED BY <2>2, <2>3
<1>6. /\ sizeOf' \in [0 .. CallSizes - 1 -> Nat] /\ returned' \subseteq CodeCalls
      /\ SizesKnown'
  <2>0. /\ sizeOf \in [0 .. CallSizes - 1 -> Nat] /\ returned \subseteq CodeCalls /\ SizesKnown
        /\ CallSizes \in Nat \ {0}
    BY BasicBtbAssumption DEF BasicIInv, BasicTypeOK
  <2>1. CASE kind = "RETURN" /\ callStack # << >>
    <3>. DEFINE c == Last(open)
                l == CallLength[c]
    <3>1. c \in CodeCalls /\ c = Last(callStack) /\ c \in Nat /\ l \in Nat
      BY <2>1, TopOfStack, BasicBtbAssumption DEF CodeCalls
    <3>2. target = c + l
      <4>1. <<target, taken>> \in TargetWays("RETURN")
        BY <1>1, <2>1
      <4>. QED BY <4>1, ReturnWay
    <3>3. sizeOf' = IF l <= MaxCallSize THEN [sizeOf EXCEPT ![SizeSlot(c)] = l] ELSE sizeOf
      <4>1. sizeOf' = Learned(c, target)
        BY <1>1, <2>1, <3>1 DEF Updated
      <4>2. ~(c > target) /\ target - c = l
        BY <3>1, <3>2
      <4>. QED BY <4>1, <4>2 DEF Learned
    <3>4. returned' = {r \in returned : SizeSlot(r) # SizeSlot(c)}
                        \cup {r \in {c} : CallLength[r] <= MaxCallSize}
      BY <2>1 DEF Branch
    <3>. HIDE DEF c, l
    <3>5. \A r \in CodeCalls : SizeSlot(r) \in 0 .. CallSizes - 1
      BY <2>0, BasicBtbAssumption DEF SizeSlot, CodeCalls
    <3>6. sizeOf' \in [0 .. CallSizes - 1 -> Nat] /\ returned' \subseteq CodeCalls
      BY <2>0, <3>1, <3>3, <3>4
    <3>7. ASSUME NEW r \in returned' PROVE sizeOf'[SizeSlot(r)] = CallLength[r]
      <4>1. CASE r \in returned /\ SizeSlot(r) # SizeSlot(c)
        <5>1. sizeOf'[SizeSlot(r)] = sizeOf[SizeSlot(r)]
          BY <2>0, <3>3, <3>5, <4>1
        <5>. QED BY <2>0, <4>1, <5>1 DEF SizesKnown
      <4>2. CASE r = c /\ l <= MaxCallSize
        BY <2>0, <3>1, <3>3, <3>5, <4>2 DEF l
      <4>. QED BY <3>4, <3>7, <4>1, <4>2 DEF l
    <3>. QED BY <3>6, <3>7 DEF SizesKnown
  <2>2. CASE ~(kind = "RETURN" /\ callStack # << >>)
    BY <1>1, <2>0, <2>2 DEF Updated, Branch, SizesKnown
  <2>. QED BY <2>1, <2>2
<1>7. indirect' \in [0 .. IndirectSize - 1 -> CodeIps \cup {0}]
  BY <1>1 DEF Updated, BasicIInv, BasicTypeOK
<1>8. fetchAddr' \in Nat /\ newFetchBlock' = TRUE
  BY <1>1, <1>2 DEF Branch, Updated
<1>9. BasicTypeOK'
  BY <1>3, <1>5, <1>6, <1>7, <1>8, BranchStacks DEF BasicTypeOK
<1>10. InsideBlock'
  BY <1>8 DEF InsideBlock
<1>11. DueIsRight'
  <2>. SUFFICES ASSUME outcome'.due PROVE outcome'.predicted = target
    BY <1>1 DEF DueIsRight
  <2>1. /\ BasicPredicted.hit /\ btb[BlockStart].info = "RETURN"
        /\ kind = "RETURN" /\ Last(open) \in returned
        /\ open = << >> \/ callStack # << >>
        /\ outcome'.predicted = BasicPredicted.target
    BY DEF Branch
  <2>2. open # << >> /\ target = Last(open) + CallLength[Last(open)]
    <3>1. <<target, taken>> \in TargetWays("RETURN")
      BY <1>1, <2>1
    <3>. QED BY <3>1, ReturnWay
  <2>3. BlockStart \in DOMAIN btb
    BY <2>1 DEF BasicPredicted
  <2>4. BasicPredicted.target = Last(callStack) + sizeOf[SizeSlot(Last(callStack))]
    BY <2>1, <2>2, <2>3 DEF BasicPredicted
  <2>5. sizeOf[SizeSlot(Last(open))] = CallLength[Last(open)]
    BY <2>1 DEF BasicIInv, SizesKnown
  <2>. QED BY <2>1, <2>2, <2>4, <2>5, TopOfStack
<1>. QED BY <1>5, <1>6, <1>9, <1>10, <1>11, BranchStacks DEF BasicIInv

LEMMA NextBasicIInv == BasicIInv /\ [BasicNext]_basicVars => BasicIInv'
<1>. SUFFICES ASSUME BasicIInv, [BasicNext]_basicVars PROVE BasicIInv'
  OBVIOUS
<1>1. CASE UNCHANGED basicVars
  BY <1>1 DEF basicVars, BasicIInv, BasicTypeOK, LatestCalls, SizesKnown, InsideBlock,
              DueIsRight, EntriesEndBlocks
<1>. QED BY <1>1, StepIInv, BranchIInv, EvictIInv DEF BasicNext

LEMMA SpecBasicIInv == BasicSpec => []BasicIInv
BY InitBasicIInv, NextBasicIInv, PTL DEF BasicSpec

-----------------------------------------------------------------------------
\* For every program and all sizes: the stack is the latest of the calls not returned
\* to, a return to a call that was seen to return is predicted right, and an entry is of
\* the branch that ends its block, whatever was evicted in between.
THEOREM BasicBtbIsSound == BasicSpec => []BasicBtbSound
<1>1. BasicIInv => BasicBtbSound
  BY EntriesAreOfTheirBranches, StackIsSuffix DEF BasicBtbSound, ReturnsPredicted, BasicIInv, DueIsRight
<1>. QED BY <1>1, SpecBasicIInv, PTL

(***************************************************************************)
(* The simple direction predictors                                         *)
(***************************************************************************)

Widths == {GshareLength, PerceptronLength, WordBits}

LEMMA PowerFacts ==
    ASSUME NEW l \in Widths
    PROVE  /\ l \in Nat \ {0} /\ 2 ^ 0 = 1 /\ 2 ^ l \in Nat \ {0}
           /\ \A m \in 0 .. l : 2 ^ m \in Nat \ {0} /\ 2 ^ l = 2 ^ m * 2 ^ (l - m)
           /\ \A m \in 1 .. l : 2 ^ m = 2 * 2 ^ (m - 1)
<1>1. l \in Nat \ {0}
  BY DirectionAssumption DEF Widths
<1>2. 2 ^ 0 = 1 /\ \A m \in 0 .. l : /\ 2 ^ m \in Nat \ {0} /\ 2 ^ l = 2 ^ m * 2 ^ (l - m)
                                     /\ m > 0 => 2 ^ m = 2 * 2 ^ (m - 1)
  BY PowersOfTwo DEF Widths
<1>3. l \in 0 .. l /\ \A m \in 1 .. l : m \in 0 .. l /\ m > 0
  BY <1>1
<1>. QED BY <1>1, <1>2, <1>3

\* Quotient and remainder are unique.
LEMMA QuotientIs ==
    ASSUME NEW c \in Nat \ {0}, NEW q \in Int, NEW r \in 0 .. c - 1
    PROVE  (c * q + r) \div c = q
<1>. DEFINE x == c * q + r
            p == x \div c
            s == x % c
<1>1. x \in Int /\ p \in Int /\ s \in 0 .. c - 1 /\ x = c * p + s
  OBVIOUS
<1>. HIDE DEF p, s
<1>2. c * (q - p) = s - r
  BY <1>1
<1>. HIDE DEF x
<1>3. ASSUME q - p >= 1 PROVE FALSE
  <2>1. c * (q - p) >= c
    BY <1>1, <1>3
  <2>. QED BY <1>1, <1>2, <2>1
<1>4. ASSUME q - p <= -1 PROVE FALSE
  <2>1. c * (p - q) >= c
    BY <1>1, <1>4
  <2>2. c * (p - q) = -(c * (q - p))
    BY <1>1
  <2>. QED BY <1>1, <1>2, <2>1, <2>2
<1>5. p = q
  BY <1>1, <1>3, <1>4
<1>. QED BY <1>5 DEF p, x

LEMMA Divided ==
    ASSUME NEW x \in Nat, NEW c \in Nat \ {0}
    PROVE  x \div c \in Nat /\ x % c \in 0 .. c - 1 /\ x = c * (x \div c) + (x % c)
OBVIOUS

\* A shift by one does not change what is above a bit.
LEMMA ShiftedAbove ==
    ASSUME NEW h \in Nat, NEW b \in {0, 1}, NEW c \in Nat \ {0}
    PROVE  (2 * h + b) \div (2 * c) = h \div c
<1>. DEFINE k == h \div c
            t == h % c
<1>1. k \in Nat /\ t \in 0 .. c - 1 /\ h = c * k + t
  BY Divided
<1>. HIDE DEF k, t
<1>2. 2 * h + b = (2 * c) * k + (2 * t + b)
  BY <1>1
<1>3. 2 * t + b \in 0 .. 2 * c - 1 /\ 2 * c \in Nat \ {0} /\ k \in Int
  BY <1>1
<1>4. ((2 * c) * k + (2 * t + b)) \div (2 * c) = k
  BY <1>3, QuotientIs
<1>. QED BY <1>2, <1>4 DEF k

\* What is cut off at a higher power does not change a bit.
LEMMA CutKeepsBit ==
    ASSUME NEW x \in Nat, NEW c \in Nat \ {0}, NEW d \in Nat \ {0}
    PROVE  ((x % (c * (2 * d))) \div c) % 2 = (x \div c) % 2
<1>. DEFINE m == c * (2 * d)
            k == x \div m
            r == x % m
            a == r \div c
            t == r % c
<1>1. m \in Nat \ {0}
  OBVIOUS
<1>2. k \in Nat /\ r \in Nat /\ x = m * k + r
  <2>. HIDE DEF m
  <2>. QED BY <1>1, Divided
<1>. HIDE DEF k, r
<1>3. a \in Nat /\ t \in 0 .. c - 1 /\ r = c * a + t
  BY <1>2, Divided
<1>. HIDE DEF a, t
<1>4. x = c * (2 * (d * k) + a) + t
  BY <1>2, <1>3
<1>5. d * k \in Nat /\ 2 * (d * k) + a \in Int
  BY <1>2, <1>3
<1>6. x \div c = 2 * (d * k) + a
  <2>. DEFINE q == 2 * (d * k) + a
  <2>1. x = c * q + t /\ q \in Int /\ t \in 0 .. c - 1
    BY <1>3, <1>4, <1>5
  <2>. HIDE DEF q
  <2>2. (c * q + t) \div c = q
    BY <2>1, QuotientIs
  <2>. QED BY <2>1, <2>2 DEF q
<1>7. (2 * (d * k) + a) % 2 = a % 2
  <2>. DEFINE j == d * k
  <2>1. j \in Nat
    BY <1>5
  <2>. HIDE DEF j
  <2>2. (2 * j + a) % 2 = a % 2
    BY <1>3, <2>1
  <2>. QED BY <2>2 DEF j
<1>8. a = r \div c /\ r = x % m
  BY DEF a, r
<1>. QED BY <1>6, <1>7, <1>8

\* A shifted register has the new bit, and each other bit where the one before was.
LEMMA ShiftedBits ==
    ASSUME NEW l \in Widths, NEW h \in Nat, NEW b \in {0, 1}
    PROVE  LET n == (2 * h + b) % 2 ^ l
           IN  /\ n \in 0 .. 2 ^ l - 1
               /\ (n \div 2 ^ 0) % 2 = b
               /\ \A i \in 1 .. l - 1 : (n \div 2 ^ i) % 2 = (h \div 2 ^ (i - 1)) % 2
<1>. DEFINE x == 2 * h + b
            n == x % 2 ^ l
<1>1. /\ l \in Nat \ {0} /\ 2 ^ 0 = 1 /\ 2 ^ l \in Nat \ {0}
      /\ \A m \in 0 .. l : 2 ^ m \in Nat \ {0} /\ 2 ^ l = 2 ^ m * 2 ^ (l - m)
      /\ \A m \in 1 .. l : 2 ^ m = 2 * 2 ^ (m - 1)
  BY PowerFacts
<1>2. x \in Nat
  OBVIOUS
<1>3. n \in 0 .. 2 ^ l - 1
  <2>. DEFINE p == 2 ^ l
  <2>1. p \in Nat \ {0}
    BY <1>1
  <2>. HIDE DEF p, x
  <2>2. x % p \in 0 .. p - 1
    BY <1>2, <2>1, Divided
  <2>. QED BY <2>2 DEF p
<1>4. ASSUME NEW i \in 0 .. l - 1 PROVE (n \div 2 ^ i) % 2 = (x \div 2 ^ i) % 2
  <2>. DEFINE c == 2 ^ i
              d == 2 ^ (l - i - 1)
  <2>1. i \in 0 .. l /\ l - i \in 1 .. l /\ l - i - 1 \in 0 .. l
    BY <1>1
  <2>2. c \in Nat \ {0} /\ d \in Nat \ {0} /\ 2 ^ l = c * 2 ^ (l - i) /\ 2 ^ (l - i) = 2 * d
    BY <1>1, <2>1
  <2>3. 2 ^ l = c * (2 * d)
    BY <2>2
  <2>. HIDE DEF c, d, x
  <2>4. ((x % (c * (2 * d))) \div c) % 2 = (x \div c) % 2
    BY <1>2, <2>2, CutKeepsBit
  <2>. QED BY <2>3, <2>4 DEF c
<1>5. (n \div 2 ^ 0) % 2 = b
  <2>1. (n \div 2 ^ 0) % 2 = (x \div 2 ^ 0) % 2
    BY <1>1, <1>4
  <2>2. x \div 1 = x /\ x % 2 = b
    OBVIOUS
  <2>. HIDE DEF x, n
  <2>. QED BY <1>1, <2>1, <2>2
<1>6. ASSUME NEW i \in 1 .. l - 1 PROVE (n \div 2 ^ i) % 2 = (h \div 2 ^ (i - 1)) % 2
  <2>. DEFINE c == 2 ^ (i - 1)
  <2>1. c \in Nat \ {0} /\ 2 ^ i = 2 * c /\ i \in 0 .. l - 1
    <3>1. i - 1 \in 0 .. l /\ i \in 1 .. l /\ i \in 0 .. l - 1
      BY <1>1
    <3>. QED BY <1>1, <3>1
  <2>2. (n \div 2 ^ i) % 2 = (x \div 2 ^ i) % 2
    BY <1>4, <2>1
  <2>. HIDE DEF c, n
  <2>3. x \div (2 * c) = h \div c
    BY <2>1, ShiftedAbove
  <2>. HIDE DEF x
  <2>. QED BY <2>1, <2>2, <2>3 DEF c
<1>. QED BY <1>3, <1>5, <1>6

-----------------------------------------------------------------------------
(* What a register holds                                                   *)

Was(q, k) == k \in DOMAIN q /\ q[k]

\* The first n bits of h are the outcomes in q after the first k.
Holds(h, n, q, k) == \A b \in 1 .. n : BitOf(h, b - 1) = Was(q, k + b)

LEMMA NewestFirst ==
    ASSUME NEW q \in Seq(BOOLEAN), NEW taken \in BOOLEAN
    PROVE  /\ <<taken>> \o q \in Seq(BOOLEAN)
           /\ Was(<<taken>> \o q, 1) = taken
           /\ \A k \in Nat \ {0} : Was(<<taken>> \o q, k + 1) = Was(q, k)
<1>. DEFINE e == <<taken>>
            t == e \o q
<1>1. e \in Seq(BOOLEAN) /\ Len(e) = 1 /\ e[1] = taken
  OBVIOUS
<1>2. Len(q) \in Nat /\ DOMAIN q = 1 .. Len(q)
  BY LenProperties
<1>. HIDE DEF e
<1>3. /\ t \in Seq(BOOLEAN) /\ Len(t) = 1 + Len(q)
      /\ \A i \in 1 .. 1 + Len(q) : t[i] = IF i <= 1 THEN e[i] ELSE q[i - 1]
  <2>1. e \in Seq(BOOLEAN)
    BY <1>1
  <2>2. /\ t \in Seq(BOOLEAN) /\ Len(t) = Len(e) + Len(q)
        /\ \A i \in 1 .. Len(e) + Len(q) : t[i] = IF i <= Len(e) THEN e[i] ELSE q[i - Len(e)]
    BY <2>1, ConcatProperties
  <2>. HIDE DEF t
  <2>. QED BY <1>1, <1>2, <2>2
<1>4. DOMAIN t = 1 .. 1 + Len(q)
  BY <1>3, LenProperties
<1>. HIDE DEF t
<1>5. Was(t, 1) = taken
  BY <1>1, <1>2, <1>3, <1>4 DEF Was
<1>6. ASSUME NEW k \in Nat \ {0} PROVE Was(t, k + 1) = Was(q, k)
  <2>1. k + 1 \in DOMAIN t <=> k \in DOMAIN q
    BY <1>2, <1>4
  <2>2. k \in DOMAIN q => t[k + 1] = q[k]
    <3>1. k \in DOMAIN q => k + 1 \in 1 .. 1 + Len(q) /\ ~(k + 1 <= 1) /\ (k + 1) - 1 = k
      BY <1>2
    <3>. QED BY <1>3, <3>1
  <2>. QED BY <2>1, <2>2 DEF Was
<1>. QED BY <1>3, <1>5, <1>6 DEF t, e

\* A register is shifted; the bit that comes in is the outcome before its first one.
LEMMA ShiftHolds ==
    ASSUME NEW l \in Widths, NEW h \in Nat, NEW b \in {0, 1}, NEW q \in Seq(BOOLEAN),
           NEW taken \in BOOLEAN, NEW k \in Nat, Holds(h, l, q, k),
           (b = 1) = Was(<<taken>> \o q, k + 1)
    PROVE  /\ (2 * h + b) % 2 ^ l \in 0 .. 2 ^ l - 1
           /\ Holds((2 * h + b) % 2 ^ l, l, <<taken>> \o q, k)
<1>. DEFINE n == (2 * h + b) % 2 ^ l
            t == <<taken>> \o q
<1>1. /\ n \in 0 .. 2 ^ l - 1
      /\ (n \div 2 ^ 0) % 2 = b
      /\ \A i \in 1 .. l - 1 : (n \div 2 ^ i) % 2 = (h \div 2 ^ (i - 1)) % 2
  BY ShiftedBits
<1>2. l \in Nat \ {0}
  BY PowerFacts
<1>3. \A j \in Nat \ {0} : Was(t, j + 1) = Was(q, j)
  BY NewestFirst
<1>. HIDE DEF n, t
<1>4. ASSUME NEW i \in 1 .. l PROVE BitOf(n, i - 1) = Was(t, k + i)
  <2>1. CASE i = 1
    <3>1. BitOf(n, 0) = (b = 1)
      BY <1>1 DEF BitOf
    <3>2. (b = 1) = Was(t, k + 1)
      BY DEF t
    <3>. QED BY <2>1, <3>1, <3>2
  <2>2. CASE i # 1
    <3>. DEFINE j == i - 1
    <3>1. j \in 1 .. l - 1 /\ j \in 1 .. l /\ k + j \in Nat \ {0} /\ k + i = (k + j) + 1
      BY <1>2, <2>2
    <3>. HIDE DEF j
    <3>2. Was(t, (k + j) + 1) = Was(q, k + j)
      BY <1>3, <3>1
    <3>3. BitOf(h, j - 1) = Was(q, k + j)
      BY <3>1 DEF Holds
    <3>4. BitOf(n, j) = BitOf(h, j - 1)
      BY <1>1, <3>1 DEF BitOf
    <3>. QED BY <3>1, <3>2, <3>3, <3>4 DEF j
  <2>. QED BY <2>1, <2>2
<1>5. Holds(n, l, t, k)
  BY <1>4 DEF Holds
<1>. QED BY <1>1, <1>5 DEF n, t

LEMMA BitOfTaken == ASSUME NEW b \in BOOLEAN PROVE Bit01(b) \in {0, 1} /\ (Bit01(b) = 1) = b
BY DEF Bit01

LEMMA HistoryHolds ==
    ASSUME NEW l \in Widths, NEW h \in Nat, NEW q \in Seq(BOOLEAN), NEW taken \in BOOLEAN,
           Holds(h, l, q, 0)
    PROVE  /\ HistoryShifted(h, taken, l) \in Nat
           /\ Holds(HistoryShifted(h, taken, l), l, <<taken>> \o q, 0)
<1>. DEFINE b == Bit01(taken)
            n == (2 * h + b) % 2 ^ l
<1>1. b \in {0, 1} /\ (b = 1) = taken
  BY BitOfTaken
<1>2. Was(<<taken>> \o q, 0 + 1) = taken
  BY NewestFirst
<1>3. n = HistoryShifted(h, taken, l)
  BY DEF HistoryShifted
<1>. HIDE DEF b
<1>4. n \in 0 .. 2 ^ l - 1 /\ Holds(n, l, <<taken>> \o q, 0)
  BY <1>1, <1>2, ShiftHolds
<1>. HIDE DEF n
<1>5. 2 ^ l \in Nat
  BY PowerFacts
<1>6. n \in Nat
  BY <1>4, <1>5
<1>. QED BY <1>3, <1>4, <1>6

WordsHold(words, q) ==
    /\ DOMAIN words = 1 .. HistoryWords
    /\ \A i \in 1 .. HistoryWords :
          words[i] \in 0 .. 2 ^ WordBits - 1 /\ Holds(words[i], WordBits, q, (i - 1) * WordBits)

LEMMA WordsShiftedHold ==
    ASSUME NEW words, NEW q \in Seq(BOOLEAN), NEW taken \in BOOLEAN, WordsHold(words, q)
    PROVE  WordsHold(WordsShifted(words, taken), <<taken>> \o q)
<1>. DEFINE W == WordBits
            n == WordsShifted(words, taken)
            t == <<taken>> \o q
            b(i) == IF i = 1 THEN Bit01(taken) ELSE words[i - 1] \div 2 ^ (W - 1)
<1>1. /\ W \in Nat \ {0} /\ 2 ^ W \in Nat \ {0} /\ 2 ^ (W - 1) \in Nat \ {0}
      /\ 2 ^ W = 2 * 2 ^ (W - 1) /\ W \in Widths /\ HistoryWords \in Nat \ {0}
  <2>1. W \in Widths
    BY DEF Widths
  <2>2. W \in Nat \ {0}
    BY <2>1, PowerFacts
  <2>3. W \in 1 .. W /\ W - 1 \in 0 .. W
    BY <2>2
  <2>. QED BY <2>1, <2>3, PowerFacts, DirectionAssumption
<1>2. DOMAIN n = 1 .. HistoryWords /\ \A i \in 1 .. HistoryWords : n[i] = (2 * words[i] + b(i)) % 2 ^ W
  BY DEF WordsShifted, WordsHold
<1>3. /\ t \in Seq(BOOLEAN) /\ Was(t, 1) = taken
      /\ \A k \in Nat \ {0} : Was(t, k + 1) = Was(q, k)
  BY NewestFirst
<1>. HIDE DEF n, t
<1>4. ASSUME NEW i \in 1 .. HistoryWords
      PROVE  n[i] \in 0 .. 2 ^ W - 1 /\ Holds(n[i], W, t, (i - 1) * W)
  <2>. DEFINE k == (i - 1) * W
              c == b(i)
  <2>1. k \in Nat
    BY <1>1
  <2>2. c \in {0, 1} /\ (c = 1) = Was(t, k + 1)
    <3>1. CASE i = 1
      <4>1. c = Bit01(taken) /\ k = 0
        BY <1>1, <3>1
      <4>. HIDE DEF c, k
      <4>. QED BY <1>3, <4>1, BitOfTaken
    <3>2. CASE i # 1
      <4>. DEFINE x == words[i - 1]
                  p == 2 ^ (W - 1)
      <4>1. i - 1 \in 1 .. HistoryWords
        BY <1>1, <3>2
      <4>2. x \in 0 .. 2 * p - 1 /\ p \in Nat \ {0} /\ Holds(x, W, q, (i - 1 - 1) * W)
        BY <1>1, <4>1 DEF WordsHold
      <4>3. c = x \div p
        BY <3>2
      <4>4. W \in 1 .. W /\ (i - 1 - 1) * W + W = k /\ k \in Nat \ {0}
        <5>1. i - 1 - 1 \in Nat /\ i - 1 = (i - 1 - 1) + 1
          BY <4>1
        <5>. HIDE DEF p
        <5>. DEFINE a == i - 1 - 1
        <5>2. (a + 1) * W = a * W + W /\ a * W \in Nat
          BY <1>1, <5>1
        <5>. QED BY <1>1, <5>1, <5>2
      <4>5. ((x \div p) % 2 = 1) = Was(q, k)
        BY <4>2, <4>4 DEF Holds, BitOf
      <4>. HIDE DEF x, p, c, k
      <4>6. x \div p \in {0, 1}
        <5>1. x \in Nat
          BY <4>2
        <5>2. x \div p \in Nat /\ x % p \in 0 .. p - 1 /\ x = p * (x \div p) + (x % p)
          BY <4>2, <5>1, Divided
        <5>3. x \div p >= 2 => p * (x \div p) >= 2 * p
          BY <4>2, <5>2
        <5>. QED BY <4>2, <5>2, <5>3
      <4>7. Was(t, k + 1) = Was(q, k)
        BY <1>3, <4>4
      <4>. QED BY <4>3, <4>5, <4>6, <4>7
    <3>. QED BY <3>1, <3>2
  <2>3. words[i] \in Nat /\ Holds(words[i], W, q, k)
    BY <1>1 DEF WordsHold
  <2>4. n[i] = (2 * words[i] + c) % 2 ^ W
    BY <1>2
  <2>. DEFINE h == words[i]
  <2>. HIDE DEF c, k, W, h
  <2>5. (2 * h + c) % 2 ^ W \in 0 .. 2 ^ W - 1 /\ Holds((2 * h + c) % 2 ^ W, W, t, k)
    BY <1>1, <2>1, <2>2, <2>3, ShiftHolds DEF t, h
  <2>. QED BY <2>4, <2>5 DEF k, h
<1>. QED BY <1>2, <1>4 DEF WordsHold, n, t

-----------------------------------------------------------------------------
(* The buffer of the perceptron                                            *)

\* Removing what was appended last
LEMMA RemovedLast ==
    ASSUME NEW S, NEW p \in Seq(S), NEW e \in S
    PROVE  RemoveAt(Append(p, e), Len(p) + 1) = p
<1>. DEFINE t == Append(p, e)
            n == Len(p)
            a == SubSeq(t, 1, n)
            b == SubSeq(t, n + 2, n + 1)
<1>1. /\ n \in Nat /\ DOMAIN p = 1 .. n /\ t \in Seq(S) /\ Len(t) = n + 1
      /\ \A i \in 1 .. n : t[i] = p[i]
  BY AppendProperties, LenProperties
<1>2. RemoveAt(t, n + 1) = a \o b
  <2>. HIDE DEF t
  <2>1. (n + 1) - 1 = n /\ (n + 1) + 1 = n + 2 /\ Len(t) = n + 1
    BY <1>1
  <2>. HIDE DEF n
  <2>. QED BY <2>1, Zenon DEF RemoveAt
<1>. HIDE DEF t, n
<1>3. /\ a \in Seq(S) /\ Len(a) = n /\ \A i \in 1 .. n : a[i] = t[i]
  <2>1. 1 \in 1 .. Len(t) + 1 /\ n \in 0 .. Len(t) /\ n \in 1 - 1 .. Len(t)
    BY <1>1
  <2>. QED BY <1>1, <2>1, SubSeqProperties
<1>4. b = << >>
  BY <1>1, SubSeqProperties
<1>5. a \o b = a
  <2>. HIDE DEF a
  <2>. QED BY <1>3, <1>4, ConcatEmptySeq
<1>6. a = p
  <2>1. DOMAIN a = 1 .. n
    BY <1>3, LenProperties
  <2>. HIDE DEF a
  <2>2. a \in Seq(S) /\ p \in Seq(S) /\ Len(a) = Len(p) /\ \A i \in 1 .. Len(p) : a[i] = p[i]
    BY <1>1, <1>3 DEF n
  <2>. QED BY <2>2, SeqEqual
<1>. QED BY <1>2, <1>5, <1>6 DEF t, n

\* The states of instructions that are no branches wait.
StatesWait(q) ==
    /\ \E S : q \in Seq(S)
    /\ \A i \in DOMAIN q : q[i].ip \in NonBranches

LEMMA SavedWait ==
    ASSUME NEW q, StatesWait(q), NEW e
    PROVE  \E S, p : /\ p \in Seq(S) /\ e \in S /\ StatesWait(p)
                     /\ Saved(q, e) = Append(p, e)
<1>1. PICK T : q \in Seq(T)
  BY DEF StatesWait
<1>. DEFINE S == T \cup {e}
<1>2. q \in Seq(S) /\ e \in S
  BY <1>1, SeqMonotonic
<1>. HIDE DEF S
<1>3. CASE Len(q) = UpdateEntries
  <2>1. q # << >>
    <3>1. Len(<< >>) = 0 /\ UpdateEntries # 0
      BY DirectionAssumption
    <3>. QED BY <1>3, <3>1
  <2>2. /\ Tail(q) \in Seq(S) /\ Len(Tail(q)) = Len(q) - 1
        /\ \A i \in 1 .. Len(q) - 1 : Tail(q)[i] = q[i + 1]
    BY <1>2, <2>1, HeadTailProperties
  <2>3. Len(q) \in Nat /\ DOMAIN q = 1 .. Len(q) /\ DOMAIN Tail(q) = 1 .. Len(q) - 1
    BY <1>2, <2>2, LenProperties
  <2>. DEFINE p == Tail(q)
  <2>. HIDE DEF p
  <2>4. \A i \in DOMAIN p : i + 1 \in DOMAIN q /\ p[i] = q[i + 1]
    BY <2>2, <2>3 DEF p
  <2>5. StatesWait(p)
    BY <2>2, <2>4 DEF StatesWait, p
  <2>. QED BY <1>2, <1>3, <2>2, <2>5 DEF Saved, p
<1>4. CASE Len(q) # UpdateEntries
  BY <1>2, <1>4 DEF Saved
<1>. QED BY <1>3, <1>4

\* A branch finds the state that it has just saved, and no other.
OwnState(d, pc, p, e) ==
    /\ StatesOf(d, pc) # {} /\ Min(StatesOf(d, pc)) = Len(p) + 1
    /\ d.states[Len(p) + 1] = e
    /\ RemoveAt(d.states, Len(p) + 1) = p

LEMMA OwnStateFound ==
    ASSUME NEW d, NEW S, NEW p \in Seq(S), NEW e \in S, StatesWait(p),
           d.states = Append(p, e), NEW pc \in Branches, e.ip = pc
    PROVE  OwnState(d, pc, p, e)
<1>. DEFINE t == d.states
            n == Len(p)
<1>1. /\ n \in Nat /\ DOMAIN p = 1 .. n /\ DOMAIN t = 1 .. n + 1
      /\ t[n + 1] = e /\ \A i \in 1 .. n : t[i] = p[i]
  <2>1. /\ n \in Nat /\ DOMAIN p = 1 .. n /\ DOMAIN Append(p, e) = 1 .. n + 1
        /\ Append(p, e)[n + 1] = e /\ \A i \in 1 .. n : Append(p, e)[i] = p[i]
    BY AppendProperties, LenProperties
  <2>. QED BY <2>1
<1>2. RemoveAt(t, n + 1) = p
  BY RemovedLast
<1>. HIDE DEF t, n
<1>3. \A i \in 1 .. n : t[i].ip # pc
  BY <1>1, DirectionAssumption DEF StatesWait
<1>4. StatesOf(d, pc) = {n + 1}
  <2>1. \A i : i \in 1 .. n + 1 <=> i \in 1 .. n \/ i = n + 1
    BY <1>1
  <2>. QED BY <1>1, <1>3, <2>1 DEF StatesOf, t
<1>5. Min({n + 1}) = n + 1
  <2>1. {n + 1} \subseteq Nat /\ {n + 1} # {}
    BY <1>1
  <2>2. Min({n + 1}) \in {n + 1}
    BY <2>1, MinIsIn
  <2>. QED BY <2>2
<1>. QED BY <1>1, <1>2, <1>4, <1>5 DEF OwnState, t, n

-----------------------------------------------------------------------------
(* A predictor                                                             *)

DirectionFields ==
    {"kind", "count", "table", "history", "spec", "states", "words", "places", "yout",
     "theta", "tc"}

DirectionShape(d) ==
    /\ DOMAIN d = DirectionFields
    /\ d.kind \in {"bimodal", "gshare", "perceptron", "hashed"}
    /\ d.count \in Nat /\ d.history \in Nat
    /\ StatesWait(d.states)
    /\ d.yout \in Int /\ d.tc \in Int /\ d.theta \in Nat
    /\ d.kind = "hashed" => \A x \in DOMAIN d.table : d.table[x] \in Int

DirectionHolds(d, q) ==
    /\ d.kind = "hashed" => WordsHold(d.words, q)
    /\ d.kind = "gshare" => Holds(d.history, GshareLength, q, 0)
    /\ d.kind = "perceptron" => Holds(d.history, PerceptronLength, q, 0)

DirectionIInv ==
    /\ outcomes \in Seq(BOOLEAN)
    /\ DirectionShape(dir) /\ DirectionHolds(dir, outcomes)
    /\ TrainsItsOwn

\* The last of the states of x is the prediction of pc; those before it wait.
SavedLast(x, pc) ==
    \E S, p, e : /\ p \in Seq(S) /\ e \in S /\ StatesWait(p)
                 /\ x.states = Append(p, e) /\ e.ip = pc /\ e.count = x.count

\* What asking for pc makes of d
AskedOf(d, x, pc) ==
    /\ DOMAIN x = DirectionFields
    /\ x.kind = d.kind /\ x.count = d.count /\ x.history = d.history /\ x.words = d.words
    /\ x.table = d.table /\ x.tc = d.tc /\ x.theta = d.theta /\ x.yout \in Int
    /\ IF d.kind = "perceptron" THEN SavedLast(x, pc) ELSE x.states = d.states

\* The sum of the weights
YoutStep(par, acc, e) == acc + e
YoutInv(par, k, acc)  == acc \in Int

YoutLoop == INSTANCE FoldInduction WITH Op <- YoutStep, Inv <- YoutInv

LEMMA SumIsInt ==
    ASSUME NEW n \in Nat, NEW s, DOMAIN s = 1 .. n, \A i \in 1 .. n : s[i] \in Int
    PROVE  FoldLeft(+, 0, s) \in Int
<1>1. FoldLeft(+, 0, s) = YoutLoop!Fold(0, 0, s)
  BY DEF YoutLoop!Fold, YoutStep, FoldLeft, YoutLoop!FoldLeft, MapThenFoldSet,
         YoutLoop!MapThenFoldSet, Max, YoutLoop!Max
<1>2. YoutInv(0, 0, 0) /\ YoutLoop!KeepsTo(0, s, n)
  BY DEF YoutInv, YoutStep, YoutLoop!KeepsTo
<1>3. YoutInv(0, n, YoutLoop!Fold(0, 0, s))
  BY <1>2, YoutLoop!FoldKeepsTo
<1>. QED BY <1>1, <1>3 DEF YoutInv

LEMMA AskedKeeps ==
    ASSUME NEW d, DirectionShape(d), NEW pc
    PROVE  AskedOf(d, DirectionAsked(d, pc), pc)
<1>. USE DEF DirectionShape, DirectionFields
<1>1. CASE d.kind = "perceptron"
  <2>. DEFINE x == PerceptronAsked(d, pc)
              e == [ip |-> pc, output |-> Output(PerceptronOf(d, pc), d.spec),
                    history |-> d.spec, count |-> d.count]
  <2>1. PICK S, p : p \in Seq(S) /\ e \in S /\ StatesWait(p) /\ Saved(d.states, e) = Append(p, e)
    BY SavedWait
  <2>2. /\ DOMAIN x = DOMAIN d /\ x.states = Saved(d.states, e)
        /\ \A f \in DirectionFields \ {"states", "spec"} : x[f] = d[f]
    BY DEF PerceptronAsked
  <2>3. e.ip = pc /\ e.count = d.count
    OBVIOUS
  <2>4. x = DirectionAsked(d, pc)
    BY <1>1 DEF DirectionAsked
  <2>. HIDE DEF x, e
  <2>5. SavedLast(x, pc)
    BY <2>1, <2>2, <2>3 DEF SavedLast
  <2>6. AskedOf(d, x, pc)
    BY <1>1, <2>2, <2>5 DEF AskedOf
  <2>. QED BY <2>4, <2>6
<1>2. CASE d.kind = "hashed"
  <2>. DEFINE x == HashedAsked(d, pc)
              places == [i \in DOMAIN HistoryLengths |-> HashedPlace(d, pc, HistoryLengths[i])]
              s == [i \in DOMAIN places |-> At(d.table, <<i, places[i]>>, 0)]
  <2>1. /\ DOMAIN x = DOMAIN d /\ x.yout = FoldLeft(+, 0, s)
        /\ \A f \in DirectionFields \ {"places", "yout"} : x[f] = d[f]
    BY DEF HashedAsked
  <2>2. Len(HistoryLengths) \in Nat /\ DOMAIN HistoryLengths = 1 .. Len(HistoryLengths)
    BY DirectionAssumption, LenProperties
  <2>3. DOMAIN s = 1 .. Len(HistoryLengths) /\ \A i \in DOMAIN s : s[i] \in Int
    BY <1>2, <2>2 DEF At
  <2>. HIDE DEF s
  <2>4. FoldLeft(+, 0, s) \in Int
    BY <2>2, <2>3, SumIsInt
  <2>5. x = DirectionAsked(d, pc)
    BY <1>2 DEF DirectionAsked
  <2>6. x.yout \in Int
    BY <2>1, <2>4, Zenon
  <2>7. DOMAIN x = DirectionFields /\ \A f \in DirectionFields \ {"places", "yout"} : x[f] = d[f]
    BY <2>1
  <2>. HIDE DEF x
  <2>8. AskedOf(d, x, pc)
    BY <1>2, <2>6, <2>7 DEF AskedOf
  <2>. QED BY <2>5, <2>8
<1>3. CASE d.kind \notin {"perceptron", "hashed"}
  <2>1. DirectionAsked(d, pc) = d
    BY <1>3 DEF DirectionAsked
  <2>. QED BY <1>3, <2>1 DEF AskedOf
<1>. QED BY <1>1, <1>2, <1>3

\* A branch goes the way taken: the predictor keeps its shape and has one more outcome.
TrainedKeepsIt(d, x, pc, taken, q) ==
    /\ DirectionShape(DirectionTrained(x, pc, taken))
    /\ DirectionHolds(DirectionTrained(x, pc, taken), <<taken>> \o q)
    /\ TrainedPrediction(x, pc) = x.count

LEMMA CounterTrainedKeeps ==
    ASSUME NEW d, DirectionShape(d), NEW pc \in Branches, NEW x, AskedOf(d, x, pc),
           NEW taken \in BOOLEAN, NEW q \in Seq(BOOLEAN), DirectionHolds(d, q),
           d.kind \in {"bimodal", "gshare"}
    PROVE  TrainedKeepsIt(d, x, pc, taken, q)
<1>. DEFINE y == CounterTrained(x, pc, taken)
            h == HistoryShifted(x.history, taken, GshareLength)
<1>1. /\ DOMAIN x = DirectionFields
      /\ x.kind = d.kind /\ x.count = d.count /\ x.history = d.history
      /\ x.tc = d.tc /\ x.theta = d.theta /\ x.yout \in Int /\ x.states = d.states
  BY DEF AskedOf
<1>2. /\ DOMAIN y = DirectionFields
      /\ \A f \in DirectionFields \ {"table", "history"} : y[f] = x[f]
      /\ y.history = IF x.kind = "gshare" THEN h ELSE x.history
  BY <1>1 DEF CounterTrained, DirectionFields
<1>3. y = DirectionTrained(x, pc, taken)
  BY <1>1 DEF DirectionTrained
<1>4. d.kind = "gshare" => h \in Nat /\ Holds(h, GshareLength, <<taken>> \o q, 0)
  <2>1. GshareLength \in Widths
    BY DEF Widths
  <2>2. d.kind = "gshare" => d.history \in Nat /\ Holds(d.history, GshareLength, q, 0)
    BY DEF DirectionShape, DirectionHolds
  <2>. QED BY <1>1, <2>1, <2>2, HistoryHolds
<1>5. TrainedPrediction(x, pc) = x.count
  BY <1>1 DEF TrainedPrediction
<1>. HIDE DEF y, h
<1>6. DirectionShape(y)
  BY <1>1, <1>2, <1>4 DEF DirectionShape, DirectionFields
<1>7. DirectionHolds(y, <<taken>> \o q)
  BY <1>1, <1>2, <1>4 DEF DirectionHolds, DirectionFields
<1>. QED BY <1>3, <1>5, <1>6, <1>7 DEF TrainedKeepsIt

LEMMA PerceptronTrainedKeeps ==
    ASSUME NEW d, DirectionShape(d), NEW pc \in Branches, NEW x, AskedOf(d, x, pc),
           NEW taken \in BOOLEAN, NEW q \in Seq(BOOLEAN), DirectionHolds(d, q),
           d.kind = "perceptron"
    PROVE  TrainedKeepsIt(d, x, pc, taken, q)
<1>. DEFINE y == PerceptronTrained(x, pc, taken)
            h == HistoryShifted(x.history, taken, PerceptronLength)
<1>1. /\ DOMAIN x = DirectionFields
      /\ x.kind = d.kind /\ x.count = d.count /\ x.history = d.history
      /\ x.tc = d.tc /\ x.theta = d.theta /\ x.yout \in Int /\ SavedLast(x, pc)
  BY DEF AskedOf
<1>2. PICK S, p, e : /\ p \in Seq(S) /\ e \in S /\ StatesWait(p)
                     /\ x.states = Append(p, e) /\ e.ip = pc /\ e.count = x.count
  BY <1>1 DEF SavedLast
<1>. DEFINE i == Len(p) + 1
<1>3. /\ StatesOf(x, pc) # {} /\ Min(StatesOf(x, pc)) = i /\ x.states[i] = e
      /\ RemoveAt(x.states, i) = p
  <2>1. OwnState(x, pc, p, e)
    BY <1>2, OwnStateFound
  <2>. QED BY <2>1 DEF OwnState
<1>. HIDE DEF i
<1>4. /\ DOMAIN y = DirectionFields
      /\ y.states = p /\ y.history = h
      /\ \A f \in DirectionFields \ {"table", "history", "states", "spec"} : y[f] = x[f]
  BY <1>1, <1>3 DEF PerceptronTrained, DirectionFields
<1>5. y = DirectionTrained(x, pc, taken)
  BY <1>1 DEF DirectionTrained
<1>6. h \in Nat /\ Holds(h, PerceptronLength, <<taken>> \o q, 0)
  <2>1. PerceptronLength \in Widths
    BY DEF Widths
  <2>2. d.history \in Nat /\ Holds(d.history, PerceptronLength, q, 0)
    BY DEF DirectionShape, DirectionHolds
  <2>. QED BY <1>1, <2>1, <2>2, HistoryHolds
<1>7. TrainedPrediction(x, pc) = x.count
  BY <1>1, <1>2, <1>3 DEF TrainedPrediction
<1>. HIDE DEF y, h
<1>8. DirectionShape(y)
  BY <1>1, <1>2, <1>4, <1>6 DEF DirectionShape, DirectionFields
<1>9. DirectionHolds(y, <<taken>> \o q)
  BY <1>1, <1>4, <1>6 DEF DirectionHolds, DirectionFields
<1>. QED BY <1>5, <1>7, <1>8, <1>9 DEF TrainedKeepsIt

ThetaOf(d, y) ==
    /\ DOMAIN y = DirectionFields /\ y.theta \in Nat /\ y.tc \in Int
    /\ \A f \in DirectionFields \ {"theta", "tc"} : y[f] = d[f]

LEMMA ThetaKeeps ==
    ASSUME NEW d, DOMAIN d = DirectionFields, d.theta \in Nat, d.tc \in Int, NEW right \in BOOLEAN,
           right => d.theta > 0
    PROVE  ThetaOf(d, ThetaUpdated(d, right))
<1>. DEFINE y == ThetaUpdated(d, right)
<1>1. ASSUME NEW theta \in Nat, NEW tc \in Int
      PROVE  /\ ThetaOf(d, [d EXCEPT !.theta = theta, !.tc = tc])
             /\ ThetaOf(d, [d EXCEPT !.tc = tc])
  BY DEF ThetaOf, DirectionFields
<1>2. Speed \in Nat
  BY DirectionAssumption
<1>3. CASE ~right
  <2>1. \/ y = [d EXCEPT !.theta = d.theta + 1, !.tc = 0]
        \/ y = [d EXCEPT !.tc = d.tc + 1]
    BY <1>3 DEF ThetaUpdated
  <2>2. d.theta + 1 \in Nat /\ 0 \in Int /\ d.tc + 1 \in Int
    OBVIOUS
  <2>. HIDE DEF y
  <2>3. ThetaOf(d, y)
    BY <1>1, <2>1, <2>2
  <2>. QED BY <2>3 DEF y
<1>4. CASE right
  <2>1. \/ y = [d EXCEPT !.theta = d.theta - 1, !.tc = 0]
        \/ y = [d EXCEPT !.tc = d.tc - 1]
    BY <1>4 DEF ThetaUpdated
  <2>2. d.theta - 1 \in Nat /\ 0 \in Int /\ d.tc - 1 \in Int
    BY <1>4
  <2>. HIDE DEF y
  <2>3. ThetaOf(d, y)
    BY <1>1, <2>1, <2>2
  <2>. QED BY <2>3 DEF y
<1>. QED BY <1>3, <1>4

LEMMA HashedTrainedKeeps ==
    ASSUME NEW d, DirectionShape(d), NEW pc \in Branches, NEW x, AskedOf(d, x, pc),
           NEW taken \in BOOLEAN, NEW q \in Seq(BOOLEAN), DirectionHolds(d, q),
           d.kind = "hashed"
    PROVE  TrainedKeepsIt(d, x, pc, taken, q)
<1>. DEFINE y == HashedTrained(x, taken)
            right == taken = (x.yout >= 1)
            used  == {<<i, x.places[i]>> : i \in DOMAIN x.places}
            table == [u \in DOMAIN x.table \cup used |->
                        IF u \in used THEN SignedUpdated(At(x.table, u, 0), taken, WeightBits)
                        ELSE x.table[u]]
            words == WordsShifted(x.words, taken)
            e == [x EXCEPT !.words = words]
            t == [e EXCEPT !.table = table]
            strong == right /\ Absolute(x.yout) >= x.theta
<1>1. /\ DOMAIN x = DirectionFields
      /\ x.kind = d.kind /\ x.count = d.count /\ x.words = d.words /\ x.history = d.history
      /\ x.tc = d.tc /\ x.theta = d.theta /\ x.yout \in Int /\ x.states = d.states
      /\ x.table = d.table
  BY DEF AskedOf
<1>2. \A u \in DOMAIN table : table[u] \in Int
  <2>1. \A u \in DOMAIN x.table : x.table[u] \in Int
    BY <1>1 DEF DirectionShape
  <2>2. \A u : At(x.table, u, 0) \in Int
    BY <2>1 DEF At
  <2>3. \A c \in Int : SignedUpdated(c, taken, WeightBits) \in Int
    BY DEF SignedUpdated, Saturated
  <2>. HIDE DEF used
  <2>. QED BY <2>1, <2>2, <2>3
<1>3. WordsHold(words, <<taken>> \o q)
  <2>1. WordsHold(d.words, q)
    BY DEF DirectionHolds
  <2>. QED BY <1>1, <2>1, WordsShiftedHold
<1>4. y = IF strong THEN e ELSE ThetaUpdated(t, right)
  BY DEF HashedTrained
<1>5. y = DirectionTrained(x, pc, taken)
  BY <1>1 DEF DirectionTrained
<1>6. TrainedPrediction(x, pc) = x.count
  BY <1>1 DEF TrainedPrediction
<1>. HIDE DEF table, words
<1>7. /\ DOMAIN e = DirectionFields /\ e.words = words
      /\ \A f \in DirectionFields \ {"words"} : e[f] = x[f]
      /\ DOMAIN t = DirectionFields /\ t.words = words /\ t.table = table
      /\ \A f \in DirectionFields \ {"words", "table"} : t[f] = x[f]
  BY <1>1 DEF DirectionFields
<1>8. /\ d.theta \in Nat /\ d.tc \in Int /\ d.count \in Nat /\ d.history \in Nat
      /\ StatesWait(d.states) /\ \A u \in DOMAIN d.table : d.table[u] \in Int
  BY DEF DirectionShape
<1>. HIDE DEF y, e, t
<1>9. CASE strong
  <2>1. DirectionShape(e)
    BY <1>1, <1>7, <1>8 DEF DirectionShape, DirectionFields
  <2>2. DirectionHolds(e, <<taken>> \o q)
    BY <1>1, <1>3, <1>7 DEF DirectionHolds, DirectionFields
  <2>. QED BY <1>4, <1>5, <1>6, <1>9, <2>1, <2>2 DEF TrainedKeepsIt
<1>10. CASE ~strong
  <2>1. t.theta \in Nat /\ t.tc \in Int /\ right \in BOOLEAN
    BY <1>1, <1>7, <1>8 DEF DirectionFields
  <2>2. right => t.theta > 0
    <3>1. right => Absolute(x.yout) < x.theta
      <4>1. Absolute(x.yout) \in Int /\ x.theta \in Int
        BY <1>1, <1>8 DEF Absolute
      <4>. QED BY <1>10, <4>1
    <3>2. Absolute(x.yout) >= 0 /\ Absolute(x.yout) \in Int
      BY <1>1 DEF Absolute
    <3>3. t.theta = x.theta /\ x.theta \in Int
      BY <1>1, <1>7, <1>8 DEF DirectionFields
    <3>. QED BY <3>1, <3>2, <3>3
  <2>. HIDE DEF right, strong
  <2>3. ThetaOf(t, ThetaUpdated(t, right))
    BY <1>7, <2>1, <2>2, ThetaKeeps
  <2>4. y = ThetaUpdated(t, right)
    BY <1>4, <1>10
  <2>5. /\ DOMAIN y = DirectionFields /\ y.theta \in Nat /\ y.tc \in Int
        /\ \A f \in DirectionFields \ {"theta", "tc"} : y[f] = t[f]
    BY <2>3, <2>4 DEF ThetaOf
  <2>6. DirectionShape(y)
    BY <1>1, <1>2, <1>7, <1>8, <2>5 DEF DirectionShape, DirectionFields
  <2>7. DirectionHolds(y, <<taken>> \o q)
    BY <1>1, <1>3, <1>7, <2>5 DEF DirectionHolds, DirectionFields
  <2>. QED BY <1>5, <1>6, <2>6, <2>7 DEF TrainedKeepsIt
<1>. QED BY <1>9, <1>10

-----------------------------------------------------------------------------
(* The steps                                                               *)

\* A register or word of zeros holds no outcome.
LEMMA ZeroHolds ==
    ASSUME NEW l \in Widths, NEW k \in Nat
    PROVE  Holds(0, l, << >>, k) /\ 0 \in 0 .. 2 ^ l - 1
<1>1. l \in Nat \ {0} /\ 2 ^ l \in Nat \ {0} /\ \A m \in 0 .. l : 2 ^ m \in Nat \ {0}
  BY PowerFacts
<1>2. \A b \in 1 .. l : 2 ^ (b - 1) \in Nat \ {0}
  <2>1. \A b \in 1 .. l : b - 1 \in 0 .. l
    BY <1>1
  <2>. QED BY <1>1, <2>1
<1>3. ASSUME NEW c \in Nat \ {0} PROVE (0 \div c) % 2 = 0
  <2>1. (c * 0 + 0) \div c = 0
    BY QuotientIs
  <2>2. c * 0 + 0 = 0
    OBVIOUS
  <2>. QED BY <2>1, <2>2
<1>4. \A b \in 1 .. l : ~BitOf(0, b - 1) /\ BitOf(0, b - 1) \in BOOLEAN
  BY <1>2, <1>3 DEF BitOf
<1>5. \A j : ~Was(<< >>, j) /\ Was(<< >>, j) \in BOOLEAN
  BY EmptySeq DEF Was
<1>. QED BY <1>1, <1>4, <1>5 DEF Holds

LEMMA DirectionInitial == DirectionInit => DirectionIInv
<1>. SUFFICES ASSUME DirectionInit PROVE DirectionIInv
  OBVIOUS
<1>1. PICK kind \in PredictorKinds : dir = NewDirection(kind)
  BY DEF DirectionInit
<1>2. trained.own = 0 /\ trained.trained = 0 /\ outcomes = << >>
  BY DEF DirectionInit
<1>3. /\ DOMAIN dir = DirectionFields /\ dir.kind = kind /\ dir.count = 0 /\ dir.history = 0
      /\ dir.states = << >> /\ dir.yout = 0 /\ dir.tc = 0 /\ dir.theta = FirstTheta
      /\ dir.table = << >> /\ dir.words = [i \in 1 .. HistoryWords |-> 0]
  BY <1>1 DEF NewDirection, DirectionFields
<1>4. StatesWait(<< >>)
  <2>1. << >> \in Seq({}) /\ DOMAIN << >> = {}
    BY EmptySeq
  <2>. QED BY <2>1 DEF StatesWait
<1>5. \A l \in Widths : Holds(0, l, << >>, 0)
  BY ZeroHolds
<1>6. WordsHold([i \in 1 .. HistoryWords |-> 0], << >>)
  <2>1. WordBits \in Widths /\ WordBits \in Nat /\ HistoryWords \in Nat
    BY DirectionAssumption DEF Widths
  <2>2. \A i \in 1 .. HistoryWords : (i - 1) * WordBits \in Nat
    BY <2>1
  <2>. QED BY <2>1, <2>2, ZeroHolds DEF WordsHold
<1>7. DirectionShape(dir)
  <2>1. kind \in {"bimodal", "gshare", "perceptron", "hashed"} /\ FirstTheta \in Nat
    BY DirectionAssumption
  <2>2. DOMAIN << >> = {}
    OBVIOUS
  <2>. QED BY <1>3, <1>4, <2>1, <2>2 DEF DirectionShape
<1>8. DirectionHolds(dir, outcomes)
  BY <1>2, <1>3, <1>5, <1>6 DEF DirectionHolds, Widths
<1>9. outcomes \in Seq(BOOLEAN)
  BY <1>2, EmptySeq
<1>. QED BY <1>2, <1>7, <1>8, <1>9 DEF DirectionIInv, TrainsItsOwn

LEMMA CountedKeeps ==
    ASSUME NEW d, DirectionShape(d), NEW q, DirectionHolds(d, q)
    PROVE  DirectionShape(Counted(d)) /\ DirectionHolds(Counted(d), q)
<1>. DEFINE x == Counted(d)
<1>1. /\ DOMAIN x = DirectionFields /\ x.count = d.count + 1
      /\ \A f \in DirectionFields \ {"count"} : x[f] = d[f]
  BY DEF Counted, DirectionShape, DirectionFields
<1>. HIDE DEF x
<1>2. DirectionShape(x)
  BY <1>1 DEF DirectionShape, DirectionFields
<1>3. DirectionHolds(x, q)
  BY <1>1 DEF DirectionHolds, DirectionFields
<1>. QED BY <1>2, <1>3 DEF x

LEMMA NoBranchKeeps ==
    ASSUME DirectionIInv, NEW pc \in NonBranches, NoBranch(pc)
    PROVE  DirectionIInv'
<1>. DEFINE d == Counted(dir)
            x == DirectionAsked(d, pc)
<1>1. dir' = x /\ UNCHANGED <<trained, outcomes>>
  BY DEF NoBranch
<1>2. DirectionShape(d) /\ DirectionHolds(d, outcomes)
  BY CountedKeeps DEF DirectionIInv
<1>. HIDE DEF d
<1>3. AskedOf(d, x, pc)
  BY <1>2, AskedKeeps
<1>. HIDE DEF x
<1>4. StatesWait(x.states)
  <2>1. CASE d.kind = "perceptron"
    <3>1. SavedLast(x, pc)
      BY <1>3, <2>1 DEF AskedOf
    <3>2. PICK S, p, e : /\ p \in Seq(S) /\ e \in S /\ StatesWait(p)
                         /\ x.states = Append(p, e) /\ e.ip = pc
      BY <3>1 DEF SavedLast
    <3>. DEFINE t == Append(p, e)
                n == Len(p)
    <3>3. /\ n \in Nat /\ DOMAIN p = 1 .. n /\ DOMAIN t = 1 .. n + 1 /\ t \in Seq(S)
          /\ t[n + 1] = e /\ \A i \in 1 .. n : t[i] = p[i]
      BY <3>2, AppendProperties, LenProperties
    <3>. HIDE DEF t, n
    <3>4. \A i \in DOMAIN t : i \in DOMAIN p \/ i = n + 1
      BY <3>3
    <3>5. \A i \in DOMAIN t : t[i].ip \in NonBranches
      BY <3>2, <3>3, <3>4 DEF StatesWait
    <3>6. StatesWait(t)
      BY <3>3, <3>5 DEF StatesWait
    <3>. QED BY <3>2, <3>6 DEF t
  <2>2. CASE d.kind # "perceptron"
    BY <1>2, <1>3, <2>2 DEF AskedOf, DirectionShape
  <2>. QED BY <2>1, <2>2
<1>5. DirectionShape(x)
  BY <1>2, <1>3, <1>4 DEF DirectionShape, AskedOf
<1>6. DirectionHolds(x, outcomes)
  BY <1>2, <1>3 DEF DirectionHolds, AskedOf
<1>. QED BY <1>1, <1>5, <1>6 DEF DirectionIInv, TrainsItsOwn

LEMMA BranchKeeps ==
    ASSUME DirectionIInv, NEW pc \in Branches, NEW taken \in BOOLEAN, DirectionBranch(pc, taken)
    PROVE  DirectionIInv'
<1>. DEFINE d == Counted(dir)
            x == DirectionAsked(d, pc)
<1>1. /\ dir' = DirectionTrained(x, pc, taken)
      /\ trained' = [own |-> x.count, trained |-> TrainedPrediction(x, pc)]
      /\ outcomes' = <<taken>> \o outcomes
  BY DEF DirectionBranch
<1>2. DirectionShape(d) /\ DirectionHolds(d, outcomes) /\ outcomes \in Seq(BOOLEAN)
  BY CountedKeeps DEF DirectionIInv
<1>. HIDE DEF d
<1>3. AskedOf(d, x, pc)
  BY <1>2, AskedKeeps
<1>. HIDE DEF x
<1>4. TrainedKeepsIt(d, x, pc, taken, outcomes)
  <2>1. d.kind \in {"bimodal", "gshare", "perceptron", "hashed"}
    BY <1>2 DEF DirectionShape
  <2>. QED BY <1>2, <1>3, <2>1, CounterTrainedKeeps, PerceptronTrainedKeeps, HashedTrainedKeeps
<1>5. DirectionShape(dir') /\ DirectionHolds(dir', outcomes') /\ TrainedPrediction(x, pc) = x.count
  BY <1>1, <1>4 DEF TrainedKeepsIt
<1>6. outcomes' \in Seq(BOOLEAN)
  BY <1>1, <1>2, NewestFirst
<1>7. trained'.own = x.count /\ trained'.trained = TrainedPrediction(x, pc)
  BY <1>1
<1>. QED BY <1>5, <1>6, <1>7 DEF DirectionIInv, TrainsItsOwn

LEMMA DirectionStep == DirectionIInv /\ [DirectionNext]_dirVars => DirectionIInv'
<1>. SUFFICES ASSUME DirectionIInv, [DirectionNext]_dirVars PROVE DirectionIInv'
  OBVIOUS
<1>1. CASE \E pc \in NonBranches : NoBranch(pc)
  BY <1>1, NoBranchKeeps
<1>2. CASE \E pc \in Branches, taken \in BOOLEAN :
               taken \in OutcomesOf[pc] /\ DirectionBranch(pc, taken)
  BY <1>2, BranchKeeps
<1>3. CASE UNCHANGED dirVars
  BY <1>3 DEF dirVars, DirectionIInv, TrainsItsOwn
<1>. QED BY <1>1, <1>2, <1>3 DEF DirectionNext

\* For every program and all sizes of the predictors: a branch trains what was saved at its
\* own prediction, whatever instructions that are no branches left in the buffer of the
\* perceptron; the histories of gshare and the perceptron, and the words of the hashed
\* perceptron across their boundaries, hold the outcomes of the branches in their order;
\* and the adaptive threshold is never below 0 (last_branch_result of the four).
THEOREM HistoriesAreSound == DirectionSpec => []HistoriesSound
<1>1. ASSUME DirectionIInv PROVE HistoriesSound
  <2>1. \A k : Was(outcomes, k) = Outcome(k)
    BY DEF Was, Outcome
  <2>2. \A l \in Widths : l \in Nat /\ \A b \in 1 .. l : 0 + b = b
    BY PowerFacts
  <2>3. dir.kind = "gshare" =>
            \A b \in 1 .. GshareLength : BitOf(dir.history, b - 1) = Outcome(b)
    BY <1>1, <2>1, <2>2 DEF DirectionIInv, DirectionHolds, Holds, Widths
  <2>4. dir.kind = "perceptron" =>
            \A b \in 1 .. PerceptronLength : BitOf(dir.history, b - 1) = Outcome(b)
    BY <1>1, <2>1, <2>2 DEF DirectionIInv, DirectionHolds, Holds, Widths
  <2>5. dir.kind = "hashed" =>
            \A i \in 1 .. HistoryWords, b \in 1 .. WordBits :
                BitOf(dir.words[i], b - 1) = Outcome((i - 1) * WordBits + b)
    BY <1>1, <2>1 DEF DirectionIInv, DirectionHolds, WordsHold, Holds
  <2>6. dir.theta \in Nat /\ TrainsItsOwn
    BY <1>1 DEF DirectionIInv, DirectionShape
  <2>. QED BY <2>3, <2>4, <2>5, <2>6 DEF HistoriesSound, HoldsOutcomes
<1>. QED BY <1>1, DirectionInitial, DirectionStep, PTL DEF DirectionSpec
=============================================================================
