----------------------------- MODULE TwoTagTage -----------------------------
(***************************************************************************)
(* The tables of the ahead TAGE (2tag_tage.hpp).  A prediction is made     *)
(* Distance branches early for each value that the hash of the branches in *)
(* between may take: the hash is a second tag of the entries.  It is known *)
(* when the branch is there, and its answer is used (unless the L0 BTB     *)
(* overrules it) and trained.  How answers wait for it is AheadTage.       *)
(*                                                                         *)
(* The indices, histories and counters are those of Tage, which this file  *)
(* repeats.  AHEAD_SINGLE_BIMODAL: the bimodal table has no second tag.    *)
(***************************************************************************)
EXTENDS Tage

CONSTANT SecondTags     \* SND_TAG_NO_PRED of them, from 0

ASSUME TwoTagAssumption ==
    /\ \E n \in {1, 2, 4} : SecondTags = 0 .. n - 1
    /\ AheadDistance > 0

NewTwoTag ==
    [NewTage EXCEPT !.entries =
        [p \in Places |-> [ctr |-> 0, useful |-> 0, tag |-> 0, tag2 |-> 0]]]

\* get_recent_hist_hash over the newest Distance branches, in the form of the built 256
\* second tags.  The second shift of the target is left out: the targets here are too
\* small for it.
MissingHistory(queue) ==
    LET n == Cardinality(SecondTags)
        Mixed(res, j) ==
            LET b == queue[Len(queue) + 1 - j]
                x == res ## j ## Bit01(b.dir) ## (b.target \div 2)
            IN  (5 * x + j) % n
    IN  FoldLeft(Mixed, 0, [j \in 1 .. AheadDistance |-> j])

\* get_prediction for every second tag
TwoTagAnswers(t, pc) ==
    LET places == PlacesOf(t.path, pc)
        tags   == TagsOf(pc)
    IN  Each(SecondTags, LAMBDA second :
            Answer(t, pc, places, tags,
                   {i \in EnabledTables : /\ t.entries[places[i]].tag = tags[i]
                                          /\ t.entries[places[i]].tag2 = second}))

\* An entry of the same history before the missing branches is not taken from another
\* pattern of theirs: the promotion check.
HeldByAnotherPattern(e, tag, second) == e.useful = 0 /\ e.tag = tag /\ e.tag2 # second

\* Mutated form of TwoTagTried: without the promotion check.
TwoTagTriedAny(s, info, dir, second, i) ==
    LET r == Tried(s, info, dir, i)
    IN  IF r.got THEN [r EXCEPT !.t.entries[info.places[i]].tag2 = second] ELSE r

TwoTagTried(s, info, dir, second, i) ==
    IF i \in EnabledTables
       /\ HeldByAnotherPattern(s.t.entries[info.places[i]], info.tags[i], second)
    THEN [s EXCEPT !.got = FALSE]
    ELSE LET r == Tried(s, info, dir, i)
         IN  IF r.got THEN [r EXCEPT !.t.entries[info.places[i]].tag2 = second] ELSE r

TwoTagTurn(s, info, dir, second) ==
    LET first   == TwoTagTried(s, info, dir, second, s.bank + 1)
        sibling == IF first.got THEN first
                   ELSE TwoTagTried(first, info, dir, second, (s.bank ## 1) + 1)
    IN  [sibling EXCEPT !.bank = @ + IF sibling.got THEN 4 ELSE 2]

TwoTagAllocation(t, info, dir, second, draw) ==
    FoldLeft(LAMBDA s, k : IF s.stop \/ s.bank >= NumTables THEN s
                           ELSE TwoTagTurn(s, info, dir, second),
             [t |-> t, bank |-> FirstBank(info.hit, draw), got |-> FALSE, stop |-> FALSE,
              extra |-> ExtraEntries, penalty |-> 0, taken |-> << >>],
             HistorySizes)

\* commit_state.  Where the L0 BTB was believed and right, a wrong answer gets entries
\* one time in 32.
TwoTagCommitted(t, info, dir, final, second, draw) ==
    LET go == Allocates(t, info, dir) /\ (final # dir \/ draw.spare)
        s  == SelectorTrained(t, info, dir)
        a  == IF go THEN TwoTagAllocation(s, info, dir, second, draw)
              ELSE [t |-> s, taken |-> << >>]
        k  == IF go THEN Ticked(a) ELSE s
    IN  [t     |-> TablesTrained(k, info, dir),
         taken |-> a.taken]

\* get_prediction, update_speculative_state, commit_state and commit_state_at_retire of
\* the wrapper for one branch; btb is what the L0 BTB says if it overrules TAGE.
TwoTagBranch(pc, type, dir, target, btb, draw) ==
    LET used   == Len(ahead) >= AheadDistance
        second == IF used THEN MissingHistory(ahead) ELSE 0
        queue  == Append(ahead, [answers |-> TwoTagAnswers(tage, pc),
                                 dir |-> dir, target |-> target])
        info   == Head(queue).answers[second]
        path   == [tage EXCEPT !.path = PathPushed(@, pc, type, dir, target)]
        final  == IF btb = << >> THEN used /\ info.prediction ELSE btb[1]
        trains == used /\ type.conditional
    IN  \E c \in {IF trains THEN TwoTagCommitted(path, info, dir, final, second, draw)
                  ELSE [t |-> path, taken |-> << >>]} :
        /\ ahead' = IF used THEN Tail(queue) ELSE queue
        /\ hist' = HistoryPushed(pc, type, dir, target)
        /\ UNCHANGED inflight
        /\ tage' = c.t
        /\ last' = [pc |-> pc, dir |-> dir, taken |-> c.taken,
                    hit |-> IF trains THEN info.hit ELSE 0,
                    final |-> IF trains THEN info.prediction ELSE dir]

TwoTagDraws == [two : BOOLEAN, odd : {0, 1}, spare : BOOLEAN]

TwoTagFree ==
    /\ free.left > 0 /\ free.settled = << >>
    /\ free' = [free EXCEPT !.left = @ - 1]
    /\ \E pc \in Pcs, type \in BranchTypes, dir \in BOOLEAN,
          btb \in {<< >>, <<TRUE>>, <<FALSE>>} :
        \E draw \in IF type.conditional THEN TwoTagDraws
                    ELSE {[two |-> FALSE, odd |-> 0, spare |-> FALSE]} :
            TwoTagBranch(pc, type, dir, pc, btb, draw)

TwoTagAgain ==
    /\ free.settled # << >>
    /\ free' = [free EXCEPT !.beat = ~@]
    /\ \E draw \in TwoTagDraws :
        LET pc == free.settled[1]
            dir == free.settled[2]
        IN  TwoTagBranch(pc, [conditional |-> TRUE, indirect |-> FALSE], dir, pc, << >>, draw)

TwoTagInit ==
    /\ HistoryInit
    /\ tage = NewTwoTag
    /\ ahead = << >>
    /\ last = [pc |-> 0, dir |-> FALSE, final |-> FALSE, hit |-> 0, taken |-> << >>]
    /\ free = [left |-> MaxFree, settled |-> << >>, beat |-> FALSE]

TwoTagNext == TwoTagFree \/ Settle \/ TwoTagAgain

TwoTagSpec == TwoTagInit /\ [][TwoTagNext]_tageVars /\ []<>free.beat /\ []<>~free.beat

-----------------------------------------------------------------------------
(* What the second tag promises                                            *)

\* The patterns of missing branches after one history do not drive each other out: an
\* entry that passes to another pattern passes to another history (they look for
\* room in tables of longer histories instead).
PatternsKeepTheirEntries ==
    [][\A p \in Places :
          tage'.entries[p].tag2 # tage.entries[p].tag2 =>
             tage'.entries[p].tag # tage.entries[p].tag]_tageVars

\* TAGE's answer for a branch that always goes the same way is right from some time on,
\* although it was made before the branches in between and picked by their hash.
LearnsAhead == <>[](last.final = last.dir)
=============================================================================
