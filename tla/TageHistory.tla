---------------------------- MODULE TageHistory -----------------------------
(***************************************************************************)
(* The global history of TAGE (tage.hpp; the four files of that name have  *)
(* it alike): a ring of bits, newest first, of which the youngest are      *)
(* speculative, and folded histories that are kept up to date bit by bit   *)
(* instead of being computed from it.  A value is a function from its bit  *)
(* positions to BOOLEAN; # is exclusive or.                                *)
(***************************************************************************)
EXTENDS PredictorTables, SequencesExt

CONSTANTS
    HistorySizes,   \* Tage_History_Sizes: a sequence, one for each pair of tables
    FoldWidths,     \* the widths that each history is folded to
    MaxInFlight     \* max_in_flight_branches

ASSUME HistoryAssumption ==
    /\ HistorySizes \in Seq(Nat \ {0}) /\ HistorySizes # << >>
    /\ \A j \in 1 .. Len(HistorySizes) - 1 : HistorySizes[j] <= HistorySizes[j + 1]
    /\ FoldWidths \in [DOMAIN HistorySizes -> SUBSET (Nat \ {0})]
    /\ MaxInFlight \in Nat \ {0}

VARIABLES
    hist,       \* history_register_ and the folded histories
    inflight    \* the checkpoints of the branches that are not retired, oldest first

historyVars == <<hist, inflight>>

MaxHistorySize == HistorySizes[Len(HistorySizes)]

\* get_min_num_bits_to_represent, at least one bit
BufferSize ==
    CHOOSE n \in {2 ^ k : k \in 1 .. MaxHistorySize + 3 * MaxInFlight} :
        /\ n >= MaxHistorySize + 3 * MaxInFlight
        /\ n = 2 \/ n \div 2 < MaxHistorySize + 3 * MaxInFlight

MaxSpeculative == BufferSize - MaxHistorySize

Folds == {<<j, w>> : j \in DOMAIN HistorySizes, w \in UNION Range(FoldWidths)}

FoldsKept == {f \in Folds : f[2] \in FoldWidths[f[1]]}

NewHistory ==
    [bits |-> [k \in 0 .. BufferSize - 1 |-> FALSE], head |-> 0, speculative |-> 0,
     folded |-> [f \in FoldsKept |-> [k \in 0 .. f[2] - 1 |-> FALSE]]]

\* operator[]: the bit that was pushed i bits ago
Bit(h, i) == h.bits[(h.head + i) % BufferSize]

-----------------------------------------------------------------------------
(* Folded_History                                                          *)

Outpoint(f) == HistorySizes[f[1]] % f[2]

\* update: shifted by one, with the new bit in, the bit that is now too old out and
\* the bit that was shifted out back in.
FoldUpdated(v, f, h) ==
    LET w     == f[2]
        wide  == [k \in 0 .. w |-> IF k = 0 THEN Bit(h, 0) ELSE v[k - 1]]
        fixed == [wide EXCEPT ![Outpoint(f)] = @ # Bit(h, HistorySizes[f[1]])]
    IN  Each(0 .. w - 1, LAMBDA k : IF k = 0 THEN fixed[0] # fixed[w] ELSE fixed[k])

\* update_reverse
FoldReversed(v, f, h) ==
    LET first == [v EXCEPT ![0] = @ # Bit(h, 0)]
        fixed == [first EXCEPT ![Outpoint(f)] = @ # Bit(h, HistorySizes[f[1]])]
    IN  Each(0 .. f[2] - 1, LAMBDA k : fixed[(k + 1) % f[2]])

\* Mutated form of Pushed: the bit leaves the register before it leaves the fold.
PushedLate(h, bit) ==
    LET at == (h.head - 1) % BufferSize
        g  == [h EXCEPT !.head = at, !.bits[at] = bit, !.speculative = @ + 1]
    IN  [g EXCEPT !.folded = Each(FoldsKept, LAMBDA f : FoldUpdated(h.folded[f], f, h))]

\* push_bit, and the update of every folded history
Pushed(h, bit) ==
    LET at == (h.head - 1) % BufferSize
        g  == [h EXCEPT !.head = at, !.bits[at] = bit, !.speculative = @ + 1]
    IN  [g EXCEPT !.folded = Each(FoldsKept, LAMBDA f : FoldUpdated(h.folded[f], f, g))]

\* push_into_history, of two or three bits
PushedAll(h, bits) == FoldLeft(Pushed, h, bits)

Retired(h, n) == [h EXCEPT !.speculative = @ - n]

\* Mutated form of RewoundOne: the folded histories are reversed after the rewind.
RewoundOneLate(h) ==
    LET g == [h EXCEPT !.head = (@ + 1) % BufferSize, !.speculative = @ - 1]
    IN  [g EXCEPT !.folded = Each(FoldsKept, LAMBDA f : FoldReversed(h.folded[f], f, g))]

RewoundOne(h) ==
    [h EXCEPT !.folded = Each(FoldsKept, LAMBDA f : FoldReversed(h.folded[f], f, h)),
              !.head = (@ + 1) % BufferSize, !.speculative = @ - 1]

Rewound(h, n) == FoldLeft(LAMBDA g, k : RewoundOne(g), h, [k \in 1 .. n |-> k])

-----------------------------------------------------------------------------
(* The calls.  The predictors of this repository retire a branch before    *)
(* the next one and never recover; the class allows both.                  *)

UpdateSpeculativeState(bits) ==
    /\ Len(inflight) < MaxInFlight
    /\ hist' = PushedAll(hist, bits)
    /\ inflight' = Append(inflight, [count |-> Len(bits), before |-> hist])

CommitStateAtRetire ==
    /\ inflight # << >>
    /\ hist' = Retired(hist, Head(inflight).count)
    /\ inflight' = Tail(inflight)

\* global_recover_speculative_state to the checkpoint of a branch in flight: it and
\* all younger ones are gone.
GlobalRecover ==
    \E k \in DOMAIN inflight :
        LET gone == SubSeq(inflight, k, Len(inflight))
        IN  /\ hist' = Rewound(hist, FoldLeft(LAMBDA n, c : n + c.count, 0, gone))
            /\ inflight' = SubSeq(inflight, 1, k - 1)

Updates ==
    \E n \in {2, 3} : \E bits \in [1 .. n -> BOOLEAN] : UpdateSpeculativeState(bits)

HistoryInit == hist = NewHistory /\ inflight = << >>

HistoryNext == Updates \/ CommitStateAtRetire \/ GlobalRecover

HistorySpec == HistoryInit /\ [][HistoryNext]_historyVars

-----------------------------------------------------------------------------
(* What the histories promise                                              *)

Parity(S, B(_)) == Cardinality({i \in S : B(i)}) % 2 = 1

\* Every folded history is the exclusive or of the bits of its history that fold to
\* the same position, however many bits came, were taken back and came again: the
\* updates forget a bit exactly when it has become too old.
FoldedIsFold ==
    \A f \in FoldsKept : \A k \in 0 .. f[2] - 1 :
        hist.folded[f][k] =
            Parity({i \in 0 .. HistorySizes[f[1]] - 1 : i % f[2] = k},
                   LAMBDA i : Bit(hist, i))

\* Recovery to a branch in flight would bring back the histories from before it: the
\* ring has kept every bit that was the oldest of a history then.
RecoveryIsExact ==
    \A k \in DOMAIN inflight :
        LET gone == SubSeq(inflight, k, Len(inflight))
            back == Rewound(hist, FoldLeft(LAMBDA n, c : n + c.count, 0, gone))
            then == inflight[k].before
        IN  /\ back.folded = then.folded
            /\ \A i \in 0 .. MaxHistorySize - 1 : Bit(back, i) = Bit(then, i)
            /\ hist.speculative \in 0 .. MaxSpeculative
=============================================================================
