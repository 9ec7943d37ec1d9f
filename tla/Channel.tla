------------------------------ MODULE Channel ------------------------------
(***************************************************************************)
(* champsim::channel (src/channel.cc): the read, write and prefetch queue  *)
(* between a requester above and a cache below, and the queue of responses *)
(* back.  Before the cache takes requests it calls check_collision, which  *)
(* merges requests for the same block and answers a read from a write that *)
(* is still queued.                                                        *)
(*                                                                         *)
(* The operators work on a channel as a value, for the modules that hold   *)
(* one; ChannelUse puts one between a requester and a cache.  Data and     *)
(* prefetch metadata are left out: an instruction that waits for a         *)
(* response stands for it.                                                 *)
(***************************************************************************)
EXTENDS Naturals, Sequences, SequencesExt

CONSTANTS
    RqSize, WqSize, PqSize,
    BlockSize,          \* 2 ^ OFFSET_BITS
    MatchOffset         \* match_offset_bits: writes collide by full address

ASSUME ChannelAssumption ==
    /\ {RqSize, WqSize, PqSize, BlockSize} \subseteq Nat
    /\ BlockSize > 0
    /\ MatchOffset \in BOOLEAN

Types == {"LOAD", "RFO", "PREFETCH", "WRITE", "TRANSLATION"}

NoRequests == [RQ |-> << >>, WQ |-> << >>, PQ |-> << >>, returned |-> << >>]

\* waiters are the instr_depend_on_me, reply is response_requested.
Request(addr, vaddr, type, translated, reply, waiters) ==
    [addr |-> addr, vaddr |-> vaddr, type |-> type, translated |-> translated,
     reply |-> reply, waiters |-> waiters, checked |-> FALSE]

Response(r) == [addr |-> r.addr, vaddr |-> r.vaddr, waiters |-> r.waiters]

Unchecked(r) == [r EXCEPT !.checked = FALSE]

\* add_rq, add_wq and add_pq: refused when the queue is full.
AcceptsRq(c) == Len(c.RQ) < RqSize
AcceptsWq(c) == Len(c.WQ) < WqSize
AcceptsPq(c) == Len(c.PQ) < PqSize

AddRq(c, r) == [c EXCEPT !.RQ = Append(@, Unchecked(r))]
AddWq(c, r) == [c EXCEPT !.WQ = Append(@, Unchecked(r))]
AddPq(c, r) == [c EXCEPT !.PQ = Append(@, Unchecked(r))]

WriteUnit == IF MatchOffset THEN 1 ELSE BlockSize
ReadUnit  == BlockSize

Overlaps(x, y, unit) == x.addr \div unit = y.addr \div unit

\* The first request of q in the same unit, or 0.  Only that one counts.
FirstOverlap(q, r, unit) == SelectInSeq(q, LAMBDA x : Overlaps(x, r, unit))

\* do_collision_for
Collides(q, r, unit) ==
    LET i == FirstOverlap(q, r, unit) IN i # 0 /\ q[i].translated = r.translated

\* Mutated form of Merged: the destination alone decides on the response.
MergedSilently(q, r, unit) ==
    [q EXCEPT ![FirstOverlap(q, r, unit)].waiters = @ \cup r.waiters]

\* do_collision_for_merge
Merged(q, r, unit) ==
    LET i == FirstOverlap(q, r, unit)
    IN  [q EXCEPT ![i].reply = @ \/ r.reply, ![i].waiters = @ \cup r.waiters]

\* Mutated form of Absorbed: never merged.
AbsorbedNever(q, r, unit) == Append(q, [r EXCEPT !.checked = TRUE])

Absorbed(q, r, unit) ==
    IF Collides(q, r, unit) THEN Merged(q, r, unit)
    ELSE Append(q, [r EXCEPT !.checked = TRUE])

\* The first request that is not forward_checked, or the end.
FirstUnchecked(q) ==
    LET i == SelectInSeq(q, LAMBDA r : ~r.checked)
    IN  IF i = 0 THEN Len(q) + 1 ELSE i

CheckedPart(q)   == SubSeq(q, 1, FirstUnchecked(q) - 1)
UncheckedPart(q) == SubSeq(q, FirstUnchecked(q), Len(q))

\* WQ: merge only.
CheckWq(c) ==
    [c EXCEPT !.WQ = FoldLeft(LAMBDA q, r : Absorbed(q, r, WriteUnit),
                              CheckedPart(@), UncheckedPart(@))]

\* A request of the RQ or PQ: answered from the WQ, else merged.
Forwarded(wq, s, r) ==
    IF Collides(wq, r, WriteUnit)
    THEN [s EXCEPT !.returned = IF r.reply THEN Append(@, Response(r)) ELSE @]
    ELSE [s EXCEPT !.queue = Absorbed(@, r, ReadUnit)]

Checked(c, q) ==
    FoldLeft(LAMBDA s, r : Forwarded(c.WQ, s, r),
             [queue |-> CheckedPart(q), returned |-> c.returned], UncheckedPart(q))

\* Mutated form of CheckRq: reads are not forwarded.
CheckRqMergeOnly(c) ==
    [c EXCEPT !.RQ = FoldLeft(LAMBDA q, r : Absorbed(q, r, ReadUnit),
                              CheckedPart(@), UncheckedPart(@))]

CheckRq(c) ==
    LET s == Checked(c, c.RQ)
    IN  [c EXCEPT !.RQ = s.queue, !.returned = s.returned]

CheckPq(c) ==
    LET s == Checked(c, c.PQ)
    IN  [c EXCEPT !.PQ = s.queue, !.returned = s.returned]

\* The queues one after the other, each evaluated once: CheckPq(CheckRq(CheckWq(c))).
CheckCollision(c) ==
    CHOOSE d \in {CheckPq(r) : r \in {CheckRq(w) : w \in {CheckWq(c)}}} : TRUE
=============================================================================
