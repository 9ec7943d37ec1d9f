-------------------------- MODULE PageTableWalker --------------------------
(***************************************************************************)
(* PageTableWalker (src/ptw.cc): answers translation requests of the       *)
(* caches above by a walk, one read of the cache below for each level.     *)
(* What is read at a level is taken from VirtualMemory when the answer     *)
(* comes, for every walk that waits for that block.  The paging-structure  *)
(* caches (pscl) let a walk start lower; they are the LRU sets that        *)
(* LruTable implements, with the entry used last first.                    *)
(*                                                                         *)
(* An address is a page-table page and an entry in it; LinePtes of them    *)
(* make a block.  The cache below is external: it merges requests that     *)
(* wait for a block and answers in any order.                              *)
(***************************************************************************)
EXTENDS VirtualMemory, Integers, Sequences, SequencesExt

CONSTANTS
    Cpu,            \* the core of this walker
    Uppers,         \* the number of channels above
    LowerRqSize,
    LinePtes,
    PsclWays,
    MaxRead, MaxFill,
    WalkLatency,        \* HIT_LATENCY and the penalty of a fault, after warmup
    MaxWalks        \* bound on the requests made

ASSUME WalkerAssumption ==
    /\ Cpu \in Cpus
    /\ {Uppers, LowerRqSize, LinePtes, PsclWays, MaxRead, MaxFill} \subseteq Nat \ {0}
    /\ {WalkLatency, MaxWalks} \subseteq Nat
    /\ PtLevels > 1

VARIABLES
    walker,
    below,      \* external: the blocks that the cache below works on
    asked       \* history: the pages asked for; a request is its index

walkVars == <<vm, walker, below, asked>>

Upto(q, n)  == SubSeq(q, 1, IF n < Len(q) THEN n ELSE Len(q))
After(q, n) == SubSeq(q, n + 1, Len(q))

\* One pscl for each level but the last of memory; a walk starts at the first.
NumPscl == PtLevels - 1

\* The root of the page table: get_pte_pa for address 0.
Root == TableKey(Cpu, 0, PtLevels)

NewWalker(m) ==
    [root      |-> m.tables[Root],
     pscl      |-> [k \in 1 .. NumPscl |-> << >>],
     mshr      |-> << >>, finished |-> << >>, completed |-> << >>,
     requests  |-> [u \in 1 .. Uppers |-> << >>],     \* RQ of the channels above
     responses |-> [u \in 1 .. Uppers |-> << >>],
     lowerRq   |-> << >>, lowerReturned |-> << >>]

\* get_offset; at level 0 it is taken from inside the page, and left out.
EntryAt(vpage, level) == IF level = 0 THEN 0 ELSE Offset(vpage, level)

Address(slot, entry) == [slot |-> slot, entry |-> entry]

LineOf(a) == [a EXCEPT !.entry = @ \div LinePtes]

\* What get_pte_pa gives when it has run.
PteAddress(m, vpage, level) ==
    Address(m.tables[TableKey(Cpu, vpage, level)], Offset(vpage, level))

-----------------------------------------------------------------------------
(* Paging-structure caches: position k is for level PtLevels - k + 1.       *)

PsclKey(vpage, k) == Region(vpage, PtLevels - k + 1)

Recalled(q, key) == SelectInSeq(q, LAMBDA e : e.key = key)

\* check_hit moves what it finds to the front, fill inserts it there.
Remembered(q, e) ==
    Upto(<<e>> \o SelectSeq(q, LAMBDA x : x.key # e.key), PsclWays)

\* All are looked up; the last that hits, the lowest, tells where to start.
PsclLooked(w, vpage) ==
    [w EXCEPT !.pscl = [k \in 1 .. NumPscl |->
        LET i == Recalled(@[k], PsclKey(vpage, k))
        IN  IF i = 0 THEN @[k] ELSE Remembered(@[k], @[k][i])]]

WalkStart(w, vpage) ==
    LET hits == {k \in 1 .. NumPscl : Recalled(w.pscl[k], PsclKey(vpage, k)) # 0}
        k    == CHOOSE h \in hits : \A g \in hits : g <= h
    IN  IF hits = {} THEN [slot |-> w.root, level |-> NumPscl]
        ELSE LET e == w.pscl[k][Recalled(w.pscl[k], PsclKey(vpage, k))]
             IN  [slot |-> e.slot, level |-> e.level]

-----------------------------------------------------------------------------
(* One cycle                                                               *)

\* Mutated form of Finished: the request that was answered alone is finished.
FinishedFirst(w, a) ==
    LET i == SelectInSeq(w.mshr, LAMBDA x : LineOf(x.addr) = LineOf(a))
    IN  IF i = 0 THEN {} ELSE {i}

\* The walks that wait for the block of a.
Finished(w, a) == {i \in 1 .. Len(w.mshr) : LineOf(w.mshr[i].addr) = LineOf(a)}

\* A walk of level 0 takes the translation, another the next page of its table.
FinishOne(s, i) ==
    LET x == s.w.mshr[i]
        m == IF x.level = 0 THEN VaToPa(s.m, <<Cpu, x.vpage>>)
             ELSE GetPtePa(s.m, TableKey(Cpu, x.vpage, x.level))
        y == [x EXCEPT !.data = IF x.level = 0
                                THEN Address(<<m.pages[<<Cpu, x.vpage>>], 0>>, 0)
                                ELSE PteAddress(m, x.vpage, x.level),
                       !.left = WalkLatency]
    IN  [m |-> m,
         w |-> IF x.level = 0 THEN [s.w EXCEPT !.completed = Append(@, y)]
               ELSE [s.w EXCEPT !.finished = Append(@, y)]]

FinishPacket(s, a) ==
    LET go   == Finished(s.w, a)
        done == FoldLeft(FinishOne, s, SetToSortSeq(go, <))
    IN  [done EXCEPT !.w.mshr = SelectSeq(@, LAMBDA x :
                                    \A i \in go : s.w.mshr[i] # x)]

FinishReturned(s) ==
    LET d == FoldLeft(FinishPacket, s, s.w.lowerReturned)
    IN  [d EXCEPT !.w.lowerReturned = << >>]

\* How many of the first n are due, up to the first that is not.
Due(q, n) ==
    LET i == SelectInSeq(Upto(q, n), LAMBDA x : x.left > 0)
    IN  IF i = 0 THEN Len(Upto(q, n)) ELSE i - 1

Reply(w, x) ==
    IF x.reply
    THEN [w EXCEPT !.responses[x.upper] =
            Append(@, [id |-> x.id, vpage |-> x.vpage, frame |-> x.data.slot[1]])]
    ELSE w

Completed(w) ==
    LET n == Due(w.completed, MaxFill)
    IN  [FoldLeft(Reply, w, Upto(w.completed, n)) EXCEPT !.completed = After(@, n)]

CanStep(w) == Len(w.lowerRq) < LowerRqSize

\* step_translation, for a walk that goes on at x.addr
Stepped(s, x) ==
    [s EXCEPT !.w.lowerRq = Append(@, x.addr), !.next = Append(@, x)]

\* Mutated form of Filled: the entry says the level that was read.
FilledSameLevel(w, x) ==
    LET k == NumPscl - x.level + 1
    IN  [w EXCEPT !.pscl[k] =
            Remembered(@, [key |-> PsclKey(x.vpage, k), slot |-> x.data.slot,
                           level |-> x.level])]

\* handle_fill fills the pscl even when the step is refused and tried again.
Filled(w, x) ==
    LET k == NumPscl - x.level + 1
    IN  [w EXCEPT !.pscl[k] =
            Remembered(@, [key |-> PsclKey(x.vpage, k), slot |-> x.data.slot,
                           level |-> x.level - 1])]

HandleFill(s) ==
    LET x == Head(s.w.finished)
        t == [s EXCEPT !.w = Filled(@, x)]
    IN  IF CanStep(t.w)
        THEN [Stepped(t, [x EXCEPT !.addr = x.data, !.level = @ - 1]) EXCEPT
                !.w.finished = Tail(@)]
        ELSE [t EXCEPT !.stop = TRUE]

HandleFills(s, n) ==
    FoldLeft(LAMBDA t, k : IF t.stop THEN t ELSE HandleFill(t), s,
             [k \in 1 .. Due(s.w.finished, n) |-> k])

\* handle_read of the first request of upper u; a refused one stays.
HandleRead(s, u) ==
    LET r == Head(s.w.requests[u])
        start == WalkStart(s.w, r.vpage)
        t == [s EXCEPT !.w = PsclLooked(@, r.vpage)]
        x == [id |-> r.id, vpage |-> r.vpage, upper |-> u, reply |-> r.reply,
              addr |-> Address(start.slot, EntryAt(r.vpage, start.level)),
              level |-> start.level, data |-> Address(NoSlot, 0), left |-> 0]
    IN  IF CanStep(t.w)
        THEN [Stepped(t, x) EXCEPT !.w.requests[u] = Tail(@), !.bw = @ - 1]
        ELSE [t EXCEPT !.stop = TRUE]

HandleReads(s, u) ==
    FoldLeft(LAMBDA t, k : IF t.stop \/ t.bw = 0 \/ t.w.requests[u] = << >> THEN t
                           ELSE HandleRead(t, u),
             [s EXCEPT !.stop = FALSE], [k \in 1 .. MaxRead |-> k])

SoonerWalk(q) == FoldLeft(LAMBDA s, x : Append(s, [x EXCEPT !.left = IF @ = 0 THEN 0 ELSE @ - 1]),
                      << >>, q)

Operated(m, w) ==
    LET f == FinishReturned([m |-> m, w |-> w])
        c == Completed(f.w)
        filling == MaxFill - Due(f.w.completed, MaxFill)
        h == HandleFills([w |-> c, next |-> << >>, stop |-> FALSE, bw |-> MaxRead], filling)
        r == FoldLeft(HandleReads, h, [u \in 1 .. Uppers |-> u])
    IN  [m |-> f.m,
         w |-> [r.w EXCEPT !.mshr = @ \o r.next, !.finished = SoonerWalk(@),
                           !.completed = SoonerWalk(@)]]

WalkOperate ==
    LET o == Operated(vm, walker)
    IN  /\ ~vm.aborted
        /\ vm' = o.m
        /\ walker' = o.w
        /\ UNCHANGED <<below, asked>>

-----------------------------------------------------------------------------
(* Around the walker                                                       *)

Ask(u, vpage, reply) ==
    /\ Len(asked) < MaxWalks
    /\ asked' = Append(asked, [vpage |-> vpage, reply |-> reply])
    /\ walker' = [walker EXCEPT !.requests[u] =
                    Append(@, [id |-> Len(asked) + 1, vpage |-> vpage, reply |-> reply])]
    /\ UNCHANGED <<vm, below>>

BelowTakes ==
    /\ walker.lowerRq # << >>
    /\ below' = below \cup {LineOf(Head(walker.lowerRq))}
    /\ walker' = [walker EXCEPT !.lowerRq = Tail(@)]
    /\ UNCHANGED <<vm, asked>>

BelowAnswers ==
    \E line \in below :
        /\ below' = below \ {line}
        /\ walker' = [walker EXCEPT !.lowerReturned =
                        Append(@, [line EXCEPT !.entry = @ * LinePtes])]
        /\ UNCHANGED <<vm, asked>>

Asks == \E u \in 1 .. Uppers, vpage \in Vpages, reply \in BOOLEAN : Ask(u, vpage, reply)

WalkInit ==
    /\ vm = GetPtePa(NewMemory, Root)
    /\ walker = NewWalker(vm)
    /\ below = {}
    /\ asked = << >>

WalkNext == WalkOperate \/ Asks \/ BelowTakes \/ BelowAnswers

-----------------------------------------------------------------------------
(* What the walker promises                                                *)

ReplyTo(id) ==
    {u \in 1 .. Uppers : \E k \in 1 .. Len(walker.responses[u]) :
                            walker.responses[u][k].id = id}

Walks == walker.mshr \o walker.finished \o walker.completed

Places(id) ==
    Len(SelectSeq(Walks, LAMBDA x : x.id = id))
    + Len(SelectSeq(FoldLeft(LAMBDA s, q : s \o q, << >>,
                             walker.requests \o walker.responses), LAMBDA x : x.id = id))

\* A request is in one place, from the queue it came in by to its one response, and
\* the response says the frame that VirtualMemory gave its page: walks that wait
\* for one block, end in any order and are refused lose and swap nothing.
TranslatedOnce ==
    /\ \A id \in 1 .. Len(asked) :
        Places(id) = 1 \/ (~asked[id].reply /\ Places(id) = 0)
    /\ \A u \in 1 .. Uppers : \A k \in 1 .. Len(walker.responses[u]) :
        LET r == walker.responses[u][k]
        IN  asked[r.id].reply /\ r.vpage = asked[r.id].vpage
            /\ r.frame = vm.pages[<<Cpu, r.vpage>>]

\* A walk that waits has its block on the way: nothing waits for an answer that
\* has come already and finished another (finish_packet takes all it can).
NoOrphanWalk ==
    \A i \in 1 .. Len(walker.mshr) :
        LET line == LineOf(walker.mshr[i].addr)
        IN  \/ line \in below
            \/ \E a \in ToSet(walker.lowerRq) \cup ToSet(walker.lowerReturned) :
                    LineOf(a) = line

\* What a paging-structure cache remembers is a page of the table that was given
\* to an address of that region, at the level it says.
PsclHoldsTablePages ==
    \A k \in 1 .. NumPscl : \A e \in ToSet(walker.pscl[k]) :
        \E v \in Vpages :
            /\ PsclKey(v, k) = e.key
            /\ e.level = NumPscl - k
            /\ vm.tables[TableKey(Cpu, v, e.level + 1)] = e.slot

AllTranslated ==
    \A id \in 1 .. Len(asked) : asked[id].reply => ReplyTo(id) # {}
=============================================================================
