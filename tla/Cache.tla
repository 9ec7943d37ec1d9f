------------------------------- MODULE Cache -------------------------------
(***************************************************************************)
(* CACHE (src/cache.cc): one cache between its upper levels and a lower    *)
(* level, with the translator (a TLB, itself a cache) it sends virtual     *)
(* requests to.  Operate is CACHE::operate, one cycle, and takes the steps *)
(* of that function in their order; each step is an operator on the state  *)
(* of the cache.                                                           *)
(*                                                                         *)
(* A time (event_cycle) is kept as the cycles left until it: 0 is now, -1  *)
(* any earlier cycle, Never the maximum.  Statistics, data and prefetch    *)
(* metadata are left out.  Replacement policy and prefetcher may choose    *)
(* anything they can.  The lower level and the translator are external:    *)
(* they answer each request once, after any delay and in any order.        *)
(***************************************************************************)
EXTENDS Channel, Integers, FiniteSets

CONSTANTS
    Uppers,             \* number of upper levels
    NumSet, NumWay, MshrSize, InternalPqSize,
    HitLatency, FillLatency,
    MaxTag, MaxFill,
    PrefetchAsLoad,
    VirtualPrefetch,
    PageSize,           \* 2 ^ LOG2_PAGE_SIZE
    FrameOf,            \* external: a function from virtual to physical page
    Bypass,             \* the replacement policy may choose not to fill
    Reads, Writes,      \* [type, addr, translated]: what the upper levels send
    Prefetches,         \* addresses the prefetcher asks for
    MaxRequests         \* bound on the requests made

ASSUME CacheAssumption ==
    /\ {Uppers, NumSet, NumWay, MshrSize, PageSize} \subseteq Nat \ {0}
    /\ {InternalPqSize, HitLatency, FillLatency, MaxTag, MaxFill,
        MaxRequests} \subseteq Nat
    /\ {PrefetchAsLoad, VirtualPrefetch, Bypass} \subseteq BOOLEAN

VARIABLES
    cache,
    taken,          \* external: what lower level and translator work on
    asked,          \* history: the requests made
    answered        \* history: what the upper levels have read

vars == <<cache, taken, asked, answered>>

Never == FillLatency + 1

BlockOf(a)   == a \div BlockSize
SetOf(a)     == BlockOf(a) % NumSet
PageOf(a)    == a \div PageSize
\* splice_bits
Physical(a)  == (FrameOf[PageOf(a)] * PageSize) + (a % PageSize)
Untranslated(x) == ~x.translated
FirstOf(q, Test(_)) == SelectInSeq(q, Test)

\* Mutated form of SameBlock: the offset within the block counts.
SameAddress(q, a) == FirstOf(q, LAMBDA x : x.addr = a)

\* The first entry of q for the block of a, or 0.
SameBlock(q, a) == FirstOf(q, LAMBDA x : BlockOf(x.addr) = BlockOf(a))

EmptyBlock == [valid |-> FALSE, dirty |-> FALSE, addr |-> 0]

\* tag_lookup_type; fills is ~(prefetch_from_this && skip_fill)
Lookup(r, fills, to) ==
    [addr |-> r.addr, vaddr |-> r.vaddr, type |-> r.type, translated |-> r.translated,
     issued |-> FALSE, left |-> Never, waiters |-> r.waiters, fills |-> fills, to |-> to]

\* mshr_type
Miss(t, left) ==
    [addr |-> t.addr, vaddr |-> t.vaddr, type |-> t.type, left |-> left,
     waiters |-> t.waiters, to |-> t.to]

Init ==
    /\ cache = [upper   |-> [u \in 1 .. Uppers |-> NoRequests],
                lower   |-> NoRequests,
                translator |-> NoRequests,
                tags    |-> << >>,      \* inflight_tag_check
                stash   |-> << >>,      \* translation_stash
                pq      |-> << >>,      \* internal_PQ
                mshr    |-> << >>,
                writes  |-> << >>,      \* inflight_writes
                blocks  |-> [s \in 0 .. NumSet - 1 |-> [w \in 1 .. NumWay |-> EmptyBlock]],
                unsaved |-> {},         \* history: blocks written, not written back
                failed  |-> FALSE]      \* an assertion has failed
    /\ taken = [lower |-> {}, translator |-> {}]
    /\ asked = << >>
    /\ answered = {}
-----------------------------------------------------------------------------
(* Responses from below *)

\* Mutated form of ReturnedInto: the entry stays where it was.
ReturnedIntoPlace(mshr, i, first) == [mshr EXCEPT ![i].left = FillLatency]

\* iter_swap: after the entries returned before it.
ReturnedInto(mshr, i, first) ==
    [mshr EXCEPT ![first] = [mshr[i] EXCEPT !.left = FillLatency],
                 ![i] = IF i = first THEN [@ EXCEPT !.left = FillLatency]
                        ELSE mshr[first]]

FinishPacket(c, packet) ==
    LET i     == SameBlock(c.mshr, packet.addr)
        first == FirstOf(c.mshr, LAMBDA x : x.left = Never)
    IN  IF i = 0 \/ first = 0
        THEN [c EXCEPT !.failed = TRUE]
        ELSE [c EXCEPT !.mshr = ReturnedInto(@, i, first)]

FinishPackets(c) ==
    [FoldLeft(FinishPacket, c, c.lower.returned) EXCEPT !.lower.returned = << >>]

\* mark_translated
Marked(t) == [t EXCEPT !.addr = Physical(t.vaddr), !.translated = TRUE]

FinishTranslation(c, packet) ==
    LET OnPage(t)  == PageOf(t.vaddr) = PageOf(packet.vaddr)
        OffPage(t) == ~OnPage(t)
        done       == SelectSeq(c.stash, LAMBDA t : t.translated)
        pending    == SelectSeq(c.stash, Untranslated)
        found      == SelectSeq(pending, OnPage)
    IN  [c EXCEPT
            !.stash = done \o [k \in DOMAIN found |-> Marked(found[k])]
                           \o SelectSeq(pending, OffPage),
            !.tags  = [k \in DOMAIN @ |-> IF OnPage(@[k]) THEN Marked(@[k]) ELSE @[k]]]

FinishTranslations(c) ==
    [FoldLeft(FinishTranslation, c, c.translator.returned)
        EXCEPT !.translator.returned = << >>]
-----------------------------------------------------------------------------
(* Fills *)

Answer(c, r) ==
    [c EXCEPT !.upper = [u \in 1 .. Uppers |->
        IF u \in r.to THEN [@[u] EXCEPT !.returned = Append(@, Response(r))] ELSE @[u]]]

\* The way to fill: an invalid one, else choice, the policy's, where 0 stands
\* for the bypass, which no policy chooses for a write.
FillWay(c, f, choice) ==
    LET set     == c.blocks[SetOf(f.addr)]
        invalid == {w \in 1 .. NumWay : ~set[w].valid}
    IN  IF invalid # {} THEN CHOOSE w \in invalid : \A v \in invalid : w <= v
        ELSE IF f.type = "WRITE" /\ choice = 0 THEN 1 ELSE choice

MustWriteBack(c, f, way) == way # 0 /\ c.blocks[SetOf(f.addr)][way].dirty

\* handle_fill succeeds.
CanFill(c, f, choice) == MustWriteBack(c, f, FillWay(c, f, choice)) => AcceptsWq(c.lower)

WriteBack(c, b) ==
    [c EXCEPT !.lower = AddWq(@, Request(b.addr, 0, "WRITE", TRUE, FALSE, {})),
              !.unsaved = @ \ {BlockOf(b.addr)}]

\* Mutated form of SavedFirst: a dirty victim is dropped.
SavedNever(c, f, way) == c

SavedFirst(c, f, way) ==
    IF MustWriteBack(c, f, way) THEN WriteBack(c, c.blocks[SetOf(f.addr)][way]) ELSE c

\* handle_fill, when it succeeds
HandleFill(c, f, choice) ==
    LET way == FillWay(c, f, choice)
        block == [valid |-> TRUE, dirty |-> f.type = "WRITE", addr |-> f.addr]
    IN  Answer(IF way = 0 THEN c
               ELSE [SavedFirst(c, f, way) EXCEPT !.blocks[SetOf(f.addr)][way] = block],
               f)

\* One queue's fills, in order, until one is not due or does not succeed.  q is
\* what is left of it, bw what is left of MAX_FILL.
Fills(c0, q0, bw0, choices) ==
    FoldLeft(LAMBDA s, choice :
                IF s.going /\ s.bw > 0 /\ s.q # << >> /\ Head(s.q).left <= 0
                   /\ CanFill(s.c, Head(s.q), choice)
                THEN [c |-> HandleFill(s.c, Head(s.q), choice), q |-> Tail(s.q),
                      bw |-> s.bw - 1, going |-> TRUE]
                ELSE [s EXCEPT !.going = FALSE],
             [c |-> c0, q |-> q0, bw |-> bw0, going |-> TRUE],
             choices)

PerformFills(c, choices) ==
    LET m == Fills(c, c.mshr, MaxFill, choices.mshr)
        w == Fills(m.c, c.writes, m.bw, choices.writes)
    IN  [w.c EXCEPT !.mshr = m.q, !.writes = w.q]
-----------------------------------------------------------------------------
(* Tag checks *)

\* get_span_p: at most n from the front of q while Test holds.
SpanLength(q, n, Test(_)) ==
    LET stop == FirstOf(q, LAMBDA x : ~Test(x))
        len  == IF stop = 0 THEN Len(q) ELSE stop - 1
    IN  IF len < n THEN len ELSE n

Dropped(q, n) == SubSeq(q, n + 1, Len(q))

Larger(a, b)  == IF a > b THEN a ELSE b
Smaller(a, b) == IF a < b THEN a ELSE b

\* initiate_tag_check, for n entries from the front of q as lookups
Started(c, q, n, AsLookup(_)) ==
    [c EXCEPT !.tags = @ \o [k \in 1 .. n |-> [AsLookup(q[k]) EXCEPT !.left = HitLatency]]]

\* One queue of the upper level u; s has the bandwidth left.
TakeFrom(s, u, name, CanTranslate(_)) ==
    LET q == s.c.upper[u][name]
        n == SpanLength(q, s.bw, CanTranslate)
        AsLookup(r) == Lookup(r, TRUE, IF r.reply THEN {u} ELSE {})
    IN  [c |-> [Started(s.c, q, n, AsLookup) EXCEPT !.upper[u][name] = Dropped(q, n)],
         bw |-> s.bw - n]

InitiateTagChecks(c) ==
    LET bw == Larger(0, Smaller(MaxTag, MaxTag * HitLatency - Len(c.tags)))
        avail == Len(c.stash) < MshrSize
        CanTranslate(x) == avail \/ x.translated
        Same(t) == t
        n == SpanLength(c.stash, bw, LAMBDA t : t.translated)
        fromStash == [c |-> [Started(c, c.stash, n, Same) EXCEPT !.stash = Dropped(@, n)],
                      bw |-> bw - n]
        fromAbove ==
            FoldLeft(LAMBDA s, u :
                        TakeFrom(TakeFrom(TakeFrom(s, u, "WQ", CanTranslate),
                                          u, "RQ", CanTranslate),
                                 u, "PQ", CanTranslate),
                     fromStash, [u \in 1 .. Uppers |-> u])
        p == SpanLength(c.pq, fromAbove.bw, CanTranslate)
    IN  [Started(fromAbove.c, c.pq, p, Same) EXCEPT !.pq = Dropped(@, p)]

\* issue_translation, for the entry at k of field
IssueOne(c, field, k) ==
    LET t == c[field][k]
    IN  IF ~t.issued /\ ~t.translated /\ AcceptsRq(c.translator)
        THEN [c EXCEPT !.translator = AddRq(@, Request(t.addr, t.vaddr, "LOAD", TRUE,
                                                       TRUE, t.waiters)),
                       ![field][k].issued = TRUE]
        ELSE c

IssueTranslation(c) ==
    FoldLeft(LAMBDA s, k : IssueOne(s, "stash", k),
             FoldLeft(LAMBDA s, k : IssueOne(s, "tags", k), c, [k \in DOMAIN c.tags |-> k]),
             [k \in DOMAIN c.stash |-> k])

\* Entries that are due but untranslated give way (extract_if).
MoveToStash(c) ==
    LET Late(t) == t.left < 0 /\ ~t.translated
    IN  [c EXCEPT !.stash = @ \o SelectSeq(c.tags, Late),
                  !.tags  = SelectSeq(@, LAMBDA t : ~Late(t))]

\* try_hit looks at the address only, not at valid.
HitWays(c, t) ==
    {w \in 1 .. NumWay : BlockOf(c.blocks[SetOf(t.addr)][w].addr) = BlockOf(t.addr)}

Unsaved(c, t) ==
    IF t.type = "WRITE" THEN [c EXCEPT !.unsaved = @ \cup {BlockOf(t.addr)}] ELSE c

\* try_hit
Hit(c, t) ==
    LET way == CHOOSE w \in HitWays(c, t) : \A v \in HitWays(c, t) : w <= v
    IN  [Answer(c, t) EXCEPT !.blocks[SetOf(t.addr)][way].dirty = @ \/ t.type = "WRITE"]

\* Mutated form of MergedMiss: the late-comer's upper level is forgotten.
MergedMissForgets(old, new) ==
    [(IF new.type = "PREFETCH" THEN old ELSE new)
        EXCEPT !.waiters = old.waiters \cup new.waiters, !.to = old.to, !.left = old.left]

\* Mutated form of MergedMiss: what came first decides.
MergedMissKeeps(old, new) ==
    [old EXCEPT !.waiters = old.waiters \cup new.waiters, !.to = old.to \cup new.to]

\* mshr_type::merge
MergedMiss(old, new) ==
    [(IF new.type = "PREFETCH" THEN old ELSE new)
        EXCEPT !.waiters = old.waiters \cup new.waiters, !.to = old.to \cup new.to,
               !.left = old.left]

SendsRead(t) == PrefetchAsLoad \/ t.type # "PREFETCH"

MissAccepted(c, t) ==
    \/ SameBlock(c.mshr, t.addr) # 0
    \/ /\ Len(c.mshr) # MshrSize
       /\ IF SendsRead(t) THEN AcceptsRq(c.lower) ELSE AcceptsPq(c.lower)

\* Mutated form of HandleMiss: a prefetch that is not to fill waits like a load.
HandleMissWaits(c, t) ==
    LET i == SameBlock(c.mshr, t.addr)
        r == Request(t.addr, t.vaddr, "LOAD", TRUE, t.fills, t.waiters)
    IN  IF i # 0 THEN [c EXCEPT !.mshr[i] = MergedMiss(@, Miss(t, Never))]
        ELSE [c EXCEPT !.lower = IF SendsRead(t) THEN AddRq(@, r) ELSE AddPq(@, r),
                       !.mshr = Append(@, Miss(t, Never))]

\* Mutated form of HandleMiss: every miss asks for a response.
HandleMissAsks(c, t) ==
    LET i == SameBlock(c.mshr, t.addr)
        r == Request(t.addr, t.vaddr, "LOAD", TRUE, TRUE, t.waiters)
    IN  IF i # 0 THEN [c EXCEPT !.mshr[i] = MergedMiss(@, Miss(t, Never))]
        ELSE [c EXCEPT !.lower = IF SendsRead(t) THEN AddRq(@, r) ELSE AddPq(@, r),
                       !.mshr = IF t.fills THEN Append(@, Miss(t, Never)) ELSE @]

\* handle_miss, when it succeeds
HandleMiss(c, t) ==
    LET i == SameBlock(c.mshr, t.addr)
        r == Request(t.addr, t.vaddr, IF t.type = "WRITE" THEN "RFO" ELSE t.type, TRUE,
                     t.fills, t.waiters)
    IN  IF i # 0 THEN [c EXCEPT !.mshr[i] = MergedMiss(@, Miss(t, Never))]
        ELSE [c EXCEPT !.lower = IF SendsRead(t) THEN AddRq(@, r) ELSE AddPq(@, r),
                       !.mshr = IF t.fills THEN Append(@, Miss(t, Never)) ELSE @]

HandleWrite(c, t) == [c EXCEPT !.writes = Append(@, Miss(t, FillLatency))]

\* Write-backs are treated like fills, stores like reads.
LikeFill(t) == t.type = "WRITE" /\ ~MatchOffset

CheckAccepted(c, t) == HitWays(c, t) # {} \/ LikeFill(t) \/ MissAccepted(c, t)

CheckTag(c, t) ==
    Unsaved(IF HitWays(c, t) # {} THEN Hit(c, t)
            ELSE IF LikeFill(t) THEN HandleWrite(c, t)
            ELSE HandleMiss(c, t), t)

\* The tag checks that are due, in order, until one does not succeed.
TagChecks(c) ==
    LET ready == SpanLength(c.tags, MaxTag, LAMBDA t : t.left <= 0 /\ t.translated)
        s == FoldLeft(LAMBDA a, t :
                        IF a.going /\ CheckAccepted(a.c, t)
                        THEN [c |-> CheckTag(a.c, t), n |-> a.n + 1, going |-> TRUE]
                        ELSE [a EXCEPT !.going = FALSE],
                      [c |-> c, n |-> 0, going |-> TRUE], SubSeq(c.tags, 1, ready))
    IN  [s.c EXCEPT !.tags = Dropped(@, s.n)]

\* ++current_cycle
Tick(c) ==
    LET Later(n) == IF n = Never \/ n < 0 THEN n ELSE n - 1
        Aged(q)  == [k \in DOMAIN q |-> [q[k] EXCEPT !.left = Later(@)]]
    IN  [c EXCEPT !.tags = Aged(@), !.mshr = Aged(@), !.writes = Aged(@)]
-----------------------------------------------------------------------------
(* The actions *)

Collided(c) == [c EXCEPT !.upper = [u \in 1 .. Uppers |-> CheckCollision(@[u])]]

\* What the policy may choose while the queue q is filled, if it is to be
VictimChoices(q) ==
    [1 .. MaxFill -> IF q = << >> \/ Head(q).left > 0 THEN {1}
                     ELSE IF Bypass THEN 0 .. NumWay ELSE 1 .. NumWay]

Operate ==
    /\ ~cache.failed
    /\ \E c \in {FinishTranslations(FinishPackets(Collided(cache)))} :
       \E m \in VictimChoices(c.mshr), w \in VictimChoices(c.writes) :
          cache' = Tick(TagChecks(MoveToStash(IssueTranslation(InitiateTagChecks(
                      PerformFills(c, [mshr |-> m, writes |-> w]))))))
    /\ UNCHANGED <<taken, asked, answered>>

\* An upper level sends a request; a virtual one has the virtual address twice.
Send(u, s, reply) ==
    LET i == Len(asked) + 1
        r == Request(IF s.translated THEN s.addr ELSE s.vaddr, s.vaddr, s.type,
                     s.translated, reply, IF reply THEN {i} ELSE {})
    IN  /\ i <= MaxRequests
        /\ reply \/ s.type \in {"PREFETCH", "WRITE"}
        /\ \/ s \in Reads /\ s.type # "PREFETCH" /\ AcceptsRq(cache.upper[u])
              /\ cache' = [cache EXCEPT !.upper[u] = AddRq(@, r)]
           \/ s \in Reads /\ s.type = "PREFETCH" /\ AcceptsPq(cache.upper[u])
              /\ cache' = [cache EXCEPT !.upper[u] = AddPq(@, r)]
           \/ s \in Writes /\ ~reply /\ AcceptsWq(cache.upper[u])
              /\ cache' = [cache EXCEPT !.upper[u] = AddWq(@, r)]
        /\ asked' = Append(asked, [s |-> s, reply |-> reply, upper |-> u])
        /\ UNCHANGED <<taken, answered>>

\* prefetch_line, by the prefetcher
PrefetchLine(a, fillThisLevel) ==
    LET r == Request(a, IF VirtualPrefetch THEN a ELSE 0, "PREFETCH", ~VirtualPrefetch,
                     FALSE, {})
    IN  /\ Len(asked) < MaxRequests
        /\ Len(cache.pq) < InternalPqSize
        /\ cache' = [cache EXCEPT !.pq = Append(@, Lookup(r, fillThisLevel, {}))]
        /\ asked' = Append(asked, [reply |-> FALSE])
        /\ UNCHANGED <<taken, answered>>

\* An upper level reads its responses.
Receive(u) ==
    /\ cache.upper[u].returned # << >>
    /\ cache' = [cache EXCEPT !.upper[u].returned = << >>]
    /\ answered' = answered \cup
          UNION {{[upper |-> u, waiter |-> i, addr |-> r.addr, vaddr |-> r.vaddr] :
                      i \in r.waiters} : r \in Range(cache.upper[u].returned)}
    /\ UNCHANGED <<taken, asked>>

\* The lower level takes a request from one of its queues, and answers later.
Take(side, name) ==
    /\ cache[side][name] # << >>
    /\ cache' = [cache EXCEPT ![side][name] = Tail(@)]
    /\ LET r == Head(cache[side][name])
       IN  taken' = [taken EXCEPT ![side] = IF r.reply THEN @ \cup {r} ELSE @]
    /\ UNCHANGED <<asked, answered>>

Give(side, r) ==
    /\ r \in taken[side]
    /\ cache' = [cache EXCEPT ![side].returned = Append(@, Response(r))]
    /\ taken' = [taken EXCEPT ![side] = @ \ {r}]
    /\ UNCHANGED <<asked, answered>>

\* What the levels around the cache do in their cycles
Around ==
    \/ \E u \in 1 .. Uppers : Receive(u)
    \/ \E side \in {"lower", "translator"}, name \in {"RQ", "WQ", "PQ"} : Take(side, name)
    \/ \E side \in {"lower", "translator"} : \E r \in taken[side] : Give(side, r)

\* What they and the prefetcher ask for
Requested ==
    \/ \E u \in 1 .. Uppers, s \in Reads \cup Writes, reply \in BOOLEAN : Send(u, s, reply)
    \/ \E a \in Prefetches, fillThisLevel \in BOOLEAN : PrefetchLine(a, fillThisLevel)

Next == Operate \/ Requested \/ Around

Spec == Init /\ [][Next]_vars

-----------------------------------------------------------------------------
(* Properties *)

\* An upper level uses a response for the waiters that are its own.
Own(u, i) == asked[i].upper = u

AnsweredTo(i) == {a \in answered : a.waiter = i /\ Own(a.upper, i)}

CountIn(q, Test(_)) == Cardinality({k \in DOMAIN q : Test(q[k])})

\* How often waiter i will be answered, from wherever its request is now.
Coming(i) ==
    LET u        == asked[i].upper
        Reply(r) == i \in r.waiters /\ r.reply
        Told(t)  == i \in t.waiters /\ u \in t.to
        Named(r) == i \in r.waiters
    IN  CountIn(cache.upper[u].RQ, Reply) + CountIn(cache.upper[u].PQ, Reply)
        + CountIn(cache.upper[u].WQ, Reply) + CountIn(cache.upper[u].returned, Named)
        + CountIn(cache.tags, Told) + CountIn(cache.stash, Told)
        + CountIn(cache.mshr, Told) + CountIn(cache.writes, Told)

Waiters == {i \in DOMAIN asked : asked[i].reply}

\* Every request that asked for a response gets exactly one, through merging in
\* the queues and in the MSHR, translation, the stash and refused fills.
AnsweredOnce ==
    \A i \in Waiters : Coming(i) + (IF AnsweredTo(i) # {} THEN 1 ELSE 0) = 1

\* The response is for the block that the request was for, however many were
\* merged and however they were translated: by the physical address for a request
\* that had one; for a virtual request by the virtual address, which is what the
\* core looks at, and by the physical address unless a write answered it before it
\* was translated.
RightBlock ==
    \A i \in Waiters : \A a \in AnsweredTo(i) :
        LET s == asked[i].s
            Is(x, y) == BlockOf(x) = BlockOf(y)
        IN  IF s.translated THEN Is(a.addr, s.addr)
            ELSE /\ Is(a.vaddr, s.vaddr)
                 /\ Is(a.addr, s.vaddr) \/ Is(a.addr, Physical(s.vaddr))

\* A response from below always finds its miss: the assertion in finish_packet.
NeverFails == ~cache.failed

\* The MSHR holds a block once, and the returned misses come first, as the fills
\* need that stop at the first miss that has not returned (finish_packet's
\* "after previously-returned entries, but before non-returned").
MshrOrdered ==
    \A i, j \in DOMAIN cache.mshr : i < j =>
        /\ BlockOf(cache.mshr[i].addr) # BlockOf(cache.mshr[j].addr)
        /\ cache.mshr[i].left = Never => cache.mshr[j].left = Never

\* A cache whose writes are handled like reads holds a block in one way, and not
\* while it waits for it.
OneCopyPerBlock ==
    \A s \in 0 .. NumSet - 1 : \A w \in 1 .. NumWay :
        cache.blocks[s][w].valid =>
            LET b == BlockOf(cache.blocks[s][w].addr)
            IN  /\ \A v \in 1 .. NumWay : v # w => BlockOf(cache.blocks[s][v].addr) # b
                /\ \A m \in Range(cache.mshr) : BlockOf(m.addr) # b

\* A block that has been written is dirty, or will be when it is filled, until it
\* is written back: no write is lost.
WrittenIsDirty ==
    \A b \in cache.unsaved :
        \/ \E w \in 1 .. NumWay :
              LET x == cache.blocks[b % NumSet][w] IN BlockOf(x.addr) = b /\ x.dirty
        \/ \E m \in Range(cache.mshr) \cup Range(cache.writes) :
              BlockOf(m.addr) = b /\ m.type = "WRITE"
=============================================================================
