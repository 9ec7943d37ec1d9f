-------------------------------- MODULE Core --------------------------------
(***************************************************************************)
(* O3_CPU (src/ooo_cpu.cc): one out-of-order core between its instruction  *)
(* cache and its data cache.  Operate is O3_CPU::operate, one cycle, with  *)
(* an operator for each stage, in the order of the code.                   *)
(*                                                                         *)
(* An instruction is its index in the program, its instr_id, in whatever   *)
(* buffer it is; at[id] holds the fields that change.  A time              *)
(* (event_cycle) is kept as the cycles left until it: 0 is now, -1 any     *)
(* earlier cycle, Never the maximum.  The answers of branch predictor and  *)
(* BTB are chosen at the start (they are asked once for an instruction);   *)
(* the decoded-instruction buffer is the LRU set that LruTable implements, *)
(* the line used last first.  The caches are external: they take requests  *)
(* in order and answer them after any delay and in any order.              *)
(***************************************************************************)
EXTENDS Channel, Integers, FiniteSets, FiniteSetsExt

CONSTANTS
    Cases,              \* program (a sequence of trace instructions), guess and
                        \* warmup that a run may start with
    IfetchSize, DecodeSize, DispatchSize, RobSize, LqSize, SqSize,
    FetchWidth, DecodeWidth, DispatchWidth, SchedulerSize, ExecWidth,
    LqWidth, SqWidth, RetireWidth, L1iBandwidth, L1dBandwidth,
    DecodeLatency, DispatchLatency, SchedulingLatency, ExecLatency, Penalty,
    DibWindow, DibWays

ASSUME CoreAssumption ==
    /\ {IfetchSize, DecodeSize, DispatchSize, RobSize, LqSize, SqSize,
        FetchWidth, DecodeWidth, DispatchWidth, SchedulerSize, ExecWidth,
        LqWidth, SqWidth, RetireWidth, L1iBandwidth, L1dBandwidth,
        DibWindow, DibWays} \subseteq Nat \ {0}
    /\ {DecodeLatency, DispatchLatency, SchedulingLatency, ExecLatency,
        Penalty} \subseteq Nat

VARIABLES
    program,
    guess,      \* external: [dir, target] that the predictors answer
    warmup,
    core,
    inL1i, inL1d    \* external: what the caches work on

vars == <<program, guess, warmup, core, inL1i, inL1d>>

Stats == INSTANCE FetchBlocks

Ids   == DOMAIN program
Never == 99
Line(a) == a \div BlockSize
Lesser(m, n) == IF m < n THEN m ELSE n
Ahead(q, n)  == SubSeq(q, 1, Lesser(n, Len(q)))
Behind(q, n) == SubSeq(q, n + 1, Len(q))

\* F applied to the elements of q at positions.
Changed(q, positions, F(_)) ==
    FoldSet(LAMBDA k, s : [s EXCEPT ![k] = F(@)], q, positions)

\* get_span_p: how many of the first n of q, up to the first that fails Test.
Span(q, n, Test(_)) ==
    LET room == Lesser(n, Len(q))
        stop == SelectInSeq(Ahead(q, room), LAMBDA x : ~Test(x))
    IN  IF stop = 0 THEN room ELSE stop - 1

-----------------------------------------------------------------------------
(* Instructions                                                            *)

Special == {"sp", "flags", "ip"}

\* The kind of branch is told from the registers that it reads and writes.
BranchType(i) ==
    LET reads(r) == r \in i.src
        other    == i.src \ Special # {}
    IN  CASE "ip" \notin i.dst -> "none"
          [] ~reads("sp") /\ ~reads("flags") -> IF other THEN "indirect" ELSE "jump"
          [] ~reads("sp") /\ reads("ip") /\ reads("flags") /\ "sp" \notin i.dst
                /\ ~other -> "conditional"
          [] reads("sp") /\ "sp" \in i.dst /\ reads("ip") /\ ~reads("flags") ->
                IF other THEN "indirect call" ELSE "call"
          [] reads("sp") /\ "sp" \in i.dst /\ ~reads("ip") -> "return"
          [] OTHER -> "other"

Kind(id)   == BranchType(program[id])
Judged(id) == Kind(id) \in {"conditional", "other"}     \* may fall through
Taken(id)  == IF Judged(id) THEN program[id].taken ELSE Kind(id) # "none"

\* do_stack_pointer_folding
Folded(i) ==
    IF \/ BranchType(i) # "none"
       \/ i.loads # << >> \/ i.stores # << >>
       \/ i.src \ Special = {}
    THEN i.dst \ {"sp"} ELSE i.dst

MemOps(id) == Len(program[id].loads) + Len(program[id].stores)

Fetched ==
    [event |-> 0, dib |-> FALSE, fetched |-> "no", decoded |-> FALSE,
     missed |-> FALSE, scheduled |-> FALSE, executed |-> "no",
     memDone |-> 0, waits |-> 0, readers |-> << >>, src |-> {}, dst |-> {}]

NoLoad == [id |-> 0]

\* LSQ_ENTRY; producer 0 is none.
Load(id, addr) ==
    [id |-> id, addr |-> addr, event |-> -1, issued |-> FALSE, producer |-> 0]

Store(id, addr) ==
    [id |-> id, addr |-> addr, event |-> -1, issued |-> FALSE, loads |-> << >>]

\* What the statistics on fetch blocks see of an instruction.
Streamed(id) ==
    [ip |-> program[id].ip, branch |-> Kind(id) # "none", taken |-> Taken(id),
     conditional |-> Judged(id)]

Registers == UNION {i.src \cup i.dst : i \in ToSet(program)}

NewCore ==
    [at |-> << >>, ifetch |-> << >>, decode |-> << >>, dispatch |-> << >>,
     rob |-> << >>, lq |-> [k \in 1 .. LqSize |-> NoLoad], sq |-> << >>,
     producers |-> [r \in Registers |-> << >>], resume |-> -1, dib |-> << >>,
     l1i |-> NoRequests, l1d |-> NoRequests, retired |-> 0, written |-> << >>,
     stats |-> Stats!NewStats, dangling |-> FALSE, failed |-> FALSE]

-----------------------------------------------------------------------------
(* The end of the pipeline                                                 *)

RetireRob(c) ==
    LET n == Span(c.rob, RetireWidth, LAMBDA id : c.at[id].executed = "done")
    IN  [c EXCEPT !.rob = Behind(@, n), !.retired = @ + n]

\* Mutated form of Woken: the first to finish wakes all that wait.
WokenEarly(c, id) ==
    [c EXCEPT
        !.at = Changed(@, ToSet(c.at[id].readers), LAMBDA i : [i EXCEPT !.waits = 0]),
        !.failed = @ \/ \E i \in ToSet(c.at[id].readers) : c.at[i].waits = 0]

\* The instructions that read what id wrote.
Woken(c, id) ==
    [c EXCEPT
        !.at = Changed(@, ToSet(c.at[id].readers), LAMBDA i : [i EXCEPT !.waits = @ - 1]),
        !.failed = @ \/ \E i \in ToSet(c.at[id].readers) : c.at[i].waits = 0]

CompleteExecution(c, id) ==
    LET d == [c EXCEPT
                !.producers = [r \in Registers |->
                    IF r \in c.at[id].dst THEN Remove(@[r], id) ELSE @[r]],
                !.failed = @ \/ \E r \in c.at[id].dst : ~Contains(c.producers[r], id),
                !.at[id].executed = "done",
                !.resume = IF c.at[id].missed THEN Penalty ELSE @]
    IN  Woken(d, id)

CompleteInflight(c) ==
    FoldLeft(LAMBDA s, id :
                IF /\ s.bw > 0
                   /\ s.c.at[id].executed = "inflight"
                   /\ s.c.at[id].event <= 0
                   /\ s.c.at[id].memDone = MemOps(id)
                THEN [c |-> CompleteExecution(s.c, id), bw |-> s.bw - 1]
                ELSE s,
             [c |-> c, bw |-> ExecWidth], c.rob).c

Latency(n) == IF warmup THEN 0 ELSE n

Execution(c, id) ==
    LET Of(q)     == {k \in DOMAIN q : q[k].id = id}
        Timed(x)  == [x EXCEPT !.event = Latency(ExecLatency)]
    IN  [c EXCEPT
            !.at[id] = [Timed(@) EXCEPT !.executed = "inflight"],
            !.lq = Changed(@, Of(@), Timed),
            !.sq = Changed(@, Of(@), Timed)]

Ready(c, id) ==
    /\ c.at[id].scheduled
    /\ c.at[id].executed = "no"
    /\ c.at[id].waits = 0
    /\ c.at[id].event <= 0

ExecuteInstruction(c) ==
    FoldLeft(LAMBDA s, id :
                IF s.bw > 0 /\ Ready(s.c, id)
                THEN [c |-> Execution(s.c, id), bw |-> s.bw - 1] ELSE s,
             [c |-> c, bw |-> ExecWidth], c.rob).c

\* Mutated form of Priors: the oldest writer that has not finished.
PriorsOldest(c, id) ==
    {Head(c.producers[r]) : r \in {s \in c.at[id].src : c.producers[s] # << >>}}

\* The youngest scheduled writers, which have not finished, of what id reads.
Priors(c, id) ==
    {Last(c.producers[r]) : r \in {s \in c.at[id].src : c.producers[s] # << >>}}

Scheduling(c, id) ==
    LET prior == Priors(c, id)
        older(i) == i < id
    IN  [c EXCEPT
            !.at = Changed([@ EXCEPT ![id] = [@ EXCEPT !.waits = @ + Cardinality(prior),
                                                       !.scheduled = TRUE,
                                                       !.event = Latency(SchedulingLatency)]],
                           prior, LAMBDA i : [i EXCEPT !.readers = Append(@, id)]),
            !.producers = [r \in Registers |->
                IF r \in c.at[id].dst
                THEN SelectSeq(@[r], older) \o <<id>>
                     \o SelectSeq(@[r], LAMBDA i : ~older(i))
                ELSE @[r]]]

\* The first SchedulerSize that are not executed are looked at.
ScheduleInstruction(c) ==
    FoldLeft(LAMBDA s, id :
                IF s.bw = 0 THEN s
                ELSE [c |-> IF s.c.at[id].scheduled THEN s.c ELSE Scheduling(s.c, id),
                      bw |-> IF s.c.at[id].executed = "no" THEN s.bw - 1 ELSE s.bw],
             [c |-> c, bw |-> SchedulerSize], c.rob).c

-----------------------------------------------------------------------------
(* Loads and stores                                                        *)

\* LSQ_ENTRY::finish
Finish(c, id) ==
    IF ~Contains(c.rob, id) \/ c.at[id].memDone = MemOps(id)
    THEN [c EXCEPT !.failed = TRUE]
    ELSE [c EXCEPT !.at[id].memDone = @ + 1]

\* Mutated form of SourceOf: the oldest store to addr.
SourceOfOldest(c, addr) == SelectInSeq(c.sq, LAMBDA x : x.addr = addr)

\* The youngest store to addr, or 0.
SourceOf(c, addr) == SelectLastInSeq(c.sq, LAMBDA x : x.addr = addr)

\* One load: finished at once when the store it reads has been issued, else
\* the load waits for that store, or goes to the cache.
LoadScheduled(c, id, addr) ==
    LET k == CHOOSE n \in 1 .. LqSize :
                c.lq[n] = NoLoad /\ \A m \in 1 .. n - 1 : c.lq[m] # NoLoad
        s == SourceOf(c, addr)
    IN  CASE s = 0 -> [c EXCEPT !.lq[k] = Load(id, addr)]
          [] s # 0 /\ c.sq[s].issued -> [c EXCEPT !.at[id].memDone = @ + 1]
          [] OTHER -> [c EXCEPT
                        !.lq[k] = [Load(id, addr) EXCEPT !.producer = c.sq[s].id],
                        !.sq[s].loads = Append(@, k),
                        !.failed = @ \/ c.sq[s].id >= id]

\* do_memory_scheduling
MemoryScheduled(c, id) ==
    LET d == FoldLeft(LAMBDA s, addr : LoadScheduled(s, id, addr), c, program[id].loads)
    IN  [d EXCEPT !.sq = FoldLeft(LAMBDA q, addr : Append(q, Store(id, addr)), @,
                                  program[id].stores)]

\* Mutated form of FinishStore: the loads go on waiting.
FinishStoreAlone(c, k) ==
    [Finish(c, c.sq[k].id) EXCEPT !.sq[k] = [@ EXCEPT !.issued = TRUE, !.event = 0]]

\* do_finish_store: the store's own operation, and the loads that wait for it.
FinishStore(c, k) ==
    LET x == c.sq[k]
        d == FoldLeft(LAMBDA s, n :
                IF s.lq[n] = NoLoad \/ s.lq[n].id = 0 THEN [s EXCEPT !.failed = TRUE]
                ELSE [Finish(s, s.lq[n].id) EXCEPT
                        !.lq[n] = NoLoad,
                        !.failed = @ \/ s.lq[n].producer # x.id],
                Finish(c, x.id), x.loads)
    IN  [d EXCEPT !.sq[k] = [@ EXCEPT !.issued = TRUE, !.event = 0]]

\* The stores that are issued in this cycle follow those issued before.
StoresToIssue(c) ==
    LET issued == Span(c.sq, SqSize, LAMBDA x : x.issued)
    IN  [from |-> issued,
         count |-> Span(Behind(c.sq, issued), SqWidth,
                        LAMBDA x : ~x.issued /\ x.event <= 0)]

\* Mutated form of StoresToWrite: written before retirement.
StoresToWriteEarly(c, bw) ==
    Lesser(Span(c.sq, bw, LAMBDA x : x.issued /\ x.event <= 0), WqSize - Len(c.l1d.WQ))

\* How many stores are written to the cache: those of retired instructions, as
\* long as the cache accepts them.
StoresToWrite(c, bw) ==
    LET complete == IF c.rob = << >> THEN Never ELSE Head(c.rob)
    IN  Lesser(Span(c.sq, bw, LAMBDA x : x.id < complete /\ x.event <= 0),
               WqSize - Len(c.l1d.WQ))

Write(x) == Request(x.addr, x.addr, "WRITE", FALSE, FALSE, {x.id})
Read(x)  == Request(x.addr, x.addr, "LOAD", FALSE, TRUE, {x.id})

OperateStores(c) ==
    LET go == StoresToIssue(c)
        d  == FoldLeft(FinishStore, c, [k \in 1 .. go.count |-> go.from + k])
        n  == StoresToWrite(d, SqWidth - go.count)
    IN  [d EXCEPT
            !.l1d = FoldLeft(LAMBDA l, x : AddWq(l, Write(x)), @, Ahead(d.sq, n)),
            !.written = @ \o [k \in 1 .. n |-> d.sq[k].id],
            !.sq = Behind(@, n)]

OperateLoads(c) ==
    FoldLeft(LAMBDA s, k :
                IF /\ s.bw > 0
                   /\ s.c.lq[k] # NoLoad
                   /\ s.c.lq[k].producer = 0
                   /\ ~s.c.lq[k].issued
                   /\ s.c.lq[k].event < 0
                   /\ AcceptsRq(s.c.l1d)
                THEN [c |-> [s.c EXCEPT !.l1d = AddRq(@, Read(s.c.lq[k])),
                                        !.lq[k].issued = TRUE],
                      bw |-> s.bw - 1]
                ELSE s,
             [c |-> c, bw |-> LqWidth], [k \in 1 .. LqSize |-> k]).c

OperateLsq(c) == OperateLoads(OperateStores(c))

\* One response of the data cache finishes every issued load of the block.
DataReturned(c, a) ==
    FoldLeft(LAMBDA s, k :
                IF s.lq[k] # NoLoad /\ s.lq[k].issued /\ Line(s.lq[k].addr) = Line(a)
                THEN [Finish(s, s.lq[k].id) EXCEPT !.lq[k] = NoLoad]
                ELSE s,
             c, [k \in 1 .. LqSize |-> k])

HandleData(c) ==
    LET n == Lesser(L1dBandwidth, Len(c.l1d.returned))
        d == FoldLeft(LAMBDA s, r : DataReturned(s, r.vaddr), c, Ahead(c.l1d.returned, n))
    IN  [d EXCEPT !.l1d.returned = Behind(@, n)]

-----------------------------------------------------------------------------
(* Fetch to dispatch                                                       *)

\* One response of the instruction cache, for as many instructions as bw allows.
\* It refers to one that has left the fetch buffer by a dangling reference; what
\* is written there is no longer read.
FetchReturned(s) ==
    LET r    == Head(s.c.l1i.returned)
        go   == Ahead(SetToSortSeq(r.waiters, <), s.bw)
        rest == r.waiters \ ToSet(go)
    IN  [c  |-> [s.c EXCEPT
                    !.at = Changed(@, ToSet(go) \cap ToSet(s.c.ifetch),
                                   LAMBDA i : [i EXCEPT !.fetched = "done"]),
                    !.dangling = @ \/ \E i \in ToSet(go) : ~Contains(s.c.ifetch, i),
                    !.l1i.returned = IF rest = {} THEN Tail(@)
                                     ELSE [@ EXCEPT ![1].waiters = rest]],
         bw |-> s.bw - Len(go)]

\* Mutated form of HandleFetch: L1iBandwidth counts from 0.
HandleFetchOneMore(c) ==
    FoldLeft(LAMBDA s, k : IF s.bw = 0 \/ s.c.l1i.returned = << >> THEN s
                           ELSE FetchReturned(s),
             [c |-> c, bw |-> FetchWidth], [k \in 1 .. L1iBandwidth + 1 |-> k]).c

HandleFetch(c) ==
    FoldLeft(LAMBDA s, k : IF s.bw = 0 \/ s.c.l1i.returned = << >> THEN s
                           ELSE FetchReturned(s),
             [c |-> c, bw |-> FetchWidth], [k \in 1 .. L1iBandwidth |-> k]).c

HandleMemoryReturn(c) == HandleData(HandleFetch(c))

CanDispatch(c) ==
    /\ c.dispatch # << >>
    /\ c.at[Head(c.dispatch)].event < 0
    /\ Len(c.rob) # RobSize
    /\ Cardinality({k \in 1 .. LqSize : c.lq[k] = NoLoad})
            >= Len(program[Head(c.dispatch)].loads)
    /\ Len(program[Head(c.dispatch)].stores) + Len(c.sq) <= SqSize

DispatchInstruction(c) ==
    FoldLeft(LAMBDA s, k :
                IF CanDispatch(s)
                THEN MemoryScheduled([s EXCEPT !.rob = Append(@, Head(s.dispatch)),
                                               !.dispatch = Tail(@)],
                                     Head(s.dispatch))
                ELSE s,
             c, [k \in 1 .. DispatchWidth |-> k])

Window(id) == program[id].ip \div DibWindow

DibUsed(dib, w) == Ahead(<<w>> \o Remove(dib, w), DibWays)

\* Branches whose target, and not direction, was wrong are found out at decode.
KnownAtDecode(c, id) ==
    /\ c.at[id].missed
    /\ \/ Kind(id) \in {"jump", "call"}
       \/ Judged(id) /\ Taken(id) = guess[id].dir

\* Mutated form of Decoded: found out at decode and again when executed.
DecodedAgain(c, id) ==
    [c EXCEPT
        !.dib = DibUsed(@, Window(id)),
        !.at[id].event = Latency(DispatchLatency),
        !.resume = IF KnownAtDecode(c, id) THEN Penalty ELSE @]

Decoded(c, id) ==
    [c EXCEPT
        !.dib = DibUsed(@, Window(id)),
        !.at[id].missed = @ /\ ~KnownAtDecode(c, id),
        !.at[id].event = Latency(DispatchLatency),
        !.resume = IF KnownAtDecode(c, id) THEN Penalty ELSE @]

DecodeInstruction(c) ==
    LET n == Span(c.decode, Lesser(DecodeWidth, DispatchSize - Len(c.dispatch)),
                  LAMBDA id : c.at[id].event <= 0)
    IN  [FoldLeft(Decoded, c, Ahead(c.decode, n)) EXCEPT
            !.dispatch = @ \o Ahead(c.decode, n),
            !.decode = Behind(@, n)]

PromoteToDecode(c) ==
    LET n == Span(c.ifetch, Lesser(FetchWidth, DecodeSize - Len(c.decode)),
                  LAMBDA id : c.at[id].fetched = "done" /\ c.at[id].event <= 0)
        moved == Ahead(c.ifetch, n)
    IN  [c EXCEPT
            !.at = Changed(@, ToSet(moved),
                LAMBDA i : [i EXCEPT !.event =
                                IF i.decoded THEN 0 ELSE Latency(DecodeLatency)]),
            !.decode = @ \o moved,
            !.ifetch = Behind(@, n)]

\* The neighbours of position k in the fetch buffer, from k on, in its block.
Chunk(c, k) ==
    {n \in k .. Len(c.ifetch) :
        \A m \in k .. n : Line(program[c.ifetch[m]].ip) = Line(program[c.ifetch[k]].ip)}

\* One request to the instruction cache, for the first chunk from position s.from
\* that is ready; a refused one stays as it is.
FetchChunk(s) ==
    LET ready == {k \in s.from .. Len(s.c.ifetch) :
                    s.c.at[s.c.ifetch[k]].dib /\ s.c.at[s.c.ifetch[k]].fetched = "no"}
        chunk == Chunk(s.c, Min(ready))
        ids   == {s.c.ifetch[k] : k \in chunk}
        ip    == program[Min(ids)].ip
    IN  IF ready = {} THEN s
        ELSE [from |-> Max(chunk) + 1,
              c    |-> IF AcceptsRq(s.c.l1i)
                       THEN [s.c EXCEPT
                                !.l1i = AddRq(@, Request(ip, ip, "LOAD", FALSE, TRUE, ids)),
                                !.at = Changed(@, ids,
                                    LAMBDA i : [i EXCEPT !.fetched = "inflight"])]
                       ELSE s.c]

FetchInstruction(c) ==
    FoldLeft(LAMBDA s, k : FetchChunk(s), [c |-> c, from |-> 1],
             [k \in 1 .. L1iBandwidth |-> k]).c

DibChecked(c, id) ==
    IF Contains(c.dib, Window(id))
    THEN [c EXCEPT !.dib = DibUsed(@, Window(id)),
                   !.at[id] = [@ EXCEPT !.fetched = "done", !.decoded = TRUE,
                                        !.event = 0, !.dib = TRUE]]
    ELSE [c EXCEPT !.at[id].dib = TRUE]

CheckDib(c) ==
    LET unchecked == SelectInSeq(c.ifetch, LAMBDA id : ~c.at[id].dib)
    IN  IF unchecked = 0 THEN c
        ELSE FoldLeft(DibChecked, c, Ahead(Behind(c.ifetch, unchecked - 1), FetchWidth))

\* do_predict_branch: the target predicted for a branch that is predicted not
\* taken is 0, and so is the target of a branch that is not taken.
RightTarget(id) == IF guess[id].dir THEN guess[id].target ELSE ~Taken(id)

Mispredicted(id) ==
    /\ Kind(id) # "none"
    /\ ~RightTarget(id) \/ (Judged(id) /\ Taken(id) # guess[id].dir)

\* do_init_instruction
NewInstruction(c, id) ==
    LET missed == Mispredicted(id) /\ ~warmup
    IN  [c EXCEPT
            !.ifetch = Append(@, id),
            !.at = Append(@, [Fetched EXCEPT
                !.missed = missed,
                !.src = IF warmup THEN {} ELSE program[id].src,
                !.dst = IF warmup THEN {} ELSE Folded(program[id])]),
            !.resume = IF missed THEN Never ELSE @,
            !.stats = Stats!Counted(@, Streamed(id))]

StopsFetch(id) ==
    IF Mispredicted(id) THEN ~warmup ELSE Taken(id)

InitializeInstruction(c) ==
    FoldLeft(LAMBDA s, k :
                IF s.stop \/ s.c.resume > 0 \/ Len(s.c.at) = Len(program) THEN s
                ELSE [c    |-> NewInstruction(s.c, Len(s.c.at) + 1),
                      stop |-> StopsFetch(Len(s.c.at) + 1)],
             [c |-> c, stop |-> FALSE],
             [k \in 1 .. Lesser(FetchWidth, IfetchSize - Len(c.ifetch)) |-> k]).c

-----------------------------------------------------------------------------
(* The core and its caches                                                 *)

Sooner(t) == IF t = Never THEN Never ELSE Max({t - 1, -1})

\* ++current_cycle
Aged(c) ==
    LET Nearer(x) == [x EXCEPT !.event = Sooner(@)]
    IN  [c EXCEPT
            !.resume = Sooner(@),
            !.at = Changed(@, DOMAIN @, Nearer),
            !.lq = Changed(@, {k \in DOMAIN @ : @[k] # NoLoad}, Nearer),
            !.sq = Changed(@, DOMAIN @, Nearer)]

BackEnd(c) ==
    OperateLsq(HandleMemoryReturn(ScheduleInstruction(ExecuteInstruction(
        CompleteInflight(RetireRob(c))))))

FrontEnd(c) ==
    InitializeInstruction(CheckDib(FetchInstruction(PromoteToDecode(
        DecodeInstruction(DispatchInstruction(c))))))

Operate ==
    /\ core' = Aged(FrontEnd(BackEnd(core)))
    /\ UNCHANGED <<program, guess, warmup, inL1i, inL1d>>

TakeFetch ==
    /\ core.l1i.RQ # << >>
    /\ LET l == CheckCollision(core.l1i)
       IN  /\ inL1i' = inL1i \cup {Head(l.RQ)}
           /\ core' = [core EXCEPT !.l1i = [l EXCEPT !.RQ = Tail(@)]]
    /\ UNCHANGED <<program, guess, warmup, inL1d>>

AnswerFetch ==
    \E r \in inL1i :
        /\ inL1i' = inL1i \ {r}
        /\ core' = [core EXCEPT !.l1i.returned = Append(@, Response(r))]
        /\ UNCHANGED <<program, guess, warmup, inL1d>>

\* The data cache takes reads and writes, each queue in its order.
TakeData ==
    /\ LET l == CheckCollision(core.l1d)
       IN  \/ /\ l.RQ # << >>
              /\ inL1d' = inL1d \cup {Head(l.RQ)}
              /\ core' = [core EXCEPT !.l1d = [l EXCEPT !.RQ = Tail(@)]]
           \/ /\ l.WQ # << >>
              /\ core' = [core EXCEPT !.l1d = [l EXCEPT !.WQ = Tail(@)]]
              /\ UNCHANGED inL1d
    /\ UNCHANGED <<program, guess, warmup, inL1i>>

AnswerData ==
    \E r \in inL1d :
        /\ inL1d' = inL1d \ {r}
        /\ core' = [core EXCEPT !.l1d.returned = Append(@, Response(r))]
        /\ UNCHANGED <<program, guess, warmup, inL1i>>

\* begin_phase: the counts start again.
EndWarmup ==
    /\ warmup
    /\ warmup' = FALSE
    /\ core' = [core EXCEPT !.stats = Stats!NewStats]
    /\ UNCHANGED <<program, guess, inL1i, inL1d>>

CoreInit ==
    /\ \E c \in Cases :
        /\ program = c.program
        /\ guess = c.guess
        /\ warmup = c.warmup
    /\ core = NewCore
    /\ inL1i = {} /\ inL1d = {}

Caches == TakeFetch \/ AnswerFetch \/ TakeData \/ AnswerData

CoreNext == Operate \/ Caches \/ EndWarmup

CoreSpec == CoreInit /\ [][CoreNext]_vars
-----------------------------------------------------------------------------
(* What the core promises                                                  *)

\* No assertion of the core fails: dependences that are counted down, register
\* producers, memory operations and queue entries that wait for a store are
\* where the code looks for them (do_complete_execution, LSQ_ENTRY::finish,
\* do_finish_store).
NoAssertionFails == ~core.failed

\* An instruction that starts to execute has its operands: the youngest older
\* writer of each register that it reads is done, with several writers of a
\* register in flight and a scheduler that sees a part of the buffer.
TrueDependences ==
    \A id \in DOMAIN core.at : core.at[id].executed # "no" =>
        \A r \in core.at[id].src :
            LET writers == {j \in 1 .. id - 1 : r \in core.at[j].dst}
            IN  writers # {} => core.at[Max(writers)].executed = "done"

\* A load that waits for a store waits for the youngest older one to its address,
\* and a load that reads the cache has none in the store queue (forwarding in
\* do_memory_scheduling).
LoadsReadTheirStore ==
    \A k \in 1 .. LqSize :
        LET l     == core.lq[k]
            older == {j \in 1 .. Len(core.sq) :
                        l # NoLoad /\ core.sq[j].id < l.id /\ core.sq[j].addr = l.addr}
        IN  l # NoLoad =>
                IF l.producer # 0
                THEN older # {} /\ l.producer = core.sq[Max(older)].id
                ELSE older = {}

\* Stores reach the cache in program order, each after its instruction retired.
WrittenInOrder ==
    \A k \in DOMAIN core.written :
        /\ core.written[k] <= core.retired
        /\ k > 1 => core.written[k - 1] <= core.written[k]

\* Fetch stops for exactly as long as a branch that was predicted wrongly is
\* unresolved, and nothing is fetched behind it: the penalty is paid once, at
\* decode or at execution (fetch_resume_cycle).
FetchStopsForMisprediction ==
    LET unresolved == {id \in DOMAIN core.at :
                            core.at[id].missed /\ core.at[id].executed # "done"}
    IN  /\ core.resume = Never <=> unresolved # {}
        /\ unresolved \subseteq {Len(core.at)}

\* A response of the instruction cache finds its instructions in the fetch buffer
\* when one response is read in a cycle.  When more are, an instruction that hits
\* the decoded buffer while it is requested can leave before its response is read.
NoDanglingFetch == ~core.dangling

\* do_finish_store: "Store already executed" of an issued store.
IssuedStoreHasExecuted ==
    \A k \in 1 .. Len(core.sq) :
        core.sq[k].issued => core.at[core.sq[k].id].executed # "no"

\* The blocks are ranked as their definitions say (see FetchBlocks).
BlocksRanked == Stats!Ranked(core.stats)

\* Everything is executed, retired and written.
Complete ==
    /\ core.retired = Len(program)
    /\ core.sq = << >>
    /\ core.l1d.WQ = << >>
=============================================================================
