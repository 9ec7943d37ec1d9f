-------------------------------- MODULE Dram --------------------------------
(***************************************************************************)
(* MEMORY_CONTROLLER (src/dram_controller.cc).  It takes requests from the *)
(* queues of the last-level caches into the slots of its channels, merges  *)
(* and forwards them, gives each bank one request at a time, first come    *)
(* first served, and puts one bank at a time on the data bus of a channel. *)
(* A channel serves reads or writes; a change of mode takes the requests   *)
(* back from the banks, except the one on the bus.                         *)
(*                                                                         *)
(* Times are cycles left as in module Cache; that of a request that waits  *)
(* goes on below 0, its age.  Data and statistics are left out.            *)
(***************************************************************************)
EXTENDS Channel, Integers, FiniteSets

CONSTANTS
    DramUppers,         \* number of queues above
    Channels,           \* DRAM_CHANNELS
    Banks,              \* DRAM_RANKS * DRAM_BANKS
    RqSlots, WqSlots,   \* DRAM_RQ_SIZE, DRAM_WQ_SIZE
    HighWater, LowWater,
    Precharge, Cas,     \* tRP + tRCD, tCAS
    TurnAround, BusTime,
    Sources,            \* <<upper level, address, queue>>: what is asked for
    DramRequests        \* bound on the requests made

ASSUME DramAssumption ==
    /\ {DramUppers, Channels, Banks, RqSlots, WqSlots} \subseteq Nat \ {0}
    /\ {Precharge, Cas, TurnAround, BusTime, DramRequests} \subseteq Nat
    /\ LowWater \in 0 .. HighWater
    /\ Sources \subseteq (1 .. DramUppers) \X Nat \X {"RQ", "WQ", "PQ"}

VARIABLES
    upper,          \* queues
    chans,          \* channels
    warmup,
    dramAsked,      \* history: the requests made, as [addr, reply, upper]
    dramAnswered    \* history: the reads answered

dramVars == <<upper, chans, warmup, dramAsked, dramAnswered>>

\* The queue of a mode, and its slots
Slots(queue) == IF queue = "RQ" THEN 1 .. RqSlots ELSE 1 .. WqSlots
Free    == [used |-> FALSE]
Unscheduled == 1 + Precharge + Cas + BusTime
NoRow   == -1

\* | row | column | bank | channel | block offset |, with one column
ChannelOf(a) == ((a \div BlockSize) % Channels) + 1
BankOf(a)    == ((a \div (BlockSize * Channels)) % Banks) + 1
RowOf(a)     == a \div (BlockSize * Channels * Banks)

Idle == [valid |-> FALSE, row |-> NoRow, left |-> 0, queue |-> "RQ", slot |-> 1]

DramInit ==
    /\ upper = [u \in 1 .. DramUppers |-> NoRequests]
    /\ chans = [n \in 1 .. Channels |->
                  [RQ        |-> [i \in 1 .. RqSlots |-> Free],
                   WQ        |-> [i \in 1 .. WqSlots |-> Free],
                   bank      |-> [b \in 1 .. Banks |-> Idle],
                   active    |-> 0,
                   writeMode |-> FALSE,
                   busFree   |-> 0]]
    /\ warmup = TRUE
    /\ dramAsked = << >>
    /\ dramAnswered = {}

Used(q) == {i \in DOMAIN q : q[i].used}

\* The first slot in S, or 0
First(S) == IF S = {} THEN 0 ELSE CHOOSE i \in S : \A j \in S : i <= j

-----------------------------------------------------------------------------
(* Taking requests from above.  s has the queues above and the channels.   *)

Entry(r, to) ==
    [used |-> TRUE, addr |-> r.addr, waiters |-> r.waiters, to |-> to,
     checked |-> FALSE, scheduled |-> FALSE, left |-> 0]

\* add_rq and add_wq, for the request at the front of the queue above
Accepts(s, u, from, into) ==
    /\ s.upper[u][from] # << >>
    /\ LET q == s.chans[ChannelOf(Head(s.upper[u][from]).addr)][into]
       IN  Used(q) # DOMAIN q

Accepted(s, u, from, into) ==
    LET r == Head(s.upper[u][from])
        n == ChannelOf(r.addr)
        q == s.chans[n][into]
        e == Entry(r, IF into = "RQ" /\ r.reply THEN {u} ELSE {})
    IN  [s EXCEPT !.upper[u][from] = Tail(@),
                  !.chans[n][into][First(DOMAIN q \ Used(q))] = e]

\* get_span_p: until the first refusal
TakenFrom(s, u, from, into) ==
    FoldLeft(LAMBDA t, k : IF Accepts(t, u, from, into) THEN Accepted(t, u, from, into)
                           ELSE t,
             s, s.upper[u][from])

InitiateRequests(s0) ==
    FoldLeft(LAMBDA s, u : TakenFrom(TakenFrom(TakenFrom(s, u, "RQ", "RQ"), u, "PQ", "RQ"),
                                     u, "WQ", "WQ"),
             s0, [u \in 1 .. DramUppers |-> u])
-----------------------------------------------------------------------------
(* One channel.  c is the channel and out the responses it has given.      *)

DramAnswer(s, e) ==
    [s EXCEPT !.out = IF e.to = {} THEN @
                      ELSE Append(@, [addr |-> e.addr, to |-> e.to, waiters |-> e.waiters])]

SameBlockIn(q, e, S) == First({i \in S \cap Used(q) : Overlaps(q[i], e, ReadUnit)})

Before(q, i) == {j \in DOMAIN q : j < i}
After(q, i)  == {j \in DOMAIN q : j > i}

\* Another slot with the block of slot i: one before, else one after
Twin(q, i) ==
    LET b == SameBlockIn(q, q[i], Before(q, i))
    IN  IF b # 0 THEN b ELSE SameBlockIn(q, q[i], After(q, i))

Unsettled(q, i) == q[i].used /\ ~q[i].checked

CheckWrite(s, i) ==
    IF ~Unsettled(s.c.WQ, i) THEN s
    ELSE IF Twin(s.c.WQ, i) # 0 THEN [s EXCEPT !.c.WQ[i] = Free]
    ELSE [s EXCEPT !.c.WQ[i].checked = TRUE]

\* Mutated form of JoinedTo: the upper level of the later request is forgotten.
JoinedToSilently(q, i, j) ==
    [q EXCEPT ![j].waiters = @ \cup q[i].waiters, ![i] = Free]

JoinedTo(q, i, j) ==
    [q EXCEPT ![j].waiters = @ \cup q[i].waiters, ![j].to = @ \cup q[i].to, ![i] = Free]

CheckRead(s, i) ==
    LET q == s.c.RQ
    IN  IF ~Unsettled(q, i) THEN s
        ELSE IF SameBlockIn(s.c.WQ, q[i], DOMAIN s.c.WQ) # 0
             THEN [DramAnswer(s, q[i]) EXCEPT !.c.RQ[i] = Free]
        ELSE IF Twin(q, i) # 0 THEN [s EXCEPT !.c.RQ = JoinedTo(@, i, Twin(q, i))]
        ELSE [s EXCEPT !.c.RQ[i].checked = TRUE]

\* DRAM_CHANNEL::check_collision
CheckCollisions(s) ==
    FoldLeft(CheckRead, FoldLeft(CheckWrite, s, [i \in 1 .. WqSlots |-> i]),
             [i \in 1 .. RqSlots |-> i])

\* In the warmup reads are answered at once and writes are dropped.
Warm(s) ==
    IF ~warmup THEN s
    ELSE LET t == FoldLeft(LAMBDA a, e : IF e.used THEN DramAnswer(a, e) ELSE a, s, s.c.RQ)
         IN  [t EXCEPT !.c.RQ = [i \in DOMAIN @ |-> Free], !.c.WQ = [i \in DOMAIN @ |-> Free]]

Packet(c, b) == c[c.bank[b].queue][c.bank[b].slot]

FinishRequest(s) ==
    LET b == s.c.active
    IN  IF b = 0 \/ s.c.bank[b].left > 0 THEN s
        ELSE [DramAnswer(s, Packet(s.c, b)) EXCEPT
                  !.c[s.c.bank[b].queue][s.c.bank[b].slot] = Free,
                  !.c.bank[b].valid = FALSE,
                  !.c.active = 0]

Unbalanced(c) ==
    LET w == Cardinality(Used(c.WQ))
        r == Cardinality(Used(c.RQ))
    IN  IF c.writeMode THEN w = 0 \/ (r > 0 /\ w < LowWater)
        ELSE w >= HighWater \/ (r = 0 /\ w > 0)

\* The banks whose request is taken back: all but the one on the bus
Recalled(c) == {b \in 1 .. Banks : c.bank[b].valid /\ b # c.active}

\* Mutated form of TakenBack: the request stays marked as scheduled.
TakenBackHalf(c, q, queue) == q

\* The queue after its scheduled requests are taken back
TakenBack(c, q, queue) ==
    [i \in DOMAIN q |->
        IF \E b \in Recalled(c) : c.bank[b].queue = queue /\ c.bank[b].slot = i
        THEN [q[i] EXCEPT !.scheduled = FALSE, !.left = 0]
        ELSE q[i]]

\* The banks after that; one within Cas of its data closes its row.
BanksTakenBack(c) ==
    [b \in 1 .. Banks |->
        IF b \in Recalled(c)
        THEN [c.bank[b] EXCEPT !.valid = FALSE,
                               !.row = IF c.bank[b].left < Cas THEN NoRow ELSE @]
        ELSE c.bank[b]]

ChangeMode(s) ==
    LET c == s.c
    IN  IF ~Unbalanced(c) THEN s
        ELSE [s EXCEPT
                !.c.RQ = TakenBack(c, @, "RQ"),
                !.c.WQ = TakenBack(c, @, "WQ"),
                !.c.bank = BanksTakenBack(c),
                !.c.busFree = TurnAround + (IF c.active = 0 THEN 0
                                            ELSE c.bank[c.active].left),
                !.c.writeMode = ~@]

\* min_element: the valid bank that is ready first, or bank 1 when none is
NextBank(c) ==
    LET V == {b \in 1 .. Banks : c.bank[b].valid}
    IN  First({b \in V : \A d \in V : c.bank[b].left <= c.bank[d].left})

\* Mutated form of PutOnBus: the bus is not waited for.
PutOnBusAnyway(s) ==
    LET b == NextBank(s.c)
    IN  IF b # 0 /\ s.c.bank[b].left <= 0
        THEN [s EXCEPT !.c.active = b, !.c.bank[b].left = BusTime]
        ELSE s

PutOnBus(s) ==
    LET b == NextBank(s.c)
    IN  IF b # 0 /\ s.c.bank[b].left <= 0 /\ s.c.active = 0 /\ s.c.busFree <= 0
        THEN [s EXCEPT !.c.active = b, !.c.bank[b].left = BusTime]
        ELSE s

\* The oldest request that no bank has, or 0
NextScheduled(q) ==
    LET W == {i \in Used(q) : ~q[i].scheduled}
    IN  First({i \in W : \A j \in W : q[i].left <= q[j].left})

\* Only the oldest is tried: a busy bank holds up the others.
Schedule(s) ==
    LET queue == IF s.c.writeMode THEN "WQ" ELSE "RQ"
        i     == NextScheduled(s.c[queue])
        a     == s.c[queue][i].addr
        b     == BankOf(a)
        hit   == s.c.bank[b].row = RowOf(a)
    IN  IF i = 0 THEN s
        ELSE IF s.c.bank[b].valid THEN s
        ELSE [s EXCEPT
                !.c.bank[b] = [valid |-> TRUE, row |-> RowOf(a), queue |-> queue, slot |-> i,
                               left |-> Cas + (IF hit THEN 0 ELSE Precharge)],
                !.c[queue][i].scheduled = TRUE,
                !.c[queue][i].left = Unscheduled]

\* One cycle of a channel
Cycle(c) ==
    Schedule(PutOnBus(ChangeMode(FinishRequest(CheckCollisions(Warm([c |-> c, out |-> << >>]))))))

\* Of the ages of waiting requests only the order matters: they are counted without gaps.
Aged(q) ==
    LET Ages == {q[i].left : i \in {j \in Used(q) : ~q[j].scheduled}}
    IN  [i \in DOMAIN q |->
            IF q[i].used /\ ~q[i].scheduled
            THEN [q[i] EXCEPT !.left = -1 - Cardinality({n \in Ages : n > @})]
            ELSE q[i]]

BanksSooner(bank) ==
    [b \in DOMAIN bank |-> [bank[b] EXCEPT !.left = IF bank[b].valid THEN @ - 1 ELSE 0]]

\* ++current_cycle
DramTick(c) ==
    [c EXCEPT !.RQ = Aged(@), !.WQ = Aged(@), !.bank = BanksSooner(@),
              !.busFree = IF @ > 0 THEN @ - 1 ELSE 0]
-----------------------------------------------------------------------------
(* The actions *)

\* The responses of one channel, and of all, go to those they are for.
ToldTo(u, q, out) ==
    FoldLeft(LAMBDA t, e : IF u \in e.to
                           THEN Append(t, [addr |-> e.addr, vaddr |-> e.addr,
                                           waiters |-> e.waiters])
                           ELSE t,
             q, out)

AllToldTo(u, q, done) == FoldLeft(LAMBDA t, d : ToldTo(u, t, d.out), q, done)

DramOperate ==
    LET s    == InitiateRequests([upper |-> upper, chans |-> chans])
        done == [n \in 1 .. Channels |-> Cycle(s.chans[n])]
    IN  /\ upper' = [u \in 1 .. DramUppers |->
                        [s.upper[u] EXCEPT !.returned = AllToldTo(u, @, done)]]
        /\ chans' = [n \in 1 .. Channels |-> DramTick(done[n].c)]
        /\ UNCHANGED <<warmup, dramAsked, dramAnswered>>

\* A last-level cache sends a read, a prefetch or a write-back.
DramSend(u, a, kind) ==
    LET i == Len(dramAsked) + 1
        r(type, reply) == Request(a, a, type, TRUE, reply, IF reply THEN {i} ELSE {})
    IN  /\ i <= DramRequests
        /\ \/ kind = "RQ" /\ AcceptsRq(upper[u])
              /\ upper' = [upper EXCEPT ![u] = AddRq(@, r("LOAD", TRUE))]
           \/ kind = "PQ" /\ AcceptsPq(upper[u])
              /\ upper' = [upper EXCEPT ![u] = AddPq(@, r("PREFETCH", TRUE))]
           \/ kind = "WQ" /\ AcceptsWq(upper[u])
              /\ upper' = [upper EXCEPT ![u] = AddWq(@, r("WRITE", FALSE))]
        /\ dramAsked' = Append(dramAsked, [addr |-> a, reply |-> kind # "WQ", upper |-> u])
        /\ UNCHANGED <<chans, warmup, dramAnswered>>

DramReceive(u) ==
    /\ upper[u].returned # << >>
    /\ upper' = [upper EXCEPT ![u].returned = << >>]
    /\ dramAnswered' = dramAnswered \cup UNION {{[upper |-> u, waiter |-> i] : i \in r.waiters} :
                                          r \in Range(upper[u].returned)}
    /\ UNCHANGED <<chans, warmup, dramAsked>>

\* do_phase starts the phase after the warmup.
EndWarmup ==
    /\ warmup
    /\ warmup' = FALSE
    /\ UNCHANGED <<upper, chans, dramAsked, dramAnswered>>

DramRequested == \E x \in Sources : DramSend(x[1], x[2], x[3])

Received == \E u \in 1 .. DramUppers : DramReceive(u)

DramNext == DramOperate \/ DramRequested \/ Received \/ EndWarmup

DramSpec == DramInit /\ [][DramNext]_dramVars
-----------------------------------------------------------------------------
(* Correctness *)

Ids == DOMAIN dramAsked

Waits(q, i) == Cardinality({k \in DOMAIN q : i \in q[k].waiters})

\* The slots of channel c with request i of level u
Sent(c, u, i) == Cardinality({k \in Used(c.RQ) : i \in c.RQ[k].waiters /\ u \in c.RQ[k].to})

\* The responses to request i that are asked for, given or waiting
Places(i) ==
    LET u == dramAsked[i].upper
    IN  Waits(upper[u].RQ, i) + Waits(upper[u].PQ, i) + Waits(upper[u].returned, i)
        + FoldLeft(LAMBDA n, c : n + Sent(c, u, i), 0, chans)
        + Cardinality({x \in dramAnswered : x = [upper |-> u, waiter |-> i]})

\* A read is in exactly one place until its own cache is told, and is told once:
\* neither the merging of two requests into one slot, nor the forwarding from a
\* write, nor a change of mode with requests on the banks loses or doubles it.
DramAnsweredOnce == \A i \in Ids : dramAsked[i].reply => Places(i) = 1

\* The banks and the slots agree: a busy bank works for a waiting request of its own
\* that knows it, and a request that is marked as given to a bank has one, across
\* merging, mode changes and reuse of slots.
BanksMatchRequests ==
    \A n \in 1 .. Channels : LET c == chans[n] IN
        /\ \A b \in 1 .. Banks : c.bank[b].valid =>
               /\ Packet(c, b).used /\ Packet(c, b).scheduled
               /\ BankOf(Packet(c, b).addr) = b /\ ChannelOf(Packet(c, b).addr) = n
        /\ \A queue \in {"RQ", "WQ"} : \A i \in Used(c[queue]) :
               c[queue][i].scheduled =>
                   \E b \in 1 .. Banks : /\ c.bank[b].valid
                                         /\ c.bank[b].queue = queue /\ c.bank[b].slot = i
        /\ c.active # 0 => c.bank[c.active].valid

\* A read is answered exactly once though it is merged, forwarded from a write or taken
\* back from its bank (DramAnsweredOnce), and the banks and the bus hold exactly the
\* requests that are marked as scheduled (BanksMatchRequests).
DramSound == DramAnsweredOnce /\ BanksMatchRequests

\* A request on the data bus leaves it only when it is finished: a change of mode
\* and the other banks leave it there.
BusIsHeld ==
    [][\A n \in 1 .. Channels : LET c == chans[n]
                                    b == c.active
                                    x == chans'[n]
          IN  b # 0 /\ x.active # b => ~x[c.bank[b].queue][c.bank[b].slot].used]_dramVars
=============================================================================
