---------------------------- MODULE ChannelUse ----------------------------
(***************************************************************************)
(* A channel (src/channel.cc) between a requester that reads, prefetches   *)
(* and writes back, and a cache that in each cycle checks for collisions   *)
(* and then takes requests from the front of the queues (CACHE::operate).  *)
(* It answers them at once here: when a cache answers is the matter of     *)
(* module Cache.                                                           *)
(***************************************************************************)
EXTENDS Channel, FiniteSets

CONSTANTS
    Addrs,
    Translations,   \* values of is_translated that occur
    MaxRequests     \* bound on the requests made

ASSUME UseAssumption ==
    /\ Addrs \subseteq Nat \ {0}
    /\ Translations \subseteq BOOLEAN
    /\ MaxRequests \in Nat

VARIABLES
    chan,
    asked,      \* history: the requests accepted, by their waiter
    waiting,    \* history: waiters that asked for a response, unanswered
    overtook    \* history: a read was taken while an older write to its
                \* address, of its kind, was still queued

useVars == <<chan, asked, waiting, overtook>>

UseInit ==
    /\ chan = NoRequests
    /\ asked = << >>
    /\ waiting = {}
    /\ overtook = FALSE

\* The requester, add_rq, add_wq or add_pq; reads and prefetches may ask for no
\* response (a prefetch to be filled further down), writes never do.
Add(addr, translated, reply) ==
    LET i == Len(asked) + 1
        r(type) == Request(addr, i, type, translated, reply,
                           IF reply THEN {i} ELSE {})
    IN  /\ Len(asked) < MaxRequests
        /\ \/ AcceptsRq(chan) /\ chan' = AddRq(chan, r("LOAD"))
           \/ AcceptsWq(chan) /\ ~reply /\ chan' = AddWq(chan, r("WRITE"))
           \/ AcceptsPq(chan) /\ chan' = AddPq(chan, r("PREFETCH"))
        /\ asked' = Append(asked, [addr |-> addr, translated |-> translated])
        /\ waiting' = IF reply THEN waiting \cup {i} ELSE waiting
        /\ UNCHANGED overtook

\* Older by order of arrival (vaddr counts the requests here).
OlderWrite(c, r) ==
    \E i \in 1 .. Len(c.WQ) :
        /\ c.WQ[i].vaddr < r.vaddr
        /\ Overlaps(c.WQ[i], r, WriteUnit)
        /\ Collides(c.WQ, r, WriteUnit)

\* The cache answers what it took.
Replied(returned, taken) ==
    FoldLeft(LAMBDA q, t : IF t.reply THEN Append(q, Response(t)) ELSE q, returned, taken)

\* One cycle of the cache: any number of requests leaves each queue, writes
\* before reads.
CacheCycle(w, r, p) ==
    \E c \in {CheckCollision(chan)} :
        LET Rest(q, n) == SubSeq(q, n + 1, Len(q))
            left == [c EXCEPT !.WQ = Rest(@, w)]
            taken == SubSeq(c.RQ, 1, r) \o SubSeq(c.PQ, 1, p)
        IN  /\ w <= Len(c.WQ) /\ r <= Len(c.RQ) /\ p <= Len(c.PQ)
            /\ chan' = [left EXCEPT !.RQ = Rest(@, r), !.PQ = Rest(@, p),
                                    !.returned = Replied(@, taken)]
            /\ overtook' = (overtook \/ \E k \in 1 .. Len(taken) : OlderWrite(left, taken[k]))
            /\ UNCHANGED <<asked, waiting>>

\* The requester reads its responses.
Receive ==
    /\ chan.returned # << >>
    /\ chan' = [chan EXCEPT !.returned = << >>]
    /\ waiting' = waiting \ UNION {chan.returned[i].waiters :
                                      i \in 1 .. Len(chan.returned)}
    /\ UNCHANGED <<asked, overtook>>

UseNext ==
    \/ \E addr \in Addrs, translated \in Translations, reply \in BOOLEAN :
          Add(addr, translated, reply)
    \/ \E w \in 0 .. WqSize, r \in 0 .. RqSize, p \in 0 .. PqSize : CacheCycle(w, r, p)
    \/ Receive

UseSpec == UseInit /\ [][UseNext]_useVars
-----------------------------------------------------------------------------
Queued == Range(chan.RQ) \cup Range(chan.WQ) \cup Range(chan.PQ)

\* How often a waiter will be answered: once for each response that names it,
\* and for each request that asks for one.  Requests differ by their vaddr.
Answers(i) ==
    Cardinality({r \in Queued : r.reply /\ i \in r.waiters})
    + Cardinality({k \in 1 .. Len(chan.returned) : i \in chan.returned[k].waiters})

\* Every instruction that asked for a response gets exactly one, whatever was
\* merged or forwarded on the way (do_collision_for_merge, _for_return).
AnsweredOnce ==
    \A i \in 1 .. Len(asked) : Answers(i) = IF i \in waiting THEN 1 ELSE 0

\* When all requests of a queue are of one kind, as those of a core or of a
\* cache are, the check leaves one read and one prefetch for a block: the cache
\* below is asked once.  A request of the other kind can hide an equal one.
AskedOnce ==
    \A q \in {chan.RQ, chan.PQ} : \A i, j \in 1 .. Len(q) :
        i < j /\ q[i].checked /\ q[j].checked => ~Overlaps(q[i], q[j], ReadUnit)

\* A read never overtakes an older write to its address that the cache has not
\* taken yet (forwarding from the WQ).
NoReadOvertakesWrite == ~overtook

\* A queue answers each waiter once (AnsweredOnce) and asks once for a block
\* (AskedOnce), and no read passes an older write (NoReadOvertakesWrite), whatever is
\* merged, forwarded or refused, and however many entries are taken in a cycle.
ChannelSound == AnsweredOnce /\ AskedOnce /\ NoReadOvertakesWrite
=============================================================================
