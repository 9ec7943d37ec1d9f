----------------------------- MODULE CacheLive -----------------------------
(***************************************************************************)
(* Cache with its clock.  A cycle of a cache that waits changes nothing    *)
(* else, so fairness is stated of the clock: operate is called for ever    *)
(* (champsim::main calls it on every component in turn), and the levels    *)
(* around the cache do what they can in their own cycles.  As the number   *)
(* of requests is bounded, they cannot keep busy for ever with others.     *)
(***************************************************************************)
EXTENDS Cache

MCFrames == (1 :> 3) @@ (2 :> 5)

\* The core to its data cache: a word of each of two pages, and a write to another
\* word of the first block, or also one to the block after it.
Virtual(type, a)  == [type |-> type, addr |-> 0, vaddr |-> a, translated |-> FALSE]
CoreReads  == {Virtual("LOAD", 4), Virtual("LOAD", 8)}
CoreWrites == {Virtual("WRITE", 5)}
MoreWrites == CoreWrites \cup {Virtual("WRITE", 6)}

VARIABLE cycle      \* current_cycle % 2

liveVars == <<vars, cycle>>

\* operable::_operate
Clocked == Operate /\ cycle' = 1 - cycle

Unclocked == UNCHANGED cycle /\ Around

LiveNext ==
    \/ Clocked
    \/ Unclocked
    \/ UNCHANGED cycle /\ Requested

LiveInit == Init /\ cycle = 0

ClockedSpec == LiveInit /\ [][LiveNext]_liveVars

\* The levels around have something to do: Unclocked is enabled.
Pending ==
    \/ \E u \in 1 .. Uppers : cache.upper[u].returned # << >>
    \/ \E side \in {"lower", "translator"} :
          \/ taken[side] # {}
          \/ \E name \in {"RQ", "WQ", "PQ"} : cache[side][name] # << >>

\* The clock ticks unless an assertion has failed.  []<>~Pending is WF_liveVars(Unclocked):
\* after MaxRequests requests its steps cannot go on for ever.
LiveSpec ==
    /\ ClockedSpec
    /\ \A c \in {0, 1} : []<>(cycle = c \/ cache.failed)
    /\ []<>~Pending

\* Each request that reads is answered once (AnsweredOnce) with the block of its own
\* address (RightBlock), a response from below finds its miss (NeverFails), the returned
\* misses come first (MshrOrdered), and the cache holds a block once, and not while it
\* waits for it (OneCopyPerBlock), with translations that come late and in any order.
CacheSound ==
    AnsweredOnce /\ RightBlock /\ NeverFails /\ MshrOrdered /\ OneCopyPerBlock

\* Every request that asked for a response is answered: no refusal from below, no
\* full MSHR, no waiting translation and no stash blocks a request for ever.
EveryReadAnswered == []<>(\A i \in Waiters : AnsweredTo(i) # {})
=============================================================================
