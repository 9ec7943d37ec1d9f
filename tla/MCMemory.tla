------------------------------ MODULE MCMemory ------------------------------
(***************************************************************************)
(* The memory side for the model checker: a second-level cache below two   *)
(* caches, or a memory controller below two caches, one in a behaviour.    *)
(*                                                                         *)
(* A cycle of a controller that waits changes nothing else, so fairness is *)
(* stated of the clock: operate is called for ever (champsim::main calls   *)
(* it on every component in turn), and the caches take their responses.    *)
(***************************************************************************)
EXTENDS Cache, Dram

MCFrames == (1 :> 3) @@ (2 :> 5)

\* The caches above to a second-level cache of one block.
Physically(type, a) == [type |-> type, addr |-> a, vaddr |-> a, translated |-> TRUE]
UpperReads  == {Physically("LOAD", 2), Physically("LOAD", 5), Physically("PREFETCH", 2)}
UpperWrites == {Physically("WRITE", 2), Physically("WRITE", 4)}

\* 0 and 4 are two rows of one bank, 2 is in the other.
TwoCaches == {<<1, 0, "RQ">>, <<1, 2, "RQ">>, <<1, 0, "WQ">>, <<1, 4, "WQ">>,
              <<2, 0, "PQ">>, <<2, 4, "RQ">>, <<2, 2, "WQ">>}

VARIABLES
    part,
    cycle       \* current_cycle % 2 of the controller

runVars == <<part, vars, dramVars, cycle>>

Is(p) == part = p

RunInit ==
    /\ part \in {"cache", "dram"}
    /\ Init /\ DramInit
    /\ cycle = 0

\* operable::_operate
Clocked == Is("dram") /\ DramOperate /\ cycle' = 1 - cycle

\* The caches take responses; warmup may end at any time.
DramAround == Is("dram") /\ (Received \/ EndWarmup)

RunNext ==
    /\ UNCHANGED part
    /\ \/ Is("cache") /\ Next /\ UNCHANGED <<dramVars, cycle>>
       \/ Clocked /\ UNCHANGED vars
       \/ DramAround /\ UNCHANGED <<vars, cycle>>
       \/ Is("dram") /\ DramRequested /\ UNCHANGED <<vars, cycle>>

RunSpec ==
    /\ RunInit /\ [][RunNext]_runVars
    /\ \A c \in {0, 1} : []<>(Is("dram") => cycle = c)
    /\ WF_dramVars(DramAround)

\* A cache shared by two answers each once for what it asked (AnsweredOnce), and never
\* takes a block written above for clean, when fills are merged, refused or written back
\* first (WrittenIsDirty).
SharedCacheSound == AnsweredOnce /\ WrittenIsDirty

\* Every request is served: reads and writes do not hold each other up for ever through
\* the changes of mode, and no busy bank keeps the oldest request waiting.
EverythingServed ==
    []<>(/\ \A n \in 1 .. Channels : Used(chans[n].RQ) = {} /\ Used(chans[n].WQ) = {}
         /\ \A i \in Ids : dramAsked[i].reply =>
                [upper |-> dramAsked[i].upper, waiter |-> i] \in dramAnswered)
=============================================================================
