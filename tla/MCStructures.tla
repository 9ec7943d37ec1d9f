--------------------------- MODULE MCStructures ---------------------------
(***************************************************************************)
(* What the components of the simulator share, for the model checker, one  *)
(* part in a behaviour: the memory of two cores, the table behind BTBs and *)
(* paging-structure caches, a queue between two components, and the loop   *)
(* that feeds and clocks them all.                                         *)
(***************************************************************************)
EXTENDS VirtualMemory, LruTable, ChannelUse, Simulation

\* Traces that end with and without a taken branch, for a fast and a slow core.
Jump(ip) == [ip |-> ip, taken |-> TRUE]
Step(ip) == [ip |-> ip, taken |-> FALSE]
MCTrace   == <<<<Jump(1), Jump(2), Step(3), Step(4)>>, <<Jump(1), Jump(2)>>>>
MCLengths == <<1, 2>>
MCClock   == <<0, 1>>

VARIABLE part

runVars == <<part, vm, tableVars, useVars, sim>>

Is(p) == part = p

RunInit ==
    /\ part \in {"memory", "table", "channel", "loop"}
    /\ Init /\ TableInit /\ UseInit /\ SimInit
    /\ Is("loop") \/ ~sim.repeat

RunNext ==
    /\ UNCHANGED part
    /\ \/ Is("memory") /\ Next /\ UNCHANGED <<tableVars, useVars, sim>>
       \/ Is("table") /\ TableNext /\ UNCHANGED <<vm, useVars, sim>>
       \/ Is("channel") /\ UseNext /\ UNCHANGED <<vm, tableVars, sim>>
       \/ Is("loop") /\ SimNext /\ UNCHANGED <<vm, tableVars, useVars>>

RunSpec == RunInit /\ [][RunNext]_runVars /\ (Is("loop") => LoopRuns)

\* Phases end unless the watchdog stops a core that has work (PhasesEnd).
LoopEnds == Is("loop") => PhasesEnd
=============================================================================
