----------------------------- MODULE Simulation -----------------------------
(***************************************************************************)
(* The main loop (src/champsim.cc): phases of cycles, in which the cores   *)
(* operate at their own clocks, are fed from their traces and are checked  *)
(* for the end of the phase; and the reader of a trace (tracereader.h),    *)
(* which completes the target of an instruction from the one after it.     *)
(*                                                                         *)
(* What a core does in a cycle is free (Core has it): it takes some of its *)
(* input queue and retires up to Width instructions.  The other operables  *)
(* only add to the progress, and are left out.  A leap is counted in parts *)
(* of 1/Den of a cycle instead of a floating-point number.                 *)
(***************************************************************************)
EXTENDS Integers, Sequences, SequencesExt, FiniteSetsExt

CONSTANTS
    Trace,          \* Trace[c]: the instructions of core c, [ip, taken]
    TraceChunk,          \* buffer_size - refresh_thresh
    InQueueSize, Width, InFlight,
    Lengths,        \* instructions of the warmup and of the simulation
    Den, ClockScale,    \* CLOCK_SCALE of core c is ClockScale[c] / Den
    DeadlockCycle,
    MaxIdle         \* bound on the cycles that a core with work does nothing

SimCpus == DOMAIN Trace

ASSUME SimulationAssumption ==
    /\ {TraceChunk, InQueueSize, Width, InFlight, Den, DeadlockCycle} \subseteq Nat \ {0}
    /\ TraceChunk > 1 /\ SimCpus # {} /\ MaxIdle \in Nat
    /\ Lengths \in Seq(Nat)
    /\ \A c \in SimCpus :
        /\ Trace[c] \in Seq([ip : Nat \ {0}, taken : BOOLEAN]) /\ Len(Trace[c]) > 0
        /\ ClockScale[c] \in Nat

VARIABLE sim

Atmost(n, k) == IF n < k THEN n ELSE k

-----------------------------------------------------------------------------
(* Trace reading                                                           *)

RefreshThresh == 1

NewReader == [pos |-> 0, eof |-> FALSE, buffer |-> << >>]

ReaderEof(r) == r.eof /\ Len(r.buffer) <= RefreshThresh

\* repeatable: a trace starts again at its end, and has none
TraceEof(repeat, r) == ~repeat /\ ReaderEof(r)

\* The last instruction keeps the target it has, 0: what follows is not known yet.
SetBranchTargets(q) ==
    [k \in 1 .. Len(q) |->
        IF k = Len(q) THEN q[k]
        ELSE [q[k] EXCEPT !.target = IF q[k].taken THEN q[k + 1].ip ELSE 0]]

\* Mutated form of Refilled: only the targets of what was read now are set.
RefilledApart(r, trace) ==
    LET n    == Atmost(TraceChunk, Len(trace) - r.pos)
        read == [k \in 1 .. n |->
                    [ip |-> trace[r.pos + k].ip, taken |-> trace[r.pos + k].taken,
                     target |-> 0, at |-> r.pos + k]]
    IN  [pos |-> r.pos + n, eof |-> n < TraceChunk,
         buffer |-> r.buffer \o SetBranchTargets(read)]

\* End of file is seen by a read that gets less than it asked for.
Refilled(r, trace) ==
    LET n    == Atmost(TraceChunk, Len(trace) - r.pos)
        read == [k \in 1 .. n |->
                    [ip |-> trace[r.pos + k].ip, taken |-> trace[r.pos + k].taken,
                     target |-> 0, at |-> r.pos + k]]
    IN  [pos |-> r.pos + n, eof |-> n < TraceChunk,
         buffer |-> SetBranchTargets(r.buffer \o read)]

ReadyToServe(repeat, r, trace) ==
    LET s == IF repeat /\ ReaderEof(r) THEN NewReader ELSE r
    IN  IF Len(s.buffer) <= RefreshThresh THEN Refilled(s, trace) ELSE s

ReadOne(repeat, cpu, trace) ==
    LET r == ReadyToServe(repeat, cpu.reader, trace)
    IN  [cpu EXCEPT !.queue = Append(@, Head(r.buffer)),
                    !.reader = [r EXCEPT !.buffer = Tail(@)]]

ReadTrace(repeat, cpu, trace) ==
    FoldLeft(LAMBDA s, k : IF TraceEof(repeat, s.reader) THEN s ELSE ReadOne(repeat, s, trace),
             cpu, [k \in 1 .. InQueueSize - Len(cpu.queue) |-> k])

-----------------------------------------------------------------------------
(* One cycle                                                               *)

\* operable::_operate; what the core does is [take, retire].
Operated(c, cpu, does) ==
    IF cpu.leap >= Den
    THEN [cpu EXCEPT !.leap = @ - Den, !.idle = Atmost(@ + 1, DeadlockCycle)]
    ELSE [cpu EXCEPT !.leap = @ + ClockScale[c],
                     !.last = IF does.take = 0 THEN @ ELSE <<cpu.queue[does.take]>>,
                     !.queue = SubSeq(@, does.take + 1, Len(@)),
                     !.inflight = @ + does.take - does.retire,
                     !.retired = @ + does.retire,
                     !.idle = IF does.take + does.retire = 0 THEN Atmost(@ + 1, DeadlockCycle) ELSE 0]

HasWork(cpu) == cpu.inflight > 0 \/ cpu.queue # << >>

\* What a core may do: take all that it has room for, or nothing, and retire.  One
\* with work that stands still for longer than MaxIdle is not of interest.
MayDo(cpu) ==
    {d \in [take : {0, Atmost(Len(cpu.queue), InFlight - cpu.inflight)},
            retire : 0 .. Atmost(Width, cpu.inflight)] :
        d.take + d.retire = 0 =>
            cpu.leap >= Den \/ cpu.idle < MaxIdle \/ ~HasWork(cpu)}

\* One choice for each core.
AllMayDo(cpus) ==
    {does \in [SimCpus -> [take : 0 .. InFlight, retire : 0 .. Width]] :
        \A c \in SimCpus : does[c] \in MayDo(cpus[c])}

\* Mutated form of Stalled: it counts all idle cycles of the phase.
StalledEver(s, cpus) ==
    s.stalled + IF \A c \in SimCpus : cpus[c].idle > 0 THEN 1 ELSE 0

\* No progress is when no core did anything.
Stalled(s, cpus) ==
    IF \A c \in SimCpus : cpus[c].idle > 0 THEN s.stalled + 1 ELSE 0

\* Mutated form of NowComplete: the end of a trace is not seen.
NowCompleteBlind(s, cpus) ==
    [c \in SimCpus |-> \/ s.complete[c]
                       \/ cpus[c].retired - cpus[c].begin >= Lengths[s.phase]]

\* The end of any trace ends the phase for all.
NowComplete(s, cpus) ==
    [c \in SimCpus |-> \/ s.complete[c]
                       \/ \E d \in SimCpus : TraceEof(s.repeat, cpus[d].reader)
                       \/ cpus[c].retired - cpus[c].begin >= Lengths[s.phase]]

\* Mutated form of EndPhase: the core that finishes ends the phase of all.
EndPhaseOfAll(cpus, done) ==
    IF done = {} THEN cpus
    ELSE [c \in SimCpus |->
            [cpus[c] EXCEPT !.simEnd = cpus[c].retired, !.finish = cpus[c].retired]]

\* end_phase of every operable, for every core of done
EndPhase(cpus, done) ==
    IF done = {} THEN cpus
    ELSE [c \in SimCpus |->
            [cpus[c] EXCEPT !.simEnd = cpus[c].retired,
                            !.finish = IF c \in done THEN cpus[c].retired ELSE @]]

Cycle ==
    /\ ~sim.aborted
    /\ sim.phase <= Len(Lengths)
    /\ \E c \in SimCpus : ~sim.complete[c]
    /\ \E does \in AllMayDo(sim.cpus) :
           LET ran  == [c \in SimCpus |-> Operated(c, sim.cpus[c], does[c])]
               idle == Stalled(sim, ran)
               fed  == [c \in SimCpus |-> ReadTrace(sim.repeat, ran[c], Trace[c])]
               now  == NowComplete(sim, fed)
           IN  IF idle >= DeadlockCycle
               THEN sim' = [sim EXCEPT !.cpus = ran, !.stalled = idle, !.aborted = TRUE]
               ELSE sim' = [sim EXCEPT !.stalled = idle, !.complete = now,
                            !.cpus = EndPhase(fed, {c \in SimCpus :
                                                    now[c] # sim.complete[c]})]

BeginPhase(cpus) ==
    [c \in SimCpus |-> [cpus[c] EXCEPT !.begin = cpus[c].retired,
                                       !.simEnd = 0, !.finish = 0, !.idle = 0]]

NextPhase ==
    /\ ~sim.aborted
    /\ sim.phase <= Len(Lengths)
    /\ \A c \in SimCpus : sim.complete[c]
    /\ sim' = [sim EXCEPT !.phase = @ + 1, !.stalled = 0,
                          !.complete = [c \in SimCpus |-> FALSE],
                          !.cpus = BeginPhase(@)]

SimInit ==
    \E repeat \in BOOLEAN :
    sim = [repeat |-> repeat, phase |-> 1, stalled |-> 0, aborted |-> FALSE,
           complete |-> [c \in SimCpus |-> FALSE],
           cpus |-> [c \in SimCpus |->
                [reader |-> NewReader, queue |-> << >>, inflight |-> 0,
                 retired |-> 0, begin |-> 0, simEnd |-> 0, finish |-> 0,
                 leap |-> 0, idle |-> 0, last |-> << >>]]]

SimNext == Cycle \/ NextPhase

Running == ~sim.aborted /\ sim.phase <= Len(Lengths)

\* WF_sim(SimNext), with its ENABLED written out: the loop goes on while it runs.
LoopRuns == []<>~Running \/ []<><<SimNext>>_sim

SimSpec == SimInit /\ [][SimNext]_sim /\ LoopRuns

-----------------------------------------------------------------------------
(* What the loop promises                                                  *)

\* When a phase is over, every core measured as many instructions as asked for, with
\* less than one cycle's retirement more - fewer only if a trace has ended - and its
\* other statistics cover all that it did, also after it had finished.
RoiIsLength ==
    LET length == Lengths[sim.phase]
    IN  sim.phase <= Len(Lengths) /\ (\A c \in SimCpus : sim.complete[c]) =>
        \A c \in SimCpus :
            LET x == sim.cpus[c]
                n == x.finish - x.begin
            IN  /\ n < (IF length = 0 THEN 1 ELSE length) + Width
                /\ n >= length \/ \E d \in SimCpus : TraceEof(sim.repeat, sim.cpus[d].reader)
                /\ x.simEnd = x.retired

\* The target of a taken branch that the core gets is the instruction it gets next,
\* also where the buffer was refilled in between; only where a trace starts again
\* it is the instruction that follows in the file.
TargetIsNext ==
    \A c \in SimCpus :
        LET q == sim.cpus[c].last \o sim.cpus[c].queue
        IN  \A k \in 1 .. Len(q) - 1 :
                q[k].taken => \/ q[k].target = q[k + 1].ip
                              \/ sim.repeat /\ q[k + 1].at = 1

\* The watchdog stops a simulation that made no progress in any core for that many
\* cycles in a row, and no other.
WatchdogIsRight ==
    sim.aborted <=> \A c \in SimCpus : sim.cpus[c].idle >= DeadlockCycle

\* The loop measures what it was asked to, feeds instructions with their branch targets
\* and stops only what stands still.
LoopSound == RoiIsLength /\ TargetIsNext /\ WatchdogIsRight

\* The phases end, at the latest when one of the traces does; only a core that has
\* work and stands still lets the watchdog stop them.
PhasesEnd ==
    <>\/ sim.phase > Len(Lengths)
      \/ sim.aborted /\ \E c \in SimCpus : HasWork(sim.cpus[c])
=============================================================================
