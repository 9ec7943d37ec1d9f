-------------------------- MODULE MCCoreAndWalker --------------------------
(***************************************************************************)
(* A core between its caches, or its page-table walker between the caches  *)
(* that translate and the one that holds the table, one in a behaviour.    *)
(***************************************************************************)
EXTENDS Core, PageTableWalker, TLC

\* Programs that make the hard cases happen.
Instr(ip, src, dst, loads, stores) ==
    [ip |-> ip, taken |-> FALSE, src |-> src, dst |-> dst,
     loads |-> loads, stores |-> stores]

Conditional(ip, taken) ==
    [Instr(ip, {"ip", "flags"}, {"ip"}, << >>, << >>) EXCEPT !.taken = taken]

\* Two writers of a register in flight, and a reader of two registers.
Values ==
    <<Instr(0, {}, {"r"}, << >>, << >>),
      Instr(0, {}, {"r"}, <<4>>, << >>),
      Instr(2, {}, {"s"}, << >>, <<4>>),
      Instr(2, {"r", "s"}, {"r"}, <<4>>, << >>)>>

\* Two stores to what is loaded.
Stores ==
    <<Instr(0, {}, {}, << >>, <<5, 4>>),
      Instr(0, {}, {}, << >>, <<4>>),
      Instr(2, {}, {"r"}, <<4, 5>>, << >>)>>

\* A branch on a loaded flag that is taken at first only, and a call.
Branches ==
    <<Instr(0, {}, {"flags"}, <<4>>, << >>),
      Conditional(0, TRUE),
      Instr(1, {"sp", "ip"}, {"sp", "ip"}, << >>, <<6>>),
      Conditional(0, FALSE)>>

\* The stack pointer moves by a constant, and by what an instruction computes.
Stack ==
    <<Instr(0, {"sp"}, {"sp"}, << >>, << >>),
      Instr(1, {"sp", "r"}, {"sp"}, << >>, << >>),
      Instr(3, {"sp"}, {"sp", "r"}, <<4>>, << >>),
      Instr(2, {"r"}, {"ip"}, << >>, << >>)>>

\* Code whose later part is decoded from the buffer while it is requested.
Straight == [k \in 1 .. 6 |-> Instr(<<4, 0, 6, 0, 0, 2>>[k], {}, {}, << >>, << >>)]

Case(p, g, w) == [program |-> p, guess |-> g, warmup |-> w]

No    == [dir |-> FALSE, target |-> FALSE]
Wrong == [dir |-> TRUE, target |-> FALSE]
Right == [dir |-> TRUE, target |-> TRUE]

MCCases ==
    {Case(Values, [i \in 1 .. 4 |-> No], w) : w \in BOOLEAN}
    \cup {Case(Stores, [i \in 1 .. 3 |-> No], FALSE)}
    \cup {Case(Branches, <<No, g, Right, No>>, FALSE) : g \in {No, Wrong, Right}}
    \cup {Case(Branches, <<No, Right, Wrong, No>>, w) : w \in BOOLEAN}
    \cup {Case(Stack, <<No, No, No, Wrong>>, FALSE),
            Case(Straight, [k \in 1 .. 6 |-> No], FALSE)}

VARIABLE cycle      \* current_cycle % 2

liveVars == <<vars, cycle>>

\* operable::_operate
Clocked == Operate /\ cycle' = 1 - cycle

LiveNext == Clocked \/ ((Caches \/ EndWarmup) /\ UNCHANGED cycle)

\* Every instruction retires and every store is written, with full buffers, refused
\* requests, responses in any order and warmup that ends at any time.
Completes == <>Complete

-----------------------------------------------------------------------------
(* The core or the walker                                                  *)

VARIABLE part

runVars == <<part, liveVars, walkVars>>

Is(p) == part = p

RunInit ==
    /\ part \in {"core", "walker"}
    /\ CoreInit /\ WalkInit
    /\ cycle = 0
    /\ Is("core") \/ program = Straight

\* operable::_operate
WalkClocked == Is("walker") /\ WalkOperate /\ cycle' = 1 - cycle

Takes   == Is("walker") /\ BelowTakes
Answers == Is("walker") /\ BelowAnswers

RunNext ==
    /\ UNCHANGED part
    /\ \/ Is("core") /\ LiveNext /\ UNCHANGED walkVars
       \/ WalkClocked /\ UNCHANGED vars
       \/ Is("walker") /\ Asks /\ UNCHANGED liveVars
       \/ Takes /\ UNCHANGED liveVars
       \/ Answers /\ UNCHANGED liveVars

\* Both are clocked for ever (champsim::main operates them every cycle), and the caches
\* around them take and answer what they can.
RunSpec ==
    /\ RunInit /\ [][RunNext]_runVars
    /\ \A c \in {0, 1} : []<>(cycle = c)
    /\ WF_vars(Is("core") /\ TakeFetch) /\ WF_vars(Is("core") /\ AnswerFetch)
    /\ WF_vars(Is("core") /\ TakeData) /\ WF_vars(Is("core") /\ AnswerData)
    /\ WF_walkVars(Takes) /\ WF_walkVars(Answers)

\* Data flows as in the program: an instruction starts with its operands computed
\* (TrueDependences), a load reads the youngest older store (LoadsReadTheirStore), and
\* stores are written in order, after retirement (WrittenInOrder).
DataFlowsInOrder == TrueDependences /\ LoadsReadTheirStore /\ WrittenInOrder

\* Fetch stops exactly while a misprediction is unresolved (FetchStopsForMisprediction),
\* a response finds the instructions it was asked for (NoDanglingFetch), and the counts
\* of blocks are ranked as they are defined (BlocksRanked).
FetchSound == FetchStopsForMisprediction /\ NoDanglingFetch /\ BlocksRanked

\* A request to the walker is translated once and right (TranslatedOnce), no walk waits
\* for a block that nobody fetches (NoOrphanWalk), and what the paging-structure caches
\* remember is the table (PsclHoldsTablePages), though one answer ends several walks,
\* each at its level (finish_packet).
WalksSound == TranslatedOnce /\ NoOrphanWalk /\ PsclHoldsTablePages

\* With full buffers, refused requests, responses in any order and a warmup that ends at
\* any time, every instruction retires and every store is written, and every walk that
\* was asked to reply is answered.
EverythingFinishes == IF Is("core") THEN Completes ELSE []<>AllTranslated
=============================================================================
