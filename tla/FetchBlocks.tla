---------------------------- MODULE FetchBlocks ----------------------------
(***************************************************************************)
(* The statistics on fetch blocks that O3_CPU::initialize_instruction      *)
(* gathers from the stream of instructions: blocks of one fetch, of two,   *)
(* and the ideal ones that end at taken branches only.  The distributions  *)
(* are kept as the sequences of blocks they count.  This is the default    *)
(* build: cache lines end no block, and there is no L-bit optimization.    *)
(***************************************************************************)
EXTENDS Naturals, Sequences

CONSTANT FetchWidth

\* A block under way: instructions, branches and branches that may end it.
NewBlock == [size |-> 0, branches |-> 0, stops |-> 0, last |-> FALSE, closed |-> << >>]

NewStats ==
    [oneBlock |-> NewBlock, twoBlock |-> NewBlock,
     upToTaken |-> NewBlock, upToTwoTaken |-> NewBlock,
     takenIps |-> {}]       \* conditional_predicted_taken_ips

Count(b) == IF b THEN 1 ELSE 0

Grown(b, i, stop) ==
    [b EXCEPT !.size = @ + 1, !.branches = @ + Count(i.branch),
              !.stops = @ + Count(stop), !.last = i.branch]

\* The block ends with its stops-th stop or when it is width long.
Cut(b, stops, width) ==
    IF b.stops = stops \/ b.size = width
    THEN [NewBlock EXCEPT !.closed =
            Append(b.closed, [size |-> b.size, branches |-> b.branches, last |-> b.last])]
    ELSE b

\* A branch that ends a block: one that is taken, or a conditional one that was before.
Stops(s, i) == i.branch /\ (i.taken \/ (i.conditional /\ i.ip \in s.takenIps))

\* Up to two branches that are really taken.
UpToTwoTaken(b, i) == Cut(Grown(b, i, i.taken), 2, 2 * FetchWidth)

\* conditional_predicted_taken_ips
TakenIps(s, i) == IF i.conditional /\ i.taken THEN s.takenIps \cup {i.ip} ELSE s.takenIps

\* Mutated form of Counted: the two distributions of one fetch change places.
CountedSwapped(s, i) ==
    LET stop == Stops(s, i)
    IN  [oneBlock     |-> Cut(Grown(s.oneBlock, i, i.taken), 1, FetchWidth),
         twoBlock     |-> Cut(Grown(s.twoBlock, i, stop), 2, 2 * FetchWidth),
         upToTaken    |-> Cut(Grown(s.upToTaken, i, stop), 1, FetchWidth),
         upToTwoTaken |-> UpToTwoTaken(s.upToTwoTaken, i),
         takenIps     |-> TakenIps(s, i)]

\* One instruction of the stream.
Counted(s, i) ==
    LET stop == Stops(s, i)
    IN  [oneBlock     |-> Cut(Grown(s.oneBlock, i, stop), 1, FetchWidth),
         twoBlock     |-> Cut(Grown(s.twoBlock, i, stop), 2, 2 * FetchWidth),
         upToTaken    |-> Cut(Grown(s.upToTaken, i, i.taken), 1, FetchWidth),
         upToTwoTaken |-> UpToTwoTaken(s.upToTwoTaken, i),
         takenIps     |-> TakenIps(s, i)]

Kinds == {"oneBlock", "twoBlock", "upToTaken", "upToTwoTaken"}

Blocks(s, kind) == Len(s[kind].closed)

\* The more ends a block may have, the more blocks there are: what a distribution
\* of larger blocks promises over that of smaller ones is no artifact of where
\* the counting started.
Ranked(s) ==
    /\ Blocks(s, "upToTaken") <= Blocks(s, "oneBlock")
    /\ Blocks(s, "upToTwoTaken") <= Blocks(s, "twoBlock")
    /\ Blocks(s, "twoBlock") <= Blocks(s, "oneBlock")
    /\ Blocks(s, "upToTwoTaken") <= Blocks(s, "upToTaken")
=============================================================================
