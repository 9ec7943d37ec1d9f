------------------------------ MODULE LruTable ------------------------------
(***************************************************************************)
(* One set of champsim::msl::lru_table (inc/msl/lru_table.h), the table    *)
(* the BTBs, the page-table walker and the prefetchers look things up in.  *)
(* A way is used when its last_used is not 0; an unused way keeps the tag  *)
(* of a default-constructed element.                                       *)
(*                                                                         *)
(* fill finds both the way that holds the tag and the way to replace with  *)
(* one std::minmax_element, under an order that puts unused ways below     *)
(* used ones and the matching way on top.  That order is not strict, an    *)
(* unused way being less than itself, so the algorithm of libstdc++ is     *)
(* modelled with its comparisons in their order.                           *)
(***************************************************************************)
EXTENDS Naturals, Sequences, SequencesExt

CONSTANTS
    Tags,
    DefaultTag,     \* tag of value_type{}
    Ways,           \* NUM_WAY
    MaxAccess       \* bound on access_count

ASSUME TableAssumption ==
    /\ DefaultTag \in Tags
    /\ Ways \in Nat \ {0}
    /\ MaxAccess \in Nat

VARIABLES
    block,          \* [lastUsed, tag], by way
    accessCount,
    last            \* the last call, its tag and whether it found the tag

tableVars == <<block, accessCount, last>>

Way == 1 .. Ways
NoBlock == [lastUsed |-> 0, tag |-> DefaultTag]

TableInit ==
    /\ block = [w \in Way |-> NoBlock]
    /\ accessCount = 0
    /\ last = [call |-> "none", tag |-> DefaultTag, hit |-> FALSE]

Valid(w) == block[w].lastUsed > 0

\* Mutated form of Less: the age is compared before the tag.
LessByAge(tag, x, y) ==
    ~Valid(x) \/ (Valid(y) /\ block[x].lastUsed < block[y].lastUsed)

\* match_and_check
Less(tag, x, y) ==
    LET match(w) == block[w].tag = tag
    IN  \/ ~Valid(x)
        \/ /\ Valid(y)
           /\ \/ ~match(x) /\ match(y)
              \/ /\ match(x) <=> match(y)
                 /\ block[x].lastUsed < block[y].lastUsed

\* Two neighbours, the smaller first.
Ordered(tag, w) == IF Less(tag, w + 1, w) THEN <<w + 1, w>> ELSE <<w, w + 1>>

\* The extremes so far, against the next two ways, or the last one.
Wider(tag, ends, w) ==
    IF w = Ways
    THEN IF Less(tag, w, ends[1]) THEN <<w, ends[2]>>
         ELSE IF ~Less(tag, w, ends[2]) THEN <<ends[1], w>> ELSE ends
    ELSE LET two == Ordered(tag, w)
         IN  <<IF Less(tag, two[1], ends[1]) THEN two[1] ELSE ends[1],
               IF ~Less(tag, two[2], ends[2]) THEN two[2] ELSE ends[2]>>

\* std::minmax_element
MinMax(tag) ==
    FoldLeft(LAMBDA ends, k : Wider(tag, ends, 2 * k + 1),
             IF Ways = 1 THEN <<1, 1>> ELSE Ordered(tag, 1),
             [k \in 1 .. (Ways - 1) \div 2 |-> k])

\* find_if with match_func: the first way that holds the tag
Matches(tag) == {w \in Way : Valid(w) /\ block[w].tag = tag}
HitWay(tag)  == CHOOSE w \in Matches(tag) : \A v \in Matches(tag) : w <= v

Answered(call, tag) ==
    last' = [call |-> call, tag |-> tag, hit |-> Matches(tag) # {}]

\* Mutated form of CheckHit: a hit does not count as a use.
CheckHitSilent(tag) ==
    /\ Answered("check_hit", tag)
    /\ UNCHANGED <<block, accessCount>>

CheckHit(tag) ==
    /\ Answered("check_hit", tag)
    /\ IF Matches(tag) = {} THEN UNCHANGED <<block, accessCount>>
       ELSE /\ accessCount' = accessCount + 1
            /\ block' = [block EXCEPT ![HitWay(tag)].lastUsed = accessCount + 1]

Fill(tag) ==
    LET ends == MinMax(tag)
        way  == IF block[ends[2]].tag = tag THEN ends[2] ELSE ends[1]
    IN  /\ accessCount' = accessCount + 1
        /\ block' = [block EXCEPT ![way] =
                        [lastUsed |-> accessCount + 1, tag |-> tag]]
        /\ Answered("fill", tag)

Invalidate(tag) ==
    /\ Answered("invalidate", tag)
    /\ block' = IF Matches(tag) = {} THEN block
                ELSE [block EXCEPT ![HitWay(tag)] = NoBlock]
    /\ UNCHANGED accessCount

TableNext ==
    \E tag \in Tags :
        \/ accessCount < MaxAccess /\ CheckHit(tag)
        \/ accessCount < MaxAccess /\ Fill(tag)
        \/ Invalidate(tag)

TableSpec == TableInit /\ [][TableNext]_tableVars
-----------------------------------------------------------------------------
\* A tag is in at most one way, whatever was filled over or invalidated: fill
\* finds the way that holds the tag before it looks for one to replace.
OneWayPerTag == \A tag \in Tags : \A v, w \in Matches(tag) : v = w

\* The tags of the used ways by last use, the order a least-recently-used set keeps.
Recency ==
    LET used == {w \in Way : Valid(w)}
    IN  {<<block[p[1]].tag, block[p[2]].tag>> :
            p \in {q \in used \X used : block[q[1]].lastUsed >= block[q[2]].lastUsed}}

Set == INSTANCE LruSet WITH newer <- Recency

\* The table is a least-recently-used set: it hits exactly the Ways tags used
\* last ("replaces LRU", test/cpp/src/040-lru-table.cc).
ImplementsLru == Set!SetSpec

\* It is one, and holds each tag once.
TableIsLru == []OneWayPerTag /\ ImplementsLru
=============================================================================
