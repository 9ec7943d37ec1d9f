--------------------------- MODULE MCPrefetchers ---------------------------
(***************************************************************************)
(* What runs inside a cache, for the model checker, one of them in a       *)
(* behaviour: the four prefetchers, and the replacement policies with      *)
(* sets, roles and blocks chosen for what is peculiar to each of them.     *)
(***************************************************************************)
EXTENDS Berti, Spp, IpStride, AmpmLite, Replacement

\* Programs of demands: a stride of one instruction, and two instructions that take
\* turns and collide in the history.
Demands(tags, at) == [k \in DOMAIN at |-> [tag |-> tags[k], line |-> at[k]]]
MCPrograms == {Demands(<<1, 1, 1, 1, 1>>, <<1, 2, 3, 4, 5>>),
               Demands(<<1, 3, 1, 3>>, <<1, 4, 2, 3>>)}

Case(policy, ways, roles, blocksUsed, lastCycle) ==
    [policy |-> policy, ways |-> ways, roles |-> roles, regions |-> 1 .. blocksUsed,
     lastCycle |-> lastCycle]
MCCases == {Case("lru", 3, <<"none">>, 4, 5),
            Case("srrip", 3, <<"none">>, 4, 1),
            Case("ship", 2, <<"sampled">>, 3, 2),
            Case("drrip", 1, <<"srrip leader", "follower">>, 2, 1),
            Case("drrip", 1, <<"bip leader", "leader">>, 2, 1)}

VARIABLE part

Is(p) == part = p

RunInit ==
    /\ part \in {"berti", "spp", "stride", "ampm", "replacement"}
    /\ BertiInit /\ SppInit /\ StrideInit /\ AmpmInit /\ ReplacementInit
    /\ Is("berti") \/ program = Demands(<<1, 3, 1, 3>>, <<1, 4, 2, 3>>)
    /\ Is("replacement") \/ Policy = "lru"

RunNext ==
    /\ UNCHANGED part
    /\ \/ Is("berti") /\ BertiNext /\ UNCHANGED <<sppVars, strideVars, ampmVars, replVars>>
       \/ Is("spp") /\ SppNext /\ UNCHANGED <<bertiVars, strideVars, ampmVars, replVars>>
       \/ Is("stride") /\ StrideNext /\ UNCHANGED <<bertiVars, sppVars, ampmVars, replVars>>
       \/ Is("ampm") /\ AmpmNext /\ UNCHANGED <<bertiVars, sppVars, strideVars, replVars>>
       \/ Is("replacement") /\ ReplacementNext
          /\ UNCHANGED <<bertiVars, sppVars, strideVars, ampmVars>>

RunSpec ==
    RunInit /\ [][RunNext]_<<part, bertiVars, sppVars, strideVars, ampmVars, replVars>>

\* The signature path prefetcher's tables agree: counters of a pattern with those of
\* its deltas (PatternCountersAgree), and each signature with its page
\* (SignatureTableSound).
SppTablesSound == PatternCountersAgree /\ SignatureTableSound

\* The prefetchers of regularity follow what was there: a stride that one instruction
\* read (FollowsTheStride), and a region's own accesses (RegionsSound).
RegularitySound == FollowsTheStride /\ RegionsSound
=============================================================================
