------------------------------- MODULE MCBtb -------------------------------
(***************************************************************************)
(* The branch target buffers for the model checker, one of them in a       *)
(* behaviour: a set of the single-cycle BTB with more branches than ways,  *)
(* the multi-block-ahead BTB under calls, returns, indirect and            *)
(* conditional branches in any order, and the two BTBs that look up single *)
(* branches, run over a program that calls, loops and returns.             *)
(***************************************************************************)
EXTENDS L0Btb, MultiBlockBtb, BasicBtb

MCIps == {10, 20, 30, 40, 50}
MCIpKind == [i \in MCIps |-> CASE i = 10 -> "DIRECT_CALL"
                               [] i = 20 -> "RETURN"
                               [] i = 30 -> "INDIRECT"
                               [] i = 40 -> "CONDITIONAL"
                               [] i = 50 -> "NOT_BRANCH"]

\* A function at 6 that loops, called directly (2) and indirectly (7), and a jump back.
MCCodeKind == <<"NOT_BRANCH", "DIRECT_CALL", "NOT_BRANCH", "CONDITIONAL", "INDIRECT",
                "CONDITIONAL", "INDIRECT_CALL", "NOT_BRANCH", "RETURN">>
MCCodeTargets == <<{}, {6}, {}, {2}, {1, 3}, {8}, {6}, {}, {}>>
MCCallLength == [i \in 1 .. 9 |-> 1]

VARIABLE part

Is(p) == part = p

RunInit == part \in {"l0", "multi", "basic"} /\ Init /\ MultiInit /\ BasicInit

RunNext ==
    /\ UNCHANGED part
    /\ \/ Is("l0") /\ Next /\ UNCHANGED <<multiVars, basicVars>>
       \/ Is("multi") /\ MultiNext /\ UNCHANGED <<vars, basicVars>>
       \/ Is("basic") /\ BasicNext /\ UNCHANGED <<vars, multiVars>>

RunSpec == RunInit /\ [][RunNext]_<<part, vars, multiVars, basicVars>>
=============================================================================
