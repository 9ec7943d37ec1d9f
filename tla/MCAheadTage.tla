---------------------------- MODULE MCAheadTage ----------------------------
(***************************************************************************)
(* The ahead TAGE for the model checker, one of two parts in a behaviour:  *)
(* the slots and the delay queue in which answers wait for their branch,   *)
(* with the refinement of AheadOracle that says the answer consulted keeps *)
(* the promise every ahead predictor makes, and the tables that give the   *)
(* answers.                                                                *)
(***************************************************************************)
EXTENDS AheadTage, TwoTagTage

MCSizes  == <<1, 2, 3>>
MCTags   == <<2, 2, 2>>
MCWidths == <<{1, 2}, {1, 2}, {1, 2}>>

VARIABLE part

Is(p) == part = p

RunInit == part \in {"queue", "tables"} /\ Init /\ TwoTagInit

RunNext ==
    /\ UNCHANGED part
    /\ \/ Is("queue") /\ Next /\ UNCHANGED tageVars
       \/ Is("tables") /\ TwoTagNext /\ UNCHANGED vars

RunSpec == RunInit /\ [][RunNext]_<<part, vars, tageVars>>
=============================================================================
