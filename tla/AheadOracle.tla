---------------------------- MODULE AheadOracle ----------------------------
(***************************************************************************)
(* What an ahead predictor promises, without buffer, ids or slots: the     *)
(* answer for a branch is the prediction generated when the branch         *)
(* Distance branches earlier was itself predicted, and nothing before      *)
(* that; an instruction that is no branch leaves no trace.                 *)
(***************************************************************************)
EXTENDS Naturals, Sequences

CONSTANTS Distance, Pcs, None

VARIABLES
    recent,     \* origins generated by the last Distance branches, oldest first
    current,    \* address of the instruction being predicted, or None
    resolved,   \* number of branches resolved
    served,     \* origin of the last answer
    trained     \* origin the last branch trained

oracleVars == <<recent, current, resolved, served, trained>>

\* The oldest of the recent origins, when Distance branches have gone by.
Due == IF Len(recent) = Distance THEN Head(recent) ELSE None

\* recent after a branch: no more than Distance origins are remembered.
Remember(origin) ==
    LET all == Append(recent, origin)
    IN  IF Len(all) > Distance THEN Tail(all) ELSE all

OracleInit ==
    /\ recent = << >>
    /\ current = None
    /\ resolved = 0
    /\ served = None
    /\ trained = None

Predict(ip) ==
    /\ current' = ip
    /\ served' = Due
    /\ UNCHANGED <<recent, resolved, trained>>

Resolve ==
    /\ current # None
    /\ current' = None
    /\ recent' = Remember([pc |-> current, at |-> resolved])
    /\ resolved' = resolved + 1
    /\ trained' \in {Due, None}
    /\ UNCHANGED served

OracleNext == Resolve \/ \E ip \in Pcs : Predict(ip)

OracleSpec == OracleInit /\ [][OracleNext]_oracleVars
=============================================================================
