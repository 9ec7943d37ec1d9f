------------------------------- MODULE LruSet -------------------------------
(***************************************************************************)
(* What a set of a least-recently-used table promises: it remembers the    *)
(* Ways tags used last, and a lookup succeeds exactly for those.           *)
(***************************************************************************)
EXTENDS Naturals, FiniteSets

CONSTANTS Tags, DefaultTag, Ways

VARIABLES
    newer,      \* <<t, u>>: both are remembered, and t was not used before u
    last        \* the last call, its tag and whether it found the tag

setVars == <<newer, last>>

SetInit ==
    /\ newer = {}
    /\ last = [call |-> "none", tag |-> DefaultTag, hit |-> FALSE]

Held == {t \in Tags : <<t, t>> \in newer}

Called(call, tag) == last' = [call |-> call, tag |-> tag, hit |-> tag \in Held]

\* The order without a tag
Without(tag) == {p \in newer : p[1] # tag /\ p[2] # tag}

Oldest == CHOOSE t \in Held : \A u \in Held : <<u, t>> \in newer

\* A tag that is held moves to the front; for a new one the oldest makes room.
Used(tag) ==
    LET rest == IF tag \in Held \/ Cardinality(Held) < Ways THEN Without(tag)
                ELSE Without(Oldest)
    IN  rest \cup {<<tag, t>> : t \in {tag} \cup {u \in Tags : <<u, u>> \in rest}}

Lookup(tag) ==
    /\ Called("check_hit", tag)
    /\ newer' = IF tag \in Held THEN Used(tag) ELSE newer

Insert(tag) ==
    /\ Called("fill", tag)
    /\ newer' = Used(tag)

Drop(tag) ==
    /\ Called("invalidate", tag)
    /\ newer' = Without(tag)

SetNext == \E tag \in Tags : Lookup(tag) \/ Insert(tag) \/ Drop(tag)

SetSpec == SetInit /\ [][SetNext]_setVars
=============================================================================
