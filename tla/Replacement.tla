----------------------------- MODULE Replacement -----------------------------
(***************************************************************************)
(* The replacement policies of a cache (replacement/lru, srrip, drrip,     *)
(* ship).  A policy is told of every hit and fill, and asked for a victim  *)
(* when a block arrives in a full set; when the victim's writeback finds   *)
(* no place below, the fill is tried again and the policy asked again.     *)
(* A block is named by its sampler region, of which a set holds one.       *)
(***************************************************************************)
EXTENDS PredictorTables, Functions

CONSTANTS
    CacheCases,     \* a policy, the number of ways, the role of each set, the regions, and
                    \* a bound on the cycle
    ReplacementIps,
    MaxRrpv, BipMax, PselMax, ShctMax

DrripRoles == {"bip leader", "srrip leader", "leader", "follower"}

ASSUME ReplacementAssumption ==
    /\ {MaxRrpv, BipMax, PselMax, ShctMax} \subseteq Nat \ {0}
    /\ MaxRrpv > 1
    /\ ReplacementIps \subseteq Nat /\ 0 \in ReplacementIps
    /\ \A c \in CacheCases : /\ c.policy \in {"lru", "srrip", "drrip", "ship"}
                             /\ c.ways \in Nat \ {0} /\ c.lastCycle \in Nat
                             /\ c.regions \subseteq Nat \ {0}
                             /\ c.policy = "drrip" =>
                                    \A s \in DOMAIN c.roles : c.roles[s] \in DrripRoles

VARIABLES
    repl,       \* what the policy keeps
    held,       \* by set and way, the region of the block, 0 if none
    cycle,
    proven      \* ghost: see ScanResistant

replVars == <<repl, held, cycle, proven>>

Policy   == repl.case.policy
RoleOf(s) == repl.case.roles[s]
WaysOfSet == 1 .. repl.case.ways
CacheSets == DOMAIN repl.case.roles

\* initialize_replacement.  DRRIP starts with all blocks recently used.
NewReplacement(c) ==
    [case |-> c,
     age  |-> [s \in DOMAIN c.roles |->
                  [w \in 1 .. c.ways |-> IF c.policy \in {"srrip", "ship"} THEN MaxRrpv ELSE 0]],
     bip  |-> 0, psel |-> 0,
     shct |-> [ip \in ReplacementIps |-> 0],
     sampler |-> [i \in 1 .. IF c.policy = "ship" THEN c.ways + Cardinality(DOMAIN c.roles) - 1 ELSE 0 |->
                     [region |-> 0, ip |-> 0, used |-> FALSE, last |-> 0]]]

-----------------------------------------------------------------------------
(* find_victim                                                             *)

Oldest(a)   == CHOOSE w \in DOMAIN a : \A v \in DOMAIN a :
                    a[w] < a[v] \/ (a[w] = a[v] /\ w <= v)
Furthest(a) == CHOOSE w \in DOMAIN a : \A v \in DOMAIN a :
                    a[v] < a[w] \/ (a[w] = a[v] /\ w <= v)

\* DRRIP takes the difference anew from the victim, which is 0 once the victim is aged.
AgedUpToVictim(a) ==
    LET f == Furthest(a) IN [w \in DOMAIN a |-> IF w <= f THEN a[w] + MaxRrpv - a[f] ELSE a[w]]

\* SRRIP and SHiP age all ways until one is at the maximum.
AllAged(a) == [w \in DOMAIN a |-> a[w] + MaxRrpv - a[Furthest(a)]]

Victim(s) == IF Policy = "lru" THEN Oldest(repl.age[s]) ELSE Furthest(repl.age[s])

VictimsAged(s) ==
    CASE Policy = "lru"   -> repl
      [] Policy = "drrip" -> [repl EXCEPT !.age[s] = AgedUpToVictim(@)]
      [] OTHER            -> [repl EXCEPT !.age[s] = AllAged(@)]

-----------------------------------------------------------------------------
(* update_replacement_state                                                *)

LruUpdated(r, s, w, hit, write) ==
    IF hit /\ write THEN r ELSE [r EXCEPT !.age[s][w] = cycle]

SrripUpdated(r, s, w, hit) == [r EXCEPT !.age[s][w] = IF hit THEN 0 ELSE MaxRrpv - 1]

\* Bimodal insertion: one of BipMax blocks is given some time.
Bimodal(r, s, w) ==
    [r EXCEPT !.bip = (@ + 1) % BipMax,
              !.age[s][w] = IF r.bip + 1 = BipMax THEN MaxRrpv - 1 ELSE MaxRrpv]

\* fwcounter, for the selector: ++ and -- both come down to += 1, which saturates.
Raised(c, n) == Max({0, Min({c + n, PselMax})})
Increment(c) == Raised(c, 1)
Decrement(c) == Raised(c, 1)

\* Of the leaders only the first two lead; a fill of another leaves the age as it is.
DrripUpdated(r, s, w, hit, write) ==
    IF write THEN [r EXCEPT !.age[s][w] = MaxRrpv - 1]
    ELSE IF hit THEN [r EXCEPT !.age[s][w] = 0]
    ELSE CASE RoleOf(s) = "bip leader"   ->
                Bimodal([r EXCEPT !.psel = Decrement(@)], s, w)
           [] RoleOf(s) = "srrip leader" ->
                [r EXCEPT !.psel = Increment(@), !.age[s][w] = MaxRrpv - 1]
           [] RoleOf(s) = "leader"       -> r
           [] RoleOf(s) = "follower"     -> IF r.psel > PselMax \div 2 THEN Bimodal(r, s, w)
                                     ELSE [r EXCEPT !.age[s][w] = MaxRrpv - 1]

\* The sampler of a set begins one entry after that of the set before, so that their
\* entries overlap.  It counts for an ip the blocks evicted after use, and against it
\* the hits.
Sampled(r, s, region, ip) ==
    LET slots == s .. s + r.case.ways - 1
        same  == {i \in slots : r.sampler[i].region = region}
        lru   == CHOOSE i \in slots : \A j \in slots :
                    \/ r.sampler[i].last < r.sampler[j].last
                    \/ r.sampler[i].last = r.sampler[j].last /\ i <= j
        old   == r.sampler[lru]
    IN  IF RoleOf(s) # "sampled" THEN r
        ELSE IF same # {}
        THEN [r EXCEPT !.shct[r.sampler[Min(same)].ip] = Saturated(@, FALSE, 0, ShctMax),
                       !.sampler[Min(same)].used = TRUE, !.sampler[Min(same)].last = cycle]
        ELSE [r EXCEPT !.shct[old.ip] = IF old.used THEN Saturated(@, TRUE, 0, ShctMax) ELSE @,
                       !.sampler[lru] = [region |-> region, ip |-> ip, used |-> FALSE,
                                         last |-> cycle]]

ShipUpdated(r, s, w, region, ip, hit, write) ==
    IF write THEN IF hit THEN r ELSE [r EXCEPT !.age[s][w] = MaxRrpv - 1]
    ELSE LET q == Sampled(r, s, region, ip)
         IN  [q EXCEPT !.age[s][w] = IF hit THEN 0
                                     ELSE IF q.shct[ip] = ShctMax THEN MaxRrpv ELSE MaxRrpv - 1]

StateUpdated(r, s, w, region, ip, hit, write) ==
    CASE Policy = "lru"   -> LruUpdated(r, s, w, hit, write)
      [] Policy = "srrip" -> SrripUpdated(r, s, w, hit)
      [] Policy = "drrip" -> DrripUpdated(r, s, w, hit, write)
      [] Policy = "ship"  -> ShipUpdated(r, s, w, region, ip, hit, write)

-----------------------------------------------------------------------------
(* What the cache does                                                     *)

\* A writeback that hits is no use of the block, except for SRRIP; DRRIP gives the block
\* the age of a new one.
Hit(s, w, ip, write) ==
    /\ held[s][w] # 0
    /\ repl' = StateUpdated(repl, s, w, held[s][w], ip, TRUE, write)
    /\ proven' =
        IF ~write \/ Policy = "srrip"
        THEN [proven EXCEPT
                !.unhit[s] = @ \ {w},
                !.over = {p \in @ : p[1] # s \/ p[3] # w}
                         \cup {<<s, w, u>> : u \in (proven.unhit[s] \ proven.fresh[s]) \ {w}}]
        ELSE IF Policy = "drrip"
        THEN [proven EXCEPT !.over = {p \in @ : p[1] # s \/ w \notin {p[2], p[3]}}]
        ELSE proven
    /\ UNCHANGED <<held, cycle>>

Filled(r, s, w, region, ip, write) ==
    /\ repl' = StateUpdated(r, s, w, region, ip, FALSE, write)
    /\ held' = [held EXCEPT ![s][w] = region]
    /\ proven' = [proven EXCEPT !.unhit[s] = @ \cup {w}, !.fresh[s] = @ \cup {w},
                                !.over = {p \in @ : p[1] # s \/ w \notin {p[2], p[3]}},
                                !.betrayed = \E u \in WaysOfSet : <<s, w, u>> \in proven.over]

\* handle_fill
FillFree(s, region, ip, write) ==
    /\ region \notin Range(held[s])
    /\ \E w \in WaysOfSet : /\ held[s][w] = 0
                            /\ \A v \in WaysOfSet : v < w => held[s][v] # 0
                            /\ Filled(repl, s, w, region, ip, write)
    /\ UNCHANGED cycle

FillVictim(s, region, ip, write) ==
    /\ {region, 0} \cap Range(held[s]) = {}
    /\ Filled(VictimsAged(s), s, Victim(s), region, ip, write)
    /\ UNCHANGED cycle

WritebackRefused(s) ==
    /\ 0 \notin Range(held[s])
    /\ repl' = VictimsAged(s)
    /\ UNCHANGED <<held, cycle, proven>>

\* The other policies do not look at the cycle.
CycleBegins ==
    /\ IF Policy \in {"lru", "ship"} THEN cycle < repl.case.lastCycle /\ cycle' = cycle + 1
       ELSE UNCHANGED cycle
    /\ proven' = [proven EXCEPT !.fresh = [s \in CacheSets |-> {}]]
    /\ UNCHANGED <<repl, held>>

ReplacementInit ==
    /\ \E c \in CacheCases :
        /\ repl = NewReplacement(c)
        /\ held = [s \in DOMAIN c.roles |-> [w \in 1 .. c.ways |-> 0]]
        /\ proven = [unhit |-> [s \in DOMAIN c.roles |-> {}],
                     fresh |-> [s \in DOMAIN c.roles |-> {}], over |-> {}, betrayed |-> FALSE]
    /\ cycle = 1

ReplacementNext ==
    \/ \E s \in CacheSets, w \in WaysOfSet, ip \in ReplacementIps, write \in BOOLEAN :
        Hit(s, w, ip, write)
    \/ \E s \in CacheSets, region \in repl.case.regions, ip \in ReplacementIps, write \in BOOLEAN :
        FillFree(s, region, ip, write) \/ FillVictim(s, region, ip, write)
    \/ \E s \in CacheSets : WritebackRefused(s)
    \/ CycleBegins

ReplacementSpec == ReplacementInit /\ [][ReplacementNext]_replVars

-----------------------------------------------------------------------------
\* A block that was hit is not evicted while a block that was there before the hit, and
\* has never been hit, stays: blocks used once do not drive out those used again.
KeepsProven == ~proven.betrayed

ScanResistant == Policy # "drrip" => KeepsProven
=============================================================================
