---------------------------- MODULE Dram_proofs ----------------------------
(***************************************************************************)
(* Proofs about the memory controller, for any number of channels, banks,  *)
(* slots and requests.                                                     *)
(*                                                                         *)
(* BanksMatchRequests is not inductive: a slot that a bank works for could *)
(* be freed or merged by check_collision, and be taken by another request. *)
(* DramIInv adds that whatever is scheduled has been checked, which keeps  *)
(* check_collision away from it, that every request is in a slot of its    *)
(* own channel, and that no bank is busy in the warmup, which drops the    *)
(* requests.  A cycle of a channel goes through it phase by phase, one     *)
(* lemma each.                                                             *)
(*                                                                         *)
(* DramAnsweredOnce needs of whoever waits that its own level is named     *)
(* there (Tied, QueueTied, ToldTyped).  Then each phase owes (Owes) what   *)
(* it finds: a request that waits in one place waits in one place after    *)
(* it or is in one response, and a request that waits nowhere stays so.    *)
(* WaitInv says where a request is, and Places counts it.                  *)
(***************************************************************************)
EXTENDS Dram, FiniteSetTheorems, SequenceTheorems, WellFoundedInduction, TLAPS

Demands == [addr : Nat, vaddr : Nat, type : Types, translated : BOOLEAN, reply : BOOLEAN,
            waiters : SUBSET Nat, checked : BOOLEAN]

UpperOK(x) ==
    /\ DOMAIN x = {"RQ", "WQ", "PQ", "returned"}
    /\ x.RQ \in Seq(Demands) /\ x.WQ \in Seq(Demands) /\ x.PQ \in Seq(Demands)

Modes == {"RQ", "WQ"}

\* What is scheduled has been checked: CheckCollisions may free only what no bank has.
SlotOK(n, e) ==
    /\ e.used \in BOOLEAN
    /\ e.used => /\ DOMAIN e = {"used", "addr", "waiters", "to", "checked", "scheduled", "left"}
                 /\ e.addr \in Nat /\ ChannelOf(e.addr) = n
                 /\ e.checked \in BOOLEAN /\ e.scheduled \in BOOLEAN
                 /\ e.scheduled => e.checked

BankOK(x) ==
    /\ DOMAIN x = {"valid", "row", "left", "queue", "slot"}
    /\ x.valid \in BOOLEAN /\ x.queue \in Modes /\ x.slot \in Slots(x.queue)

ShapeOK(n, c) ==
    /\ DOMAIN c = {"RQ", "WQ", "bank", "active", "writeMode", "busFree"}
    /\ c.active \in 0 .. Banks
    /\ DOMAIN c.bank = 1 .. Banks /\ \A b \in 1 .. Banks : BankOK(c.bank[b])
    /\ \A m \in Modes : /\ DOMAIN c[m] = Slots(m)
                        /\ \A i \in Slots(m) : SlotOK(n, c[m][i])

\* A slot that is given to a bank
Given(c, m, i) == c[m][i].used /\ c[m][i].scheduled

Matched(c) ==
    /\ \A b \in 1 .. Banks : c.bank[b].valid =>
           /\ Given(c, c.bank[b].queue, c.bank[b].slot)
           /\ BankOf(c[c.bank[b].queue][c.bank[b].slot].addr) = b
    /\ \A m \in Modes : \A i \in Slots(m) : Given(c, m, i) =>
           \E b \in 1 .. Banks : c.bank[b].valid /\ c.bank[b].queue = m /\ c.bank[b].slot = i
    /\ c.active # 0 => c.bank[c.active].valid

DramChannelOK(n, c) == ShapeOK(n, c) /\ Matched(c)

DramIInv ==
    /\ DOMAIN upper = 1 .. DramUppers /\ \A u \in 1 .. DramUppers : UpperOK(upper[u])
    /\ DOMAIN chans = 1 .. Channels /\ \A n \in 1 .. Channels : DramChannelOK(n, chans[n])
    /\ warmup => \A n \in 1 .. Channels : \A b \in 1 .. Banks : ~chans[n].bank[b].valid
    /\ dramAsked \in Seq([addr : Nat, reply : BOOLEAN, upper : 1 .. DramUppers])

\* Nothing is queued or on a bank: what the warmup leaves.
Quiet(c) ==
    /\ \A m \in Modes : \A i \in Slots(m) : ~c[m][i].used
    /\ \A b \in 1 .. Banks : ~c.bank[b].valid

AllSettled(c) == \A m \in Modes : \A i \in Slots(m) : c[m][i].used => c[m][i].checked

\* The request on the bus is the one in slot i of m, on bank b, or has left.
OnBusOrLeft(c, b, m, i) ==
    \/ c.active = b /\ c.bank[b].queue = m /\ c.bank[b].slot = i
    \/ ~c[m][i].used

\* What each part of a cycle does to a channel
BusKept(c, d) ==
    \A b \in 1 .. Banks : \A m \in Modes : \A i \in Slots(m) :
        OnBusOrLeft(c, b, m, i) => OnBusOrLeft(d, b, m, i)

PartOfCycle(n, c, d) ==
    /\ DramChannelOK(n, d)
    /\ BusKept(c, d)
    /\ Quiet(c) => Quiet(d)

\* Slots are filled, freed or changed, but none that is given to a bank.
GivenKept(n, c, d) ==
    /\ DOMAIN d = DOMAIN c /\ d.bank = c.bank /\ d.active = c.active
    /\ \A m \in Modes :
        /\ DOMAIN d[m] = Slots(m)
        /\ \A i \in Slots(m) :
            /\ SlotOK(n, d[m][i])
            /\ Given(d, m, i) <=> Given(c, m, i)
            /\ Given(c, m, i) => d[m][i].addr = c[m][i].addr

Shrinks(c, d) == \A m \in Modes : \A i \in Slots(m) : d[m][i].used => c[m][i].used

IsState(s) == DOMAIN s = {"c", "out"}

-----------------------------------------------------------------------------
\* What the proofs use of the constants.
LEMMA DramConstants ==
    /\ DramUppers \in Nat \ {0} /\ Channels \in Nat \ {0} /\ Banks \in Nat \ {0}
    /\ RqSlots \in Nat \ {0} /\ WqSlots \in Nat \ {0}
    /\ Slots("RQ") = 1 .. RqSlots /\ Slots("WQ") = 1 .. WqSlots
    /\ \A m \in Modes : Slots(m) \subseteq Nat /\ 1 \in Slots(m) /\ 0 \notin Slots(m)
<1>1. /\ DramUppers \in Nat \ {0} /\ Channels \in Nat \ {0} /\ Banks \in Nat \ {0}
      /\ RqSlots \in Nat \ {0} /\ WqSlots \in Nat \ {0}
  BY DramAssumption
<1>2. Slots("RQ") = 1 .. RqSlots /\ Slots("WQ") = 1 .. WqSlots
  BY DEF Slots
<1>. QED BY <1>1, <1>2 DEF Modes

LEMMA BankInRange == ASSUME NEW a \in Nat PROVE BankOf(a) \in 1 .. Banks
<1>1. BlockSize \in Nat \ {0} /\ Channels \in Nat \ {0} /\ Banks \in Nat \ {0}
  BY DramAssumption, ChannelAssumption
<1>2. BlockSize * Channels \in Nat \ {0}
  BY <1>1
<1>. DEFINE x == BlockSize * Channels
<1>3. x \in Nat \ {0}
  BY <1>2
<1>4. BankOf(a) = ((a \div x) % Banks) + 1
  BY DEF BankOf
<1>. HIDE DEF x
<1>5. a \div x \in Nat
  BY <1>3
<1>6. (a \div x) % Banks \in 0 .. Banks - 1
  BY <1>1, <1>5
<1>. QED BY <1>1, <1>4, <1>6

LEMMA ChannelInRange == ASSUME NEW a \in Nat PROVE ChannelOf(a) \in 1 .. Channels
<1>1. BlockSize \in Nat \ {0} /\ Channels \in Nat \ {0}
  BY DramAssumption, ChannelAssumption
<1>2. a \div BlockSize \in Nat
  BY <1>1
<1>3. (a \div BlockSize) % Channels \in 0 .. Channels - 1
  BY <1>1, <1>2
<1>. QED BY <1>1, <1>3 DEF ChannelOf

\* std::find_if: one of S, and 0 for the end only when there is none.
LEMMA FirstOfSet ==
    ASSUME NEW S \in SUBSET Nat
    PROVE  /\ S = {} => First(S) = 0
           /\ S # {} => First(S) \in S /\ \A j \in S : First(S) <= j
<1>1. CASE S = {}
  BY <1>1 DEF First
<1>2. CASE S # {}
  <2>1. PICK m \in S : \A y \in S : ~(<<y, m>> \in OpToRel(<, Nat))
    BY <1>2, WFMin, NatLessThanWellFounded
  <2>2. ASSUME NEW y \in S PROVE m <= y
    <3>1. y \in Nat /\ m \in Nat
      OBVIOUS
    <3>2. ~(y < m)
      BY <2>1, <3>1 DEF OpToRel
    <3>. QED BY <3>1, <3>2
  <2>. QED BY <1>2, <2>2 DEF First
<1>. QED BY <1>1, <1>2

\* Two banks never work for the same slot.
LEMMA BanksDiffer ==
    ASSUME NEW c, Matched(c), NEW a \in 1 .. Banks, NEW b \in 1 .. Banks,
           c.bank[a].valid, c.bank[b].valid,
           c.bank[a].queue = c.bank[b].queue, c.bank[a].slot = c.bank[b].slot
    PROVE  a = b
BY DEF Matched

\* A step that leaves what banks have alone and frees or adds what none has.
LEMMA GivenKeptOK ==
    ASSUME NEW n, NEW c, NEW d, DramChannelOK(n, c), GivenKept(n, c, d)
    PROVE  DramChannelOK(n, d)
<1>1. ShapeOK(n, d)
  BY DEF DramChannelOK, ShapeOK, GivenKept
<1>2. \A b \in 1 .. Banks : c.bank[b].queue \in Modes /\ c.bank[b].slot \in Slots(c.bank[b].queue)
  BY DEF DramChannelOK, ShapeOK, BankOK
<1>3. \A b \in 1 .. Banks : d.bank[b].valid =>
           /\ Given(d, d.bank[b].queue, d.bank[b].slot)
           /\ BankOf(d[d.bank[b].queue][d.bank[b].slot].addr) = b
  BY <1>2 DEF DramChannelOK, Matched, GivenKept
<1>4. \A m \in Modes : \A i \in Slots(m) : Given(d, m, i) =>
           \E b \in 1 .. Banks : d.bank[b].valid /\ d.bank[b].queue = m /\ d.bank[b].slot = i
  BY DEF DramChannelOK, Matched, GivenKept
<1>5. d.active # 0 => d.bank[d.active].valid
  BY DEF DramChannelOK, Matched, GivenKept
<1>. QED BY <1>1, <1>3, <1>4, <1>5 DEF DramChannelOK, Matched

\* The same for a step on one of the two queues
LEMMA GivenKeptPart ==
    ASSUME NEW n, NEW c, NEW d, DramChannelOK(n, c), GivenKept(n, c, d), Shrinks(c, d)
    PROVE  PartOfCycle(n, c, d)
<1>1. DramChannelOK(n, d)
  BY GivenKeptOK
<1>2. d.bank = c.bank /\ d.active = c.active
  BY DEF GivenKept
<1>3. \A m \in Modes : \A i \in Slots(m) : SlotOK(n, c[m][i]) /\ SlotOK(n, d[m][i])
  BY <1>1 DEF DramChannelOK, ShapeOK
<1>4. BusKept(c, d)
  BY <1>2, <1>3 DEF BusKept, OnBusOrLeft, Shrinks, SlotOK
<1>5. Quiet(c) => Quiet(d)
  BY <1>2, <1>3 DEF Quiet, Shrinks, SlotOK
<1>. QED BY <1>1, <1>4, <1>5 DEF PartOfCycle

\* A queue of which the slots that are given to banks stay.
QueueKept(n, c, m, q) ==
    /\ DOMAIN q = Slots(m)
    /\ \A i \in Slots(m) :
        /\ SlotOK(n, q[i])
        /\ (q[i].used /\ q[i].scheduled) <=> Given(c, m, i)
        /\ Given(c, m, i) => q[i].addr = c[m][i].addr

\* c with one of its queues replaced
LEMMA QueueSet ==
    ASSUME NEW n, NEW c, ShapeOK(n, c), NEW m \in Modes, NEW q, QueueKept(n, c, m, q),
           NEW d, d = [c EXCEPT ![m] = q]
    PROVE  /\ GivenKept(n, c, d)
           /\ (\A i \in Slots(m) : q[i].used => c[m][i].used) => Shrinks(c, d)
<1>1. DOMAIN d = DOMAIN c /\ d.bank = c.bank /\ d.active = c.active
  BY DEF ShapeOK, Modes
<1>2. d[m] = q /\ \A x \in Modes : x # m => d[x] = c[x]
  BY DEF ShapeOK, Modes
<1>3. \A x \in Modes : \A i \in Slots(x) : SlotOK(n, c[x][i])
  BY DEF ShapeOK
<1>4. \A x \in Modes :
        /\ DOMAIN d[x] = Slots(x)
        /\ \A i \in Slots(x) :
            /\ SlotOK(n, d[x][i])
            /\ Given(d, x, i) <=> Given(c, x, i)
            /\ Given(c, x, i) => d[x][i].addr = c[x][i].addr
  <2>. SUFFICES ASSUME NEW x \in Modes
                PROVE  /\ DOMAIN d[x] = Slots(x)
                       /\ \A i \in Slots(x) :
                            /\ SlotOK(n, d[x][i])
                            /\ Given(d, x, i) <=> Given(c, x, i)
                            /\ Given(c, x, i) => d[x][i].addr = c[x][i].addr
    OBVIOUS
  <2>1. CASE x = m
    BY <1>2, <2>1 DEF QueueKept, Given
  <2>2. CASE x # m
    BY <1>2, <1>3, <2>2 DEF ShapeOK, Given
  <2>. QED BY <2>1, <2>2
<1>5. ASSUME \A i \in Slots(m) : q[i].used => c[m][i].used PROVE Shrinks(c, d)
  BY <1>2, <1>5 DEF Shrinks
<1>. QED BY <1>1, <1>4, <1>5 DEF GivenKept

LEMMA GivenKeptSame ==
    ASSUME NEW n, NEW c, ShapeOK(n, c)
    PROVE  GivenKept(n, c, c) /\ Shrinks(c, c)
BY DEF ShapeOK, GivenKept, Shrinks

LEMMA GivenKeptOn ==
    ASSUME NEW n, NEW c, NEW d, NEW e, GivenKept(n, c, d), GivenKept(n, d, e)
    PROVE  /\ GivenKept(n, c, e)
           /\ Shrinks(c, d) /\ Shrinks(d, e) => Shrinks(c, e)
<1>1. GivenKept(n, c, e)
  BY DEF GivenKept
<1>. QED BY <1>1 DEF Shrinks

\* One slot that no bank has gets another request that no bank has, or none.
LEMMA SlotSet ==
    ASSUME NEW n, NEW c, ShapeOK(n, c), NEW m \in Modes, NEW i \in Slots(m), NEW e,
           SlotOK(n, e), ~Given(c, m, i), ~(e.used /\ e.scheduled),
           NEW q, q = [c[m] EXCEPT ![i] = e]
    PROVE  QueueKept(n, c, m, q)
<1>1. DOMAIN q = Slots(m) /\ q[i] = e /\ \A j \in Slots(m) : j # i => q[j] = c[m][j]
  BY DEF ShapeOK
<1>2. \A j \in Slots(m) : SlotOK(n, c[m][j])
  BY DEF ShapeOK
<1>. QED BY <1>1, <1>2 DEF QueueKept, Given

LEMMA FreeSlotOK == \A n : SlotOK(n, Free) /\ ~Free.used
BY DEF SlotOK, Free

-----------------------------------------------------------------------------
(* Who waits for a response                                                *)

\* Request w waits in no place of q, or in one.
NoneIn(q, w) == \A k \in DOMAIN q : w \notin q[k].waiters
OneIn(q, w)  == \E k \in DOMAIN q : /\ w \in q[k].waiters
                                    /\ \A l \in DOMAIN q : w \in q[l].waiters => l = k

\* The same for the slots of a channel
HoldsAt(c, w, k) == c.RQ[k].used /\ w \in c.RQ[k].waiters
NoneHeld(c, w) == \A k \in Slots("RQ") : ~HoldsAt(c, w, k)
OneHeld(c, w)  == \E k \in Slots("RQ") : /\ HoldsAt(c, w, k)
                                         /\ \A l \in Slots("RQ") : HoldsAt(c, w, l) => l = k

\* The same for a channel with the responses it has given
NoneHas(s, w) == NoneHeld(s.c, w) /\ NoneIn(s.out, w)
OneHas(s, w)  == \/ OneHeld(s.c, w) /\ NoneIn(s.out, w)
                 \/ NoneHeld(s.c, w) /\ OneIn(s.out, w)

\* Whoever waits at a slot is told: own[w] is the level above that w is of.
Informs(own, e) ==
    /\ e.waiters \subseteq DOMAIN own /\ e.to \subseteq 1 .. DramUppers
    /\ \A w \in e.waiters : own[w] \in e.to

Answers(own) ==
    {e \in [addr : Nat, to : SUBSET (1 .. DramUppers), waiters : SUBSET (DOMAIN own)] :
        Informs(own, e)}

Tied(own, c) ==
    /\ \A k \in Slots("RQ") : c.RQ[k].used => Informs(own, c.RQ[k])
    /\ \A k \in Slots("WQ") : c.WQ[k].used => c.WQ[k].waiters = {} /\ c.WQ[k].to = {}

\* A step of a channel loses no request that waits, and doubles none.
Owes(s, t) ==
    \A own : Tied(own, s.c) /\ s.out \in Seq(Answers(own)) =>
        /\ Tied(own, t.c) /\ t.out \in Seq(Answers(own))
        /\ \A w : /\ NoneHas(s, w) => NoneHas(t, w)
                  /\ OneHas(s, w) => OneHas(t, w)

LEMMA OwesSame == \A s : Owes(s, s)
BY DEF Owes

LEMMA OwesOn == \A s, t, u : Owes(s, t) /\ Owes(t, u) => Owes(s, u)
BY DEF Owes

\* Two slots with the same request, or free both
SameEntry(d, e) == /\ d.used = e.used
                   /\ d.used => d.waiters = e.waiters /\ d.to = e.to

\* Nothing but times, marks and writes to come changes.
LEMMA OwesSameEntries ==
    ASSUME NEW s, NEW t, t.out = s.out,
           \A k \in Slots("RQ") : SameEntry(t.c.RQ[k], s.c.RQ[k]),
           \A k \in Slots("WQ") : t.c.WQ[k].used => SameEntry(t.c.WQ[k], s.c.WQ[k])
    PROVE  Owes(s, t)
<1>1. \A w : \A k \in Slots("RQ") : HoldsAt(t.c, w, k) <=> HoldsAt(s.c, w, k)
  BY DEF HoldsAt, SameEntry
<1>2. \A w : /\ NoneHeld(s.c, w) => NoneHeld(t.c, w)
             /\ OneHeld(s.c, w) => OneHeld(t.c, w)
  BY <1>1 DEF NoneHeld, OneHeld
<1>3. \A own : Tied(own, s.c) => Tied(own, t.c)
  BY DEF Tied, SameEntry, Informs
<1>. QED BY <1>2, <1>3 DEF Owes, NoneHas, OneHas

\* What a response that is appended adds
LEMMA AppendWaits ==
    ASSUME NEW E, NEW q \in Seq(E), NEW e \in E, NEW w
    PROVE  /\ w \notin e.waiters => /\ NoneIn(q, w) => NoneIn(Append(q, e), w)
                                    /\ OneIn(q, w) => OneIn(Append(q, e), w)
           /\ w \in e.waiters /\ NoneIn(q, w) => OneIn(Append(q, e), w)
<1>. DEFINE t == Append(q, e)
            n == Len(q)
<1>1. /\ n \in Nat /\ DOMAIN q = 1 .. n /\ DOMAIN t = 1 .. n + 1
      /\ t[n + 1] = e /\ \A k \in 1 .. n : t[k] = q[k]
  BY AppendProperties, LenProperties
<1>. HIDE DEF t, n
<1>2. \A k \in 1 .. n + 1 : k \in 1 .. n \/ k = n + 1
  BY <1>1
<1>3. n + 1 \in 1 .. n + 1 /\ n + 1 \notin 1 .. n /\ \A k \in 1 .. n : k \in 1 .. n + 1
  BY <1>1
<1>4. w \notin e.waiters /\ NoneIn(q, w) => NoneIn(t, w)
  BY <1>1, <1>2 DEF NoneIn
<1>5. w \notin e.waiters /\ OneIn(q, w) => OneIn(t, w)
  BY <1>1, <1>2, <1>3 DEF OneIn
<1>6. w \in e.waiters /\ NoneIn(q, w) => OneIn(t, w)
  BY <1>1, <1>2, <1>3 DEF NoneIn, OneIn
<1>. QED BY <1>4, <1>5, <1>6 DEF t

\* The request in slot k of the RQ is answered and freed.
LEMMA OwesAnswer ==
    ASSUME NEW s, NEW t, IsState(s), NEW k \in Slots("RQ"), s.c.RQ[k].used, s.c.RQ[k].addr \in Nat,
           t.out = DramAnswer(s, s.c.RQ[k]).out,
           ~t.c.RQ[k].used,
           \A j \in Slots("RQ") : j # k => SameEntry(t.c.RQ[j], s.c.RQ[j]),
           \A j \in Slots("WQ") : t.c.WQ[j].used => SameEntry(t.c.WQ[j], s.c.WQ[j])
    PROVE  Owes(s, t)
<1>. SUFFICES ASSUME NEW own, Tied(own, s.c), s.out \in Seq(Answers(own))
              PROVE  /\ Tied(own, t.c) /\ t.out \in Seq(Answers(own))
                     /\ \A w : /\ NoneHas(s, w) => NoneHas(t, w)
                               /\ OneHas(s, w) => OneHas(t, w)
  BY DEF Owes
<1>. DEFINE e == [addr |-> s.c.RQ[k].addr, to |-> s.c.RQ[k].to, waiters |-> s.c.RQ[k].waiters]
<1>1. t.out = IF s.c.RQ[k].to = {} THEN s.out ELSE Append(s.out, e)
  BY DEF DramAnswer, IsState
<1>2. Informs(own, s.c.RQ[k])
  BY DEF Tied
<1>3. e \in Answers(own) /\ e.waiters = s.c.RQ[k].waiters
  BY <1>2 DEF Answers, Informs
<1>. HIDE DEF e
<1>4. Tied(own, t.c)
  BY DEF Tied, SameEntry, Informs
<1>5. t.out \in Seq(Answers(own))
  BY <1>1, <1>3, AppendProperties
<1>6. s.c.RQ[k].to = {} => s.c.RQ[k].waiters = {}
  BY <1>2 DEF Informs
<1>7. ASSUME NEW w
      PROVE  /\ w \notin e.waiters => /\ NoneIn(s.out, w) => NoneIn(t.out, w)
                                      /\ OneIn(s.out, w) => OneIn(t.out, w)
             /\ w \in e.waiters /\ NoneIn(s.out, w) => OneIn(t.out, w)
  BY <1>1, <1>3, <1>6, AppendWaits
<1>8. ASSUME NEW w
      PROVE  /\ HoldsAt(s.c, w, k) <=> w \in e.waiters
             /\ ~HoldsAt(t.c, w, k)
             /\ \A j \in Slots("RQ") : j # k => (HoldsAt(t.c, w, j) <=> HoldsAt(s.c, w, j))
  BY <1>3 DEF HoldsAt, SameEntry
<1>9. ASSUME NEW w
      PROVE  /\ NoneHas(s, w) => NoneHas(t, w)
             /\ OneHas(s, w) => OneHas(t, w)
  <2>1. CASE w \in e.waiters
    <3>1. ~NoneHeld(s.c, w)
      BY <1>8, <2>1 DEF NoneHeld
    <3>2. OneHeld(s.c, w) => NoneHeld(t.c, w)
      BY <1>8, <2>1 DEF OneHeld, NoneHeld
    <3>. QED BY <1>7, <2>1, <3>1, <3>2 DEF NoneHas, OneHas
  <2>2. CASE w \notin e.waiters
    <3>1. NoneHeld(s.c, w) => NoneHeld(t.c, w)
      BY <1>8, <2>2 DEF NoneHeld
    <3>2. OneHeld(s.c, w) => OneHeld(t.c, w)
      BY <1>8, <2>2 DEF OneHeld
    <3>. QED BY <1>7, <2>2, <3>1, <3>2 DEF NoneHas, OneHas
  <2>. QED BY <2>1, <2>2
<1>. QED BY <1>4, <1>5, <1>9

\* The request in slot i of the RQ joins that in slot j.
LEMMA OwesJoin ==
    ASSUME NEW s, NEW t, NEW i \in Slots("RQ"), NEW j \in Slots("RQ"), i # j,
           s.c.RQ[i].used, s.c.RQ[j].used, t.out = s.out,
           ~t.c.RQ[i].used, t.c.RQ[j].used,
           t.c.RQ[j].waiters = s.c.RQ[j].waiters \cup s.c.RQ[i].waiters,
           t.c.RQ[j].to = s.c.RQ[j].to \cup s.c.RQ[i].to,
           \A k \in Slots("RQ") : k # i /\ k # j => SameEntry(t.c.RQ[k], s.c.RQ[k]),
           \A k \in Slots("WQ") : t.c.WQ[k].used => SameEntry(t.c.WQ[k], s.c.WQ[k])
    PROVE  Owes(s, t)
<1>. SUFFICES ASSUME NEW own, Tied(own, s.c), s.out \in Seq(Answers(own))
              PROVE  /\ Tied(own, t.c)
                     /\ \A w : /\ NoneHas(s, w) => NoneHas(t, w)
                               /\ OneHas(s, w) => OneHas(t, w)
  BY DEF Owes
<1>1. Informs(own, s.c.RQ[i]) /\ Informs(own, s.c.RQ[j])
  BY DEF Tied
<1>2. Informs(own, t.c.RQ[j])
  BY <1>1 DEF Informs
<1>3. Tied(own, t.c)
  <2>1. \A k \in Slots("RQ") : t.c.RQ[k].used => Informs(own, t.c.RQ[k])
    BY <1>2 DEF Tied, SameEntry, Informs
  <2>2. \A k \in Slots("WQ") : t.c.WQ[k].used => t.c.WQ[k].waiters = {} /\ t.c.WQ[k].to = {}
    BY DEF Tied, SameEntry
  <2>. QED BY <2>1, <2>2 DEF Tied
<1>4. ASSUME NEW w
      PROVE  /\ ~HoldsAt(t.c, w, i)
             /\ HoldsAt(t.c, w, j) <=> HoldsAt(s.c, w, i) \/ HoldsAt(s.c, w, j)
             /\ \A k \in Slots("RQ") : k # i /\ k # j =>
                    (HoldsAt(t.c, w, k) <=> HoldsAt(s.c, w, k))
  BY DEF HoldsAt, SameEntry
<1>5. ASSUME NEW w
      PROVE  /\ NoneHeld(s.c, w) => NoneHeld(t.c, w)
             /\ OneHeld(s.c, w) => OneHeld(t.c, w)
  <2>1. NoneHeld(s.c, w) => NoneHeld(t.c, w)
    BY <1>4 DEF NoneHeld
  <2>2. OneHeld(s.c, w) => OneHeld(t.c, w)
    BY <1>4 DEF OneHeld
  <2>. QED BY <2>1, <2>2
<1>. QED BY <1>3, <1>5 DEF NoneHas, OneHas

-----------------------------------------------------------------------------
(* CheckCollisions: two loops over the slots                               *)

SettledTo(q, n, k) == \A j \in 1 .. n : j <= k /\ q[j].used => q[j].checked

WriteCheckStep(par, s, i) == CheckWrite(s, i)

WriteCheckInv(par, k, s) ==
    /\ IsState(s) /\ ShapeOK(par.n, s.c)
    /\ GivenKept(par.n, par.s.c, s.c) /\ Shrinks(par.s.c, s.c) /\ Owes(par.s, s)
    /\ SettledTo(s.c.WQ, WqSlots, k)

WriteCheckLoop == INSTANCE FoldInduction WITH Op <- WriteCheckStep, Inv <- WriteCheckInv

ReadCheckStep(par, s, i) == CheckRead(s, i)

ReadCheckInv(par, k, s) ==
    /\ IsState(s) /\ ShapeOK(par.n, s.c)
    /\ GivenKept(par.n, par.s.c, s.c) /\ Shrinks(par.s.c, s.c) /\ Owes(par.s, s)
    /\ s.c.WQ = par.s.c.WQ /\ SettledTo(s.c.RQ, RqSlots, k)

ReadCheckLoop == INSTANCE FoldInduction WITH Op <- ReadCheckStep, Inv <- ReadCheckInv

WithQueue(s, m, q) == [s EXCEPT !.c[m] = q]

\* A queue replaced in a state
QueueReplaced(n, s, m, q, t) ==
    /\ IsState(t) /\ ShapeOK(n, t.c)
    /\ GivenKept(n, s.c, t.c) /\ Shrinks(s.c, t.c)
    /\ t.c[m] = q /\ \A x \in Modes : x # m => t.c[x] = s.c[x]
    /\ t.out = s.out

LEMMA StateQueueSet ==
    ASSUME NEW n, NEW s, IsState(s), ShapeOK(n, s.c), NEW m \in Modes, NEW q,
           QueueKept(n, s.c, m, q), \A i \in Slots(m) : q[i].used => s.c[m][i].used
    PROVE  QueueReplaced(n, s, m, q, WithQueue(s, m, q))
<1>. DEFINE t == WithQueue(s, m, q)
<1>1. IsState(t) /\ t.c = [s.c EXCEPT ![m] = q] /\ t.out = s.out
  BY DEF IsState, WithQueue
<1>. HIDE DEF t
<1>2. GivenKept(n, s.c, t.c) /\ Shrinks(s.c, t.c)
  BY <1>1, QueueSet
<1>3. t.c[m] = q /\ \A x \in Modes : x # m => t.c[x] = s.c[x]
  BY <1>1 DEF ShapeOK, Modes
<1>4. ShapeOK(n, t.c)
  BY <1>2 DEF ShapeOK, GivenKept
<1>5. QueueReplaced(n, s, m, q, t)
  BY <1>1, <1>2, <1>3, <1>4 DEF QueueReplaced
<1>. QED BY <1>5 DEF t

WriteSettled(n, s, i, t) ==
    /\ IsState(t) /\ ShapeOK(n, t.c)
    /\ GivenKept(n, s.c, t.c) /\ Shrinks(s.c, t.c) /\ Owes(s, t)
    /\ t.c.WQ[i].used => t.c.WQ[i].checked
    /\ \A j \in 1 .. WqSlots : j # i => t.c.WQ[j] = s.c.WQ[j]

\* One turn of check_write_collision's loop: a write is dropped for another of its
\* block, or settled.
LEMMA WriteChecked ==
    ASSUME NEW n, NEW s, IsState(s), ShapeOK(n, s.c), NEW i \in 1 .. WqSlots
    PROVE  WriteSettled(n, s, i, CheckWrite(s, i))
<1>. DEFINE q == s.c.WQ
            t == CheckWrite(s, i)
<1>. SUFFICES /\ IsState(t) /\ ShapeOK(n, t.c)
              /\ GivenKept(n, s.c, t.c) /\ Shrinks(s.c, t.c) /\ Owes(s, t)
              /\ t.c.WQ[i].used => t.c.WQ[i].checked
              /\ \A j \in 1 .. WqSlots : j # i => t.c.WQ[j] = s.c.WQ[j]
  BY DEF WriteSettled
<1>t. t = CheckWrite(s, i)
  OBVIOUS
<1>. HIDE DEF t
<1>0. "WQ" \in Modes /\ Slots("WQ") = 1 .. WqSlots /\ i \in Slots("WQ")
  BY DramConstants DEF Modes
<1>1. DOMAIN q = 1 .. WqSlots /\ SlotOK(n, q[i])
  BY <1>0 DEF ShapeOK
<1>2. CASE ~Unsettled(q, i)
  <2>1. t = s
    BY <1>2, <1>t DEF CheckWrite
  <2>2. q[i].used => q[i].checked
    BY <1>1, <1>2 DEF Unsettled, SlotOK
  <2>. QED BY <2>1, <2>2, GivenKeptSame, OwesSame
<1>3. CASE Unsettled(q, i)
  <2>1. q[i].used /\ ~q[i].checked /\ ~q[i].scheduled /\ ~Given(s.c, "WQ", i)
    BY <1>1, <1>3 DEF Unsettled, SlotOK, Given
  <2>2. PICK e : /\ t = [s EXCEPT !.c["WQ"] = [q EXCEPT ![i] = e]]
                 /\ SlotOK(n, e) /\ ~(e.used /\ e.scheduled) /\ (e.used => e.checked)
                 /\ e.used => SameEntry(e, q[i])
    <3>1. CASE Twin(q, i) # 0
      <4>1. t = [s EXCEPT !.c["WQ"] = [q EXCEPT ![i] = Free]]
        BY <1>3, <3>1, <1>t DEF CheckWrite
      <4>. QED BY <4>1, FreeSlotOK
    <3>2. CASE ~(Twin(q, i) # 0)
      <4>. DEFINE e == [q[i] EXCEPT !.checked = TRUE]
      <4>1. t = [s EXCEPT !.c["WQ"] = [q EXCEPT ![i] = e]]
        BY <1>3, <3>2, <1>t DEF CheckWrite
      <4>2. SlotOK(n, e) /\ ~e.scheduled /\ e.checked
        BY <1>1, <2>1 DEF SlotOK
      <4>3. SameEntry(e, q[i])
        BY <1>1, <2>1 DEF SlotOK, SameEntry
      <4>. HIDE DEF e
      <4>. QED BY <4>1, <4>2, <4>3
    <3>. QED BY <3>1, <3>2
  <2>. DEFINE r == [q EXCEPT ![i] = e]
  <2>3. r[i] = e /\ \A j \in 1 .. WqSlots : j # i => r[j] = q[j]
    BY <1>1
  <2>4. QueueKept(n, s.c, "WQ", r)
    BY <1>0, <2>1, <2>2, SlotSet
  <2>5. \A j \in Slots("WQ") : r[j].used => s.c["WQ"][j].used
    BY <1>0, <2>1, <2>3
  <2>. HIDE DEF r
  <2>6. /\ IsState(t) /\ ShapeOK(n, t.c)
        /\ GivenKept(n, s.c, t.c) /\ Shrinks(s.c, t.c) /\ t.c["WQ"] = r
        /\ t.out = s.out /\ t.c["RQ"] = s.c["RQ"]
    <3>1. t = WithQueue(s, "WQ", r)
      BY <2>2 DEF r, WithQueue
    <3>2. PICK m \in Modes : m = "WQ"
      BY <1>0
    <3>3. t = WithQueue(s, m, r)
      BY <3>1, <3>2
    <3>4. QueueKept(n, s.c, m, r) /\ \A j \in Slots(m) : r[j].used => s.c[m][j].used
      BY <2>4, <2>5, <3>2
    <3>5. /\ IsState(t) /\ ShapeOK(n, t.c)
          /\ GivenKept(n, s.c, t.c) /\ Shrinks(s.c, t.c) /\ t.c[m] = r
          /\ t.out = s.out /\ \A x \in Modes : x # m => t.c[x] = s.c[x]
      <4>1. QueueReplaced(n, s, m, r, t)
        BY <3>3, <3>4, StateQueueSet
      <4>. QED BY <4>1 DEF QueueReplaced
    <3>6. "RQ" \in Modes
      BY DEF Modes
    <3>. QED BY <3>2, <3>5, <3>6
  <2>7. Owes(s, t)
    <3>1. \A k \in Slots("RQ") : SameEntry(t.c.RQ[k], s.c.RQ[k])
      BY <2>6 DEF SameEntry
    <3>2. \A k \in Slots("WQ") : t.c.WQ[k].used => SameEntry(t.c.WQ[k], s.c.WQ[k])
      BY <1>0, <2>2, <2>3, <2>6 DEF SameEntry
    <3>. QED BY <2>6, <3>1, <3>2, OwesSameEntries
  <2>. QED BY <2>2, <2>3, <2>6, <2>7
<1>. QED BY <1>2, <1>3

LEMMA TwinIs ==
    ASSUME NEW q, DOMAIN q \subseteq Nat \ {0}, NEW i \in DOMAIN q, Twin(q, i) # 0
    PROVE  Twin(q, i) \in DOMAIN q /\ q[Twin(q, i)].used /\ Twin(q, i) # i
<1>1. ASSUME NEW S \in SUBSET (DOMAIN q), NEW b, b = SameBlockIn(q, q[i], S), b # 0
      PROVE  b \in S /\ b \in DOMAIN q /\ q[b].used
  <2>. DEFINE T == {j \in S \cap Used(q) : Overlaps(q[j], q[i], ReadUnit)}
  <2>1. b = First(T) /\ T \in SUBSET Nat
    BY <1>1 DEF SameBlockIn
  <2>2. T \subseteq S /\ \A j \in T : j \in DOMAIN q /\ q[j].used
    BY DEF Used
  <2>. HIDE DEF T
  <2>. QED BY <1>1, <2>1, <2>2, FirstOfSet
<1>2. Before(q, i) \in SUBSET (DOMAIN q) /\ i \notin Before(q, i)
  BY DEF Before
<1>3. After(q, i) \in SUBSET (DOMAIN q) /\ i \notin After(q, i)
  BY DEF After
<1>4. CASE SameBlockIn(q, q[i], Before(q, i)) # 0
  BY <1>1, <1>2, <1>4 DEF Twin
<1>5. CASE SameBlockIn(q, q[i], Before(q, i)) = 0
  BY <1>1, <1>3, <1>5 DEF Twin
<1>. QED BY <1>4, <1>5

\* What joining slot i to slot j makes of the RQ
JoinedIn(n, c, i, j, q) ==
    /\ QueueKept(n, c, "RQ", q)
    /\ \A k \in Slots("RQ") : q[k].used => c.RQ[k].used
    /\ ~q[i].used
    /\ \A k \in Slots("RQ") : k # i /\ q[k].used => q[k].checked = c.RQ[k].checked
    /\ q[j].used /\ q[j].waiters = c.RQ[j].waiters \cup c.RQ[i].waiters
    /\ q[j].to = c.RQ[j].to \cup c.RQ[i].to
    /\ \A k \in Slots("RQ") : k # i /\ k # j => q[k] = c.RQ[k]

\* Joined to another slot, a request leaves its own; the other slot stays what it was.
LEMMA JoinedKept ==
    ASSUME NEW n, NEW c, ShapeOK(n, c), NEW i \in Slots("RQ"), NEW j \in Slots("RQ"), i # j,
           ~Given(c, "RQ", i), c.RQ[j].used, NEW q, q = JoinedTo(c.RQ, i, j)
    PROVE  JoinedIn(n, c, i, j, q)
<1>1. DOMAIN c.RQ = Slots("RQ") /\ \A k \in Slots("RQ") : SlotOK(n, c.RQ[k])
  BY DEF ShapeOK, Modes
<1>. DEFINE e == [[c.RQ[j] EXCEPT !.waiters = @ \cup c.RQ[i].waiters] EXCEPT !.to = @ \cup c.RQ[i].to]
<1>2. /\ DOMAIN q = Slots("RQ") /\ q[i] = Free /\ q[j] = e
      /\ \A k \in Slots("RQ") : k # i /\ k # j => q[k] = c.RQ[k]
  BY <1>1 DEF JoinedTo
<1>3. /\ e.used = c.RQ[j].used /\ e.scheduled = c.RQ[j].scheduled /\ e.addr = c.RQ[j].addr
      /\ e.checked = c.RQ[j].checked /\ DOMAIN e = DOMAIN c.RQ[j]
      /\ e.waiters = c.RQ[j].waiters \cup c.RQ[i].waiters
      /\ e.to = c.RQ[j].to \cup c.RQ[i].to
  BY <1>1 DEF SlotOK
<1>. HIDE DEF e
<1>4. SlotOK(n, e)
  BY <1>1, <1>3 DEF SlotOK
<1>5. QueueKept(n, c, "RQ", q)
  <2>1. \A k \in Slots("RQ") : SlotOK(n, q[k])
    BY <1>1, <1>2, <1>4, FreeSlotOK
  <2>2. \A k \in Slots("RQ") : (q[k].used /\ q[k].scheduled) <=> Given(c, "RQ", k)
    BY <1>1, <1>2, <1>3, FreeSlotOK DEF Given
  <2>3. \A k \in Slots("RQ") : Given(c, "RQ", k) => q[k].addr = c.RQ[k].addr
    BY <1>2, <1>3
  <2>. QED BY <1>2, <2>1, <2>2, <2>3 DEF QueueKept
<1>. QED BY <1>2, <1>3, <1>5, FreeSlotOK DEF JoinedIn

\* How r and out come of the RQ and the responses of s: the request in slot i is answered,
\* joins another, or stays.
ReadMoved(s, i, r, out) ==
    \/ /\ out = DramAnswer(s, s.c.RQ[i]).out /\ ~r[i].used
       /\ \A k \in Slots("RQ") : k # i => r[k] = s.c.RQ[k]
    \/ /\ out = s.out /\ ~r[i].used
       /\ \E j \in Slots("RQ") :
            /\ j # i /\ s.c.RQ[j].used /\ r[j].used
            /\ r[j].waiters = s.c.RQ[j].waiters \cup s.c.RQ[i].waiters
            /\ r[j].to = s.c.RQ[j].to \cup s.c.RQ[i].to
            /\ \A k \in Slots("RQ") : k # i /\ k # j => r[k] = s.c.RQ[k]
    \/ /\ out = s.out
       /\ \A k \in Slots("RQ") : SameEntry(r[k], s.c.RQ[k])

LEMMA MovedOwes ==
    ASSUME NEW n, NEW s, IsState(s), ShapeOK(n, s.c), NEW i \in Slots("RQ"), s.c.RQ[i].used,
           NEW t, ReadMoved(s, i, t.c.RQ, t.out), t.c.WQ = s.c.WQ
    PROVE  Owes(s, t)
<1>1. \A k \in Slots("WQ") : t.c.WQ[k].used => SameEntry(t.c.WQ[k], s.c.WQ[k])
  BY DEF SameEntry
<1>2. s.c.RQ[i].addr \in Nat
  BY DEF ShapeOK, SlotOK, Modes
<1>3. CASE /\ t.out = DramAnswer(s, s.c.RQ[i]).out /\ ~t.c.RQ[i].used
           /\ \A k \in Slots("RQ") : k # i => t.c.RQ[k] = s.c.RQ[k]
  <2>1. \A k \in Slots("RQ") : k # i => SameEntry(t.c.RQ[k], s.c.RQ[k])
    BY <1>3 DEF SameEntry
  <2>. QED BY <1>1, <1>2, <1>3, <2>1, OwesAnswer
<1>4. CASE /\ t.out = s.out /\ ~t.c.RQ[i].used
           /\ \E j \in Slots("RQ") :
                /\ j # i /\ s.c.RQ[j].used /\ t.c.RQ[j].used
                /\ t.c.RQ[j].waiters = s.c.RQ[j].waiters \cup s.c.RQ[i].waiters
                /\ t.c.RQ[j].to = s.c.RQ[j].to \cup s.c.RQ[i].to
                /\ \A k \in Slots("RQ") : k # i /\ k # j => t.c.RQ[k] = s.c.RQ[k]
  <2>1. PICK j \in Slots("RQ") :
                /\ j # i /\ s.c.RQ[j].used /\ t.c.RQ[j].used
                /\ t.c.RQ[j].waiters = s.c.RQ[j].waiters \cup s.c.RQ[i].waiters
                /\ t.c.RQ[j].to = s.c.RQ[j].to \cup s.c.RQ[i].to
                /\ \A k \in Slots("RQ") : k # i /\ k # j => t.c.RQ[k] = s.c.RQ[k]
    BY <1>4
  <2>2. \A k \in Slots("RQ") : k # i /\ k # j => SameEntry(t.c.RQ[k], s.c.RQ[k])
    BY <2>1 DEF SameEntry
  <2>. QED BY <1>1, <1>4, <2>1, <2>2, OwesJoin
<1>5. CASE t.out = s.out /\ \A k \in Slots("RQ") : SameEntry(t.c.RQ[k], s.c.RQ[k])
  BY <1>1, <1>5, OwesSameEntries
<1>. QED BY <1>3, <1>4, <1>5 DEF ReadMoved

ReadSettled(n, s, i, t) ==
    /\ IsState(t) /\ ShapeOK(n, t.c)
    /\ GivenKept(n, s.c, t.c) /\ Shrinks(s.c, t.c) /\ t.c.WQ = s.c.WQ /\ Owes(s, t)
    /\ t.c.RQ[i].used => t.c.RQ[i].checked
    /\ \A j \in 1 .. RqSlots : j # i /\ t.c.RQ[j].used =>
         s.c.RQ[j].used /\ t.c.RQ[j].checked = s.c.RQ[j].checked

\* One turn of check_read_collision's loop: a read is answered from a write, merged
\* into another read, or settled.
LEMMA ReadChecked ==
    ASSUME NEW n, NEW s, IsState(s), ShapeOK(n, s.c), NEW i \in 1 .. RqSlots
    PROVE  ReadSettled(n, s, i, CheckRead(s, i))
<1>. DEFINE q == s.c.RQ
            t == CheckRead(s, i)
<1>. SUFFICES /\ IsState(t) /\ ShapeOK(n, t.c)
              /\ GivenKept(n, s.c, t.c) /\ Shrinks(s.c, t.c) /\ t.c.WQ = s.c.WQ /\ Owes(s, t)
              /\ t.c.RQ[i].used => t.c.RQ[i].checked
              /\ \A j \in 1 .. RqSlots : j # i /\ t.c.RQ[j].used =>
                    s.c.RQ[j].used /\ t.c.RQ[j].checked = s.c.RQ[j].checked
  BY DEF ReadSettled
<1>t. t = CheckRead(s, i)
  OBVIOUS
<1>. HIDE DEF t
<1>0. "RQ" \in Modes /\ Slots("RQ") = 1 .. RqSlots /\ i \in Slots("RQ") /\ "WQ" \in Modes
  BY DramConstants DEF Modes
<1>1. DOMAIN q = 1 .. RqSlots /\ SlotOK(n, q[i])
  BY <1>0 DEF ShapeOK
<1>2. CASE ~Unsettled(q, i)
  <2>1. t = s
    BY <1>2, <1>t DEF CheckRead
  <2>2. q[i].used => q[i].checked
    BY <1>1, <1>2 DEF Unsettled, SlotOK
  <2>. QED BY <2>1, <2>2, GivenKeptSame, OwesSame
<1>3. CASE Unsettled(q, i)
  <2>1. q[i].used /\ ~q[i].checked /\ ~q[i].scheduled /\ ~Given(s.c, "RQ", i)
    BY <1>1, <1>3 DEF Unsettled, SlotOK, Given
  <2>2. PICK u, r : /\ t = WithQueue(u, "RQ", r) /\ IsState(u) /\ u.c = s.c
                    /\ QueueKept(n, s.c, "RQ", r)
                    /\ \A k \in Slots("RQ") : r[k].used => q[k].used
                    /\ r[i].used => r[i].checked
                    /\ \A k \in Slots("RQ") : k # i /\ r[k].used => r[k].checked = q[k].checked
                    /\ ReadMoved(s, i, r, u.out)
    <3>1. CASE SameBlockIn(s.c.WQ, q[i], DOMAIN s.c.WQ) # 0
      <4>. DEFINE u == DramAnswer(s, q[i])
                  r == [q EXCEPT ![i] = Free]
      <4>1. IsState(u) /\ u.c = s.c
        BY DEF IsState, DramAnswer
      <4>2. t = WithQueue(u, "RQ", r)
        <5>1. t = [u EXCEPT !.c.RQ[i] = Free]
          BY <1>3, <3>1, <1>t DEF CheckRead
        <5>. HIDE DEF u
        <5>. QED BY <4>1, <5>1 DEF WithQueue
      <4>3. QueueKept(n, s.c, "RQ", r)
        BY <1>0, <2>1, FreeSlotOK, SlotSet
      <4>4. r[i] = Free /\ \A k \in Slots("RQ") : k # i => r[k] = q[k]
        BY <1>0, <1>1
      <4>5. ReadMoved(s, i, r, u.out)
        <5>. HIDE DEF r
        <5>. QED BY <4>4, FreeSlotOK DEF ReadMoved
      <4>. HIDE DEF u, r
      <4>. QED BY <2>1, <4>1, <4>2, <4>3, <4>4, <4>5, FreeSlotOK
    <3>2. CASE SameBlockIn(s.c.WQ, q[i], DOMAIN s.c.WQ) = 0 /\ Twin(q, i) # 0
      <4>. DEFINE j == Twin(q, i)
                  r == JoinedTo(q, i, j)
      <4>1. j \in Slots("RQ") /\ q[j].used /\ i # j
        <5>1. DOMAIN q \subseteq Nat \ {0} /\ i \in DOMAIN q
          BY <1>1, DramConstants
        <5>. HIDE DEF q
        <5>. QED BY <1>0, <1>1, <3>2, <5>1, TwinIs
      <4>2. t = WithQueue(s, "RQ", r)
        BY <1>3, <3>2, <1>t DEF CheckRead, WithQueue
      <4>. HIDE DEF r, j
      <4>3. /\ QueueKept(n, s.c, "RQ", r)
            /\ \A k \in Slots("RQ") : r[k].used => q[k].used
            /\ ~r[i].used
            /\ \A k \in Slots("RQ") : k # i /\ r[k].used => r[k].checked = q[k].checked
            /\ r[j].used /\ r[j].waiters = q[j].waiters \cup q[i].waiters
            /\ r[j].to = q[j].to \cup q[i].to
            /\ \A k \in Slots("RQ") : k # i /\ k # j => r[k] = q[k]
        <5>1. JoinedIn(n, s.c, i, j, r)
          BY <1>0, <2>1, <4>1, JoinedKept DEF r
        <5>. QED BY <5>1 DEF JoinedIn
      <4>4. ReadMoved(s, i, r, s.out)
        BY <4>1, <4>3 DEF ReadMoved
      <4>. QED BY <4>2, <4>3, <4>4
    <3>3. CASE SameBlockIn(s.c.WQ, q[i], DOMAIN s.c.WQ) = 0 /\ Twin(q, i) = 0
      <4>. DEFINE e == [q[i] EXCEPT !.checked = TRUE]
                  r == [q EXCEPT ![i] = e]
      <4>1. t = WithQueue(s, "RQ", r)
        BY <1>3, <3>3, <1>t DEF CheckRead, WithQueue
      <4>2. SlotOK(n, e) /\ ~e.scheduled /\ e.checked
        BY <1>1, <2>1 DEF SlotOK
      <4>. HIDE DEF e
      <4>3. QueueKept(n, s.c, "RQ", r)
        BY <1>0, <2>1, <4>2, SlotSet
      <4>4. r[i] = e /\ \A k \in Slots("RQ") : k # i => r[k] = q[k]
        BY <1>0, <1>1
      <4>. HIDE DEF r
      <4>5. SameEntry(e, q[i])
        BY <1>1, <2>1 DEF SlotOK, SameEntry, e
      <4>6. \A k \in Slots("RQ") : SameEntry(r[k], q[k])
        BY <4>4, <4>5 DEF SameEntry
      <4>7. ReadMoved(s, i, r, s.out)
        BY <4>6 DEF ReadMoved
      <4>. QED BY <2>1, <4>1, <4>2, <4>3, <4>4, <4>7
    <3>. QED BY <3>1, <3>2, <3>3
  <2>3. PICK m \in Modes : m = "RQ"
    BY <1>0
  <2>4. /\ t = WithQueue(u, m, r) /\ QueueKept(n, u.c, m, r)
        /\ \A k \in Slots(m) : r[k].used => u.c[m][k].used
    BY <2>2, <2>3
  <2>5. /\ IsState(t) /\ ShapeOK(n, t.c) /\ GivenKept(n, u.c, t.c) /\ Shrinks(u.c, t.c)
        /\ t.c[m] = r /\ \A x \in Modes : x # m => t.c[x] = u.c[x]
        /\ t.out = u.out
    <3>1. IsState(u) /\ ShapeOK(n, u.c)
      BY <2>2
    <3>2. QueueReplaced(n, u, m, r, t)
      BY <2>4, <3>1, StateQueueSet
    <3>. QED BY <3>2 DEF QueueReplaced
  <2>6. t.c.RQ = r /\ t.c.WQ = s.c.WQ
    BY <1>0, <2>2, <2>3, <2>5
  <2>7. Owes(s, t)
    <3>1. ReadMoved(s, i, t.c.RQ, t.out)
      BY <2>2, <2>5, <2>6
    <3>. QED BY <1>0, <2>1, <2>6, <3>1, MovedOwes
  <2>. QED BY <1>0, <2>2, <2>5, <2>6, <2>7
<1>. QED BY <1>2, <1>3

LEMMA WritesChecked ==
    ASSUME NEW n, NEW s, IsState(s), ShapeOK(n, s.c),
           NEW t, t = FoldLeft(CheckWrite, s, [i \in 1 .. WqSlots |-> i])
    PROVE  /\ IsState(t) /\ ShapeOK(n, t.c)
           /\ GivenKept(n, s.c, t.c) /\ Shrinks(s.c, t.c) /\ Owes(s, t)
           /\ SettledTo(t.c.WQ, WqSlots, WqSlots)
<1>. DEFINE par == [n |-> n, s |-> s]
            q   == [i \in 1 .. WqSlots |-> i]
<1>1. t = WriteCheckLoop!Fold(par, s, q)
  BY DEF WriteCheckLoop!Fold, WriteCheckStep, FoldLeft, WriteCheckLoop!FoldLeft,
         MapThenFoldSet, WriteCheckLoop!MapThenFoldSet, Max, WriteCheckLoop!Max
<1>2. q \in Seq(Nat) /\ Len(q) = WqSlots /\ \A k \in 1 .. WqSlots : q[k] = k
  BY DramConstants
<1>3. par.n = n /\ par.s = s
  OBVIOUS
<1>. HIDE DEF par, q
<1>4. WriteCheckInv(par, 0, s)
  BY <1>3, GivenKeptSame, OwesSame DEF WriteCheckInv, SettledTo
<1>5. WriteCheckLoop!Keeps(par, q)
  <2>. SUFFICES ASSUME NEW k \in 1 .. WqSlots, NEW x, WriteCheckInv(par, k - 1, x)
                PROVE  WriteCheckInv(par, k, CheckWrite(x, k))
    BY <1>2 DEF WriteCheckLoop!Keeps, WriteCheckStep
  <2>. DEFINE y == CheckWrite(x, k)
  <2>. HIDE DEF y
  <2>1. /\ IsState(x) /\ ShapeOK(n, x.c) /\ GivenKept(n, s.c, x.c) /\ Shrinks(s.c, x.c)
        /\ Owes(s, x)
        /\ \A j \in 1 .. WqSlots : j <= k - 1 /\ x.c.WQ[j].used => x.c.WQ[j].checked
    BY <1>3 DEF WriteCheckInv, SettledTo
  <2>2. /\ IsState(y) /\ ShapeOK(n, y.c) /\ GivenKept(n, x.c, y.c) /\ Shrinks(x.c, y.c)
        /\ Owes(x, y)
        /\ y.c.WQ[k].used => y.c.WQ[k].checked
        /\ \A j \in 1 .. WqSlots : j # k => y.c.WQ[j] = x.c.WQ[j]
    <3>1. WriteSettled(n, x, k, y)
      BY <2>1, WriteChecked DEF y
    <3>. QED BY <3>1 DEF WriteSettled
  <2>3. GivenKept(n, s.c, y.c) /\ Shrinks(s.c, y.c) /\ Owes(s, y)
    BY <2>1, <2>2, GivenKeptOn, OwesOn
  <2>4. ASSUME NEW j \in 1 .. WqSlots, j <= k, y.c.WQ[j].used PROVE y.c.WQ[j].checked
    <3>1. CASE j = k
      BY <2>2, <2>4, <3>1
    <3>2. CASE j # k
      <4>1. j <= k - 1
        BY <2>4, <3>2
      <4>. QED BY <2>1, <2>2, <2>4, <3>2, <4>1
    <3>. QED BY <3>1, <3>2
  <2>5. WriteCheckInv(par, k, y)
    BY <1>3, <2>2, <2>3, <2>4 DEF WriteCheckInv, SettledTo
  <2>. QED BY <2>5 DEF y
<1>6. WriteCheckInv(par, WqSlots, t)
  BY <1>1, <1>2, <1>4, <1>5, WriteCheckLoop!FoldKeeps
<1>. QED BY <1>3, <1>6 DEF WriteCheckInv

LEMMA ReadsChecked ==
    ASSUME NEW n, NEW s, IsState(s), ShapeOK(n, s.c),
           NEW t, t = FoldLeft(CheckRead, s, [i \in 1 .. RqSlots |-> i])
    PROVE  /\ IsState(t) /\ ShapeOK(n, t.c)
           /\ GivenKept(n, s.c, t.c) /\ Shrinks(s.c, t.c) /\ Owes(s, t)
           /\ t.c.WQ = s.c.WQ /\ SettledTo(t.c.RQ, RqSlots, RqSlots)
<1>. DEFINE par == [n |-> n, s |-> s]
            q   == [i \in 1 .. RqSlots |-> i]
<1>1. t = ReadCheckLoop!Fold(par, s, q)
  BY DEF ReadCheckLoop!Fold, ReadCheckStep, FoldLeft, ReadCheckLoop!FoldLeft,
         MapThenFoldSet, ReadCheckLoop!MapThenFoldSet, Max, ReadCheckLoop!Max
<1>2. q \in Seq(Nat) /\ Len(q) = RqSlots /\ \A k \in 1 .. RqSlots : q[k] = k
  BY DramConstants
<1>3. par.n = n /\ par.s = s
  OBVIOUS
<1>. HIDE DEF par, q
<1>4. ReadCheckInv(par, 0, s)
  BY <1>3, GivenKeptSame, OwesSame DEF ReadCheckInv, SettledTo
<1>5. ReadCheckLoop!Keeps(par, q)
  <2>. SUFFICES ASSUME NEW k \in 1 .. RqSlots, NEW x, ReadCheckInv(par, k - 1, x)
                PROVE  ReadCheckInv(par, k, CheckRead(x, k))
    BY <1>2 DEF ReadCheckLoop!Keeps, ReadCheckStep
  <2>. DEFINE y == CheckRead(x, k)
  <2>. HIDE DEF y
  <2>1. /\ IsState(x) /\ ShapeOK(n, x.c) /\ GivenKept(n, s.c, x.c) /\ Shrinks(s.c, x.c)
        /\ Owes(s, x)
        /\ x.c.WQ = s.c.WQ
        /\ \A j \in 1 .. RqSlots : j <= k - 1 /\ x.c.RQ[j].used => x.c.RQ[j].checked
    BY <1>3 DEF ReadCheckInv, SettledTo
  <2>2. /\ IsState(y) /\ ShapeOK(n, y.c) /\ GivenKept(n, x.c, y.c) /\ Shrinks(x.c, y.c)
        /\ Owes(x, y)
        /\ y.c.WQ = x.c.WQ
        /\ y.c.RQ[k].used => y.c.RQ[k].checked
        /\ \A j \in 1 .. RqSlots : j # k /\ y.c.RQ[j].used =>
                x.c.RQ[j].used /\ y.c.RQ[j].checked = x.c.RQ[j].checked
    <3>1. ReadSettled(n, x, k, y)
      BY <2>1, ReadChecked DEF y
    <3>. QED BY <3>1 DEF ReadSettled
  <2>3. GivenKept(n, s.c, y.c) /\ Shrinks(s.c, y.c) /\ Owes(s, y)
    BY <2>1, <2>2, GivenKeptOn, OwesOn
  <2>4. ASSUME NEW j \in 1 .. RqSlots, j <= k, y.c.RQ[j].used PROVE y.c.RQ[j].checked
    <3>1. CASE j = k
      BY <2>2, <2>4, <3>1
    <3>2. CASE j # k
      <4>1. j <= k - 1
        BY <2>4, <3>2
      <4>. QED BY <2>1, <2>2, <2>4, <3>2, <4>1
    <3>. QED BY <3>1, <3>2
  <2>5. ReadCheckInv(par, k, y)
    BY <1>3, <2>1, <2>2, <2>3, <2>4 DEF ReadCheckInv, SettledTo
  <2>. QED BY <2>5 DEF y
<1>6. ReadCheckInv(par, RqSlots, t)
  BY <1>1, <1>2, <1>4, <1>5, ReadCheckLoop!FoldKeeps
<1>. QED BY <1>3, <1>6 DEF ReadCheckInv

\* DRAM_CHANNEL::check_collision touches no request that a bank has, and leaves none
\* unchecked.
CollisionsChecked(n, s, t) ==
    IsState(t) /\ PartOfCycle(n, s.c, t.c) /\ AllSettled(t.c) /\ Owes(s, t)

\* check_collision leaves what a bank has, and all that is left settled.
LEMMA CheckCollisionsOK ==
    ASSUME NEW n, NEW s, IsState(s), DramChannelOK(n, s.c)
    PROVE  CollisionsChecked(n, s, CheckCollisions(s))
<1>. DEFINE w == FoldLeft(CheckWrite, s, [i \in 1 .. WqSlots |-> i])
            t == FoldLeft(CheckRead, w, [i \in 1 .. RqSlots |-> i])
<1>1. t = CheckCollisions(s)
  BY DEF CheckCollisions
<1>0. ShapeOK(n, s.c)
  BY DEF DramChannelOK
<1>2. /\ IsState(w) /\ ShapeOK(n, w.c) /\ GivenKept(n, s.c, w.c) /\ Shrinks(s.c, w.c)
      /\ Owes(s, w)
      /\ SettledTo(w.c.WQ, WqSlots, WqSlots)
  BY <1>0, WritesChecked
<1>3. /\ IsState(t) /\ ShapeOK(n, t.c) /\ GivenKept(n, w.c, t.c) /\ Shrinks(w.c, t.c)
      /\ Owes(w, t)
      /\ t.c.WQ = w.c.WQ /\ SettledTo(t.c.RQ, RqSlots, RqSlots)
  <2>. HIDE DEF w
  <2>. QED BY <1>2, ReadsChecked
<1>. HIDE DEF w, t
<1>4. GivenKept(n, s.c, t.c) /\ Shrinks(s.c, t.c)
  BY <1>2, <1>3, GivenKeptOn
<1>5. PartOfCycle(n, s.c, t.c)
  BY <1>4, GivenKeptPart
<1>6. AllSettled(t.c)
  <2>1. \A j \in 1 .. WqSlots : t.c.WQ[j].used => t.c.WQ[j].checked
    BY <1>2, <1>3 DEF SettledTo
  <2>2. \A j \in 1 .. RqSlots : t.c.RQ[j].used => t.c.RQ[j].checked
    BY <1>3 DEF SettledTo
  <2>. QED BY <2>1, <2>2, DramConstants DEF AllSettled, Modes
<1>7. CollisionsChecked(n, s, t)
  BY <1>2, <1>3, <1>5, <1>6, OwesOn DEF CollisionsChecked
<1>. QED BY <1>1, <1>7

-----------------------------------------------------------------------------
(* The warmup                                                              *)

WarmStep(par, a, e) == IF e.used THEN DramAnswer(a, e) ELSE a

\* s with the first k slots answered and freed, and the responses of a
AnsweredTo(s, k, a) ==
    [c   |-> [RQ |-> [i \in Slots("RQ") |-> IF i <= k THEN Free ELSE s.c.RQ[i]], WQ |-> s.c.WQ],
     out |-> a.out]

WarmInv(par, k, a) == IsState(a) /\ a.c = par.c /\ Owes(par, AnsweredTo(par, k, a))

WarmLoop == INSTANCE FoldInduction WITH Op <- WarmStep, Inv <- WarmInv

\* One turn of the warmup's loop answers the request of a slot.
LEMMA WarmAnswered ==
    ASSUME NEW n, NEW s, ShapeOK(n, s.c), NEW k \in 1 .. RqSlots, NEW a, WarmInv(s, k - 1, a)
    PROVE  WarmInv(s, k, WarmStep(s, a, s.c.RQ[k]))
<1>. DEFINE e == s.c.RQ[k]
            b == WarmStep(s, a, e)
            x == AnsweredTo(s, k - 1, a)
            y == AnsweredTo(s, k, b)
<1>0. IsState(a) /\ a.c = s.c /\ Owes(s, x)
  BY DEF WarmInv
<1>1. k \in Slots("RQ") /\ Slots("RQ") \subseteq Nat /\ k \in Nat
  BY DramConstants DEF Modes
<1>2. SlotOK(n, e)
  BY <1>1 DEF ShapeOK, Modes
<1>3. b = IF e.used THEN DramAnswer(a, e) ELSE a
  BY DEF WarmStep
<1>4. IsState(b) /\ b.c = s.c
  BY <1>0, <1>3 DEF IsState, DramAnswer
<1>5. /\ IsState(x) /\ x.out = a.out /\ x.c.WQ = s.c.WQ
      /\ \A i \in Slots("RQ") : x.c.RQ[i] = IF i <= k - 1 THEN Free ELSE s.c.RQ[i]
  BY DEF AnsweredTo, IsState
<1>6. /\ y.out = b.out /\ y.c.WQ = s.c.WQ
      /\ \A i \in Slots("RQ") : y.c.RQ[i] = IF i <= k THEN Free ELSE s.c.RQ[i]
  BY DEF AnsweredTo
<1>. HIDE DEF x, y, b
<1>7. x.c.RQ[k] = e /\ y.c.RQ[k] = Free /\ ~Free.used
  <2>1. k <= k /\ ~(k <= k - 1)
    BY <1>1
  <2>. QED BY <1>1, <1>5, <1>6, <2>1, FreeSlotOK
<1>8. \A i \in Slots("RQ") : i # k => y.c.RQ[i] = x.c.RQ[i]
  <2>1. \A i \in Slots("RQ") : i # k => (i <= k <=> i <= k - 1)
    BY <1>1
  <2>. QED BY <1>5, <1>6, <2>1
<1>9. \A i \in Slots("WQ") : y.c.WQ[i].used => SameEntry(y.c.WQ[i], x.c.WQ[i])
  BY <1>5, <1>6 DEF SameEntry
<1>10. \A i \in Slots("RQ") : i # k => SameEntry(y.c.RQ[i], x.c.RQ[i])
  BY <1>8 DEF SameEntry
<1>11. Owes(x, y)
  <2>1. CASE e.used
    <3>1. y.out = DramAnswer(x, x.c.RQ[k]).out
      <4>1. b.out = IF e.to = {} THEN a.out
                    ELSE Append(a.out, [addr |-> e.addr, to |-> e.to, waiters |-> e.waiters])
        BY <1>0, <1>3, <2>1 DEF DramAnswer, IsState
      <4>. HIDE DEF e
      <4>. QED BY <1>5, <1>6, <1>7, <4>1 DEF DramAnswer, IsState
    <3>2. x.c.RQ[k].used /\ x.c.RQ[k].addr \in Nat
      BY <1>2, <1>7, <2>1 DEF SlotOK
    <3>3. ~y.c.RQ[k].used
      BY <1>7
    <3>. QED BY <1>1, <1>5, <1>9, <1>10, <3>1, <3>2, <3>3, OwesAnswer
  <2>2. CASE ~e.used
    <3>1. SameEntry(y.c.RQ[k], x.c.RQ[k])
      <4>1. Free.used = FALSE
        BY DEF Free
      <4>2. e.used = FALSE
        BY <1>2, <2>2 DEF SlotOK
      <4>. QED BY <1>7, <4>1, <4>2 DEF SameEntry
    <3>2. y.out = x.out
      BY <1>3, <1>5, <1>6, <2>2
    <3>. QED BY <1>9, <1>10, <3>1, <3>2, OwesSameEntries
  <2>. QED BY <2>1, <2>2
<1>12. Owes(s, y)
  BY <1>0, <1>11, OwesOn
<1>13. WarmInv(s, k, b)
  BY <1>4, <1>12 DEF WarmInv, y
<1>. QED BY <1>13 DEF b

LEMMA WarmBegins == ASSUME NEW s, IsState(s) PROVE WarmInv(s, 0, s)
<1>. DEFINE x == AnsweredTo(s, 0, s)
<1>1. \A i \in Slots("RQ") : ~(i <= 0)
  BY DramConstants
<1>2. x.out = s.out /\ x.c.WQ = s.c.WQ /\ \A i \in Slots("RQ") : x.c.RQ[i] = s.c.RQ[i]
  BY <1>1 DEF AnsweredTo
<1>. HIDE DEF x
<1>3. Owes(s, x)
  BY <1>2, OwesSameEntries DEF SameEntry
<1>. QED BY <1>3 DEF WarmInv, x

\* The warmup's loop answers every slot, and changes nothing but the responses.
LEMMA WarmAnswers ==
    ASSUME NEW n, NEW s, IsState(s), ShapeOK(n, s.c),
           NEW t, t = FoldLeft(LAMBDA a, e : IF e.used THEN DramAnswer(a, e) ELSE a, s, s.c.RQ)
    PROVE  WarmInv(s, RqSlots, t)
<1>0. Slots("RQ") = 1 .. RqSlots /\ RqSlots \in Nat
  BY DramConstants
<1>1. t = WarmLoop!Fold(s, s, s.c.RQ)
  BY DEF WarmLoop!Fold, WarmStep, FoldLeft, WarmLoop!FoldLeft,
         MapThenFoldSet, WarmLoop!MapThenFoldSet, Max, WarmLoop!Max
<1>2. WarmInv(s, 0, s)
  BY WarmBegins
<1>3. WarmLoop!KeepsTo(s, s.c.RQ, RqSlots)
  BY WarmAnswered DEF WarmLoop!KeepsTo
<1>4. DOMAIN s.c.RQ = 1 .. RqSlots
  BY <1>0 DEF ShapeOK, Modes
<1>. QED BY <1>0, <1>1, <1>2, <1>3, <1>4, WarmLoop!FoldKeepsTo

\* What the warmup leaves when no bank is busy: nothing queued, nothing on a bank.
Warmed(n, s, t) ==
    /\ IsState(t) /\ PartOfCycle(n, s.c, t.c) /\ Owes(s, t)
    /\ warmup => Quiet(t.c)

LEMMA WarmOK ==
    ASSUME NEW n, NEW s, IsState(s), DramChannelOK(n, s.c),
           warmup => \A b \in 1 .. Banks : ~s.c.bank[b].valid
    PROVE  Warmed(n, s, Warm(s))
<1>0. ShapeOK(n, s.c) /\ Matched(s.c) /\ Slots("RQ") = 1 .. RqSlots
  BY DramConstants DEF DramChannelOK
<1>1. CASE ~warmup
  <2>1. Warm(s) = s
    BY <1>1 DEF Warm
  <2>2. PartOfCycle(n, s.c, s.c)
    BY DEF PartOfCycle, BusKept
  <2>. QED BY <1>1, <2>1, <2>2, OwesSame DEF Warmed
<1>2. CASE warmup
  <2>. DEFINE u == FoldLeft(LAMBDA a, e : IF e.used THEN DramAnswer(a, e) ELSE a, s, s.c.RQ)
              t == Warm(s)
  <2>0. WarmInv(s, RqSlots, u)
    BY <1>0, WarmAnswers
  <2>. HIDE DEF u
  <2>1. IsState(u) /\ u.c = s.c /\ Owes(s, AnsweredTo(s, RqSlots, u))
    BY <2>0 DEF WarmInv
  <2>2. t = [u EXCEPT !.c = [[s.c EXCEPT !.RQ = [i \in DOMAIN @ |-> Free]]
                                  EXCEPT !.WQ = [i \in DOMAIN @ |-> Free]]]
    BY <1>2, <2>1 DEF Warm, u, IsState
  <2>. HIDE DEF t
  <2>. DEFINE d == [s.c EXCEPT !.RQ = [i \in DOMAIN @ |-> Free]]
              e == [d EXCEPT !.WQ = [i \in DOMAIN @ |-> Free]]
  <2>3. IsState(t) /\ t.c = e /\ t.out = u.out
    BY <2>1, <2>2 DEF IsState
  <2>4. DOMAIN s.c.RQ = Slots("RQ") /\ DOMAIN s.c.WQ = Slots("WQ")
    BY <1>0 DEF ShapeOK, Modes
  <2>5. /\ DOMAIN d = DOMAIN s.c /\ d.bank = s.c.bank /\ d.active = s.c.active
        /\ d.RQ = [i \in Slots("RQ") |-> Free] /\ d.WQ = s.c.WQ
    BY <1>0, <2>4 DEF ShapeOK
  <2>. HIDE DEF d
  <2>6. /\ DOMAIN e = DOMAIN s.c /\ e.bank = s.c.bank /\ e.active = s.c.active
        /\ e.RQ = [i \in Slots("RQ") |-> Free] /\ e.WQ = [i \in Slots("WQ") |-> Free]
    BY <1>0, <2>4, <2>5 DEF ShapeOK
  <2>. HIDE DEF e
  <2>7. \A m \in Modes : DOMAIN e[m] = Slots(m) /\ \A i \in Slots(m) : e[m][i] = Free
    BY <2>6 DEF Modes
  <2>8. \A b \in 1 .. Banks : ~e.bank[b].valid
    BY <1>2, <2>6
  <2>9. \A m \in Modes : \A i \in Slots(m) : ~Given(s.c, m, i)
    BY <1>0, <1>2 DEF Matched
  <2>10. GivenKept(n, s.c, e) /\ Shrinks(s.c, e)
    BY <2>6, <2>7, <2>9, FreeSlotOK DEF GivenKept, Shrinks, Given
  <2>11. PartOfCycle(n, s.c, e) /\ Quiet(e)
    BY <2>7, <2>8, <2>10, FreeSlotOK, GivenKeptPart DEF Quiet
  <2>12. Owes(s, t)
    <3>. DEFINE x == AnsweredTo(s, RqSlots, u)
    <3>1. \A i \in Slots("RQ") : i <= RqSlots
      BY <1>0, DramConstants
    <3>2. x.out = u.out /\ \A i \in Slots("RQ") : x.c.RQ[i] = Free
      BY <3>1 DEF AnsweredTo
    <3>. HIDE DEF x
    <3>3. \A i \in Slots("RQ") : SameEntry(t.c.RQ[i], x.c.RQ[i])
      BY <2>3, <2>6, <3>2 DEF SameEntry
    <3>4. \A i \in Slots("WQ") : t.c.WQ[i].used => SameEntry(t.c.WQ[i], x.c.WQ[i])
      BY <2>3, <2>6, FreeSlotOK
    <3>5. Owes(x, t)
      BY <2>3, <3>2, <3>3, <3>4, OwesSameEntries
    <3>. QED BY <2>1, <3>5, OwesOn DEF x
  <2>. QED BY <2>3, <2>11, <2>12 DEF Warmed, t
<1>. QED BY <1>1, <1>2

-----------------------------------------------------------------------------
(* The banks and the bus                                                   *)

\* A part of a cycle that keeps what is checked
PartAfterChecks(n, s, t) ==
    /\ IsState(t) /\ PartOfCycle(n, s.c, t.c) /\ Owes(s, t)
    /\ AllSettled(s.c) => AllSettled(t.c)

LEMMA SamePart ==
    ASSUME NEW n, NEW s, IsState(s), DramChannelOK(n, s.c)
    PROVE  PartAfterChecks(n, s, s)
BY OwesSame DEF PartAfterChecks, PartOfCycle, BusKept

\* A write leaves its slot: nobody waits for it.
LEMMA OwesDrop ==
    ASSUME NEW s, NEW t, IsState(s), NEW k \in Slots("WQ"), s.c.WQ[k].used,
           t.out = DramAnswer(s, s.c.WQ[k]).out,
           \A j \in Slots("RQ") : SameEntry(t.c.RQ[j], s.c.RQ[j]),
           \A j \in Slots("WQ") : t.c.WQ[j].used => SameEntry(t.c.WQ[j], s.c.WQ[j])
    PROVE  Owes(s, t)
<1>1. s.c.WQ[k].to = {} => Owes(s, t)
  <2>1. s.c.WQ[k].to = {} => t.out = s.out
    BY DEF DramAnswer, IsState
  <2>. QED BY <2>1, OwesSameEntries
<1>2. (\E own : Tied(own, s.c)) => s.c.WQ[k].to = {}
  BY DEF Tied
<1>. QED BY <1>1, <1>2 DEF Owes

\* Queue m gets q, and the banks and the bus change.
LEMMA FinishRequestOK ==
    ASSUME NEW n, NEW s, IsState(s), DramChannelOK(n, s.c)
    PROVE  PartAfterChecks(n, s, FinishRequest(s))
<1>. DEFINE c == s.c
            a == c.active
            t == FinishRequest(s)
<1>0. ShapeOK(n, c) /\ Matched(c)
  BY DEF DramChannelOK
<1>1. CASE a = 0 \/ c.bank[a].left > 0
  BY <1>1, SamePart DEF FinishRequest
<1>2. CASE ~(a = 0 \/ c.bank[a].left > 0)
  <2>. DEFINE m == c.bank[a].queue
              i == c.bank[a].slot
              u == DramAnswer(s, Packet(c, a))
              q == [c[m] EXCEPT ![i] = Free]
              x == [c.bank[a] EXCEPT !.valid = FALSE]
  <2>1. a \in 1 .. Banks /\ c.bank[a].valid /\ BankOK(c.bank[a])
    BY <1>0, <1>2, DramConstants DEF ShapeOK, Matched
  <2>2. m \in Modes /\ i \in Slots(m) /\ m # "bank" /\ m # "active"
    BY <2>1 DEF BankOK, Modes
  <2>3. IsState(u) /\ u.c = c
    BY DEF IsState, DramAnswer
  <2>4. t = [u EXCEPT !.c[m][i] = Free, !.c.bank[a].valid = FALSE, !.c.active = 0]
    BY <1>2 DEF FinishRequest
  <2>. HIDE DEF t, u, q, x
  <2>5. IsState(t) /\ DOMAIN t.c = DOMAIN c /\ t.out = u.out
    BY <2>3, <2>4 DEF IsState
  <2>6. t.c.active = 0
    BY <1>0, <2>3, <2>4 DEF IsState, ShapeOK
  <2>7. t.c.bank = [c.bank EXCEPT ![a] = x]
    BY <1>0, <2>1, <2>2, <2>3, <2>4 DEF IsState, ShapeOK, x
  <2>8. t.c[m] = q
    BY <1>0, <2>1, <2>2, <2>3, <2>4 DEF IsState, ShapeOK, q, Modes
  <2>9. \A k \in Modes : k # m => t.c[k] = c[k]
    BY <1>0, <2>1, <2>2, <2>3, <2>4 DEF IsState, ShapeOK, Modes
  <2>10. \A k \in Modes : \A j \in Slots(k) :
            t.c[k][j] = IF k = m /\ j = i THEN Free ELSE c[k][j]
    BY <1>0, <2>2, <2>8, <2>9 DEF ShapeOK, q
  <2>11. /\ \A b \in 1 .. Banks : b # a => t.c.bank[b] = c.bank[b]
         /\ t.c.bank[a] = x /\ DOMAIN t.c.bank = 1 .. Banks
    BY <1>0, <2>1, <2>7 DEF ShapeOK
  <2>12. BankOK(x) /\ ~x.valid
    BY <2>1 DEF BankOK, x
  <2>13. \A k \in Modes : DOMAIN t.c[k] = Slots(k)
    BY <1>0, <2>8, <2>9 DEF ShapeOK, q
  <2>14. ShapeOK(n, t.c)
    <3>1. \A k \in Modes : \A j \in Slots(k) : SlotOK(n, t.c[k][j])
      BY <1>0, <2>10, FreeSlotOK DEF ShapeOK
    <3>2. \A b \in 1 .. Banks : BankOK(t.c.bank[b])
      BY <1>0, <2>11, <2>12 DEF ShapeOK
    <3>. QED BY <1>0, <2>5, <2>6, <2>11, <2>13, <3>1, <3>2, DramConstants DEF ShapeOK
  <2>15. Matched(t.c)
    <3>1. ASSUME NEW b \in 1 .. Banks, t.c.bank[b].valid
          PROVE  /\ Given(t.c, t.c.bank[b].queue, t.c.bank[b].slot)
                 /\ BankOf(t.c[t.c.bank[b].queue][t.c.bank[b].slot].addr) = b
      <4>1. b # a /\ t.c.bank[b] = c.bank[b] /\ c.bank[b].valid
        BY <2>11, <2>12, <3>1
      <4>2. ~(c.bank[b].queue = m /\ c.bank[b].slot = i)
        BY <1>0, <2>1, <4>1, BanksDiffer
      <4>3. c.bank[b].queue \in Modes /\ c.bank[b].slot \in Slots(c.bank[b].queue)
        BY <1>0 DEF ShapeOK, BankOK
      <4>4. t.c[c.bank[b].queue][c.bank[b].slot] = c[c.bank[b].queue][c.bank[b].slot]
        BY <2>10, <4>2, <4>3
      <4>5. /\ Given(c, c.bank[b].queue, c.bank[b].slot)
            /\ BankOf(c[c.bank[b].queue][c.bank[b].slot].addr) = b
        BY <1>0, <4>1 DEF Matched
      <4>6. Given(t.c, c.bank[b].queue, c.bank[b].slot)
        BY <4>4, <4>5 DEF Given
      <4>. QED BY <4>1, <4>4, <4>5, <4>6
    <3>2. ASSUME NEW k \in Modes, NEW j \in Slots(k), Given(t.c, k, j)
          PROVE  \E b \in 1 .. Banks : /\ t.c.bank[b].valid
                                       /\ t.c.bank[b].queue = k /\ t.c.bank[b].slot = j
      <4>1. ~(k = m /\ j = i) /\ Given(c, k, j)
        BY <2>10, <3>2, FreeSlotOK DEF Given
      <4>2. PICK b \in 1 .. Banks : c.bank[b].valid /\ c.bank[b].queue = k /\ c.bank[b].slot = j
        BY <1>0, <4>1 DEF Matched
      <4>3. b # a
        BY <4>1, <4>2
      <4>. QED BY <2>11, <4>2, <4>3
    <3>. QED BY <2>6, <3>1, <3>2 DEF Matched
  <2>16. BusKept(c, t.c)
    <3>. SUFFICES ASSUME NEW b \in 1 .. Banks, NEW k \in Modes, NEW j \in Slots(k),
                         OnBusOrLeft(c, b, k, j)
                  PROVE  ~t.c[k][j].used
      BY DEF BusKept, OnBusOrLeft
    <3>1. CASE c.active = b /\ c.bank[b].queue = k /\ c.bank[b].slot = j
      BY <2>10, <3>1, FreeSlotOK
    <3>2. CASE ~c[k][j].used
      BY <2>10, <3>2, FreeSlotOK
    <3>. QED BY <3>1, <3>2 DEF OnBusOrLeft
  <2>17. ~Quiet(c)
    BY <2>1 DEF Quiet
  <2>18. AllSettled(c) => AllSettled(t.c)
    BY <2>10, FreeSlotOK DEF AllSettled
  <2>20. Owes(s, t)
    <3>1. /\ \A j \in Slots("RQ") : t.c.RQ[j] = IF m = "RQ" /\ j = i THEN Free ELSE c.RQ[j]
          /\ \A j \in Slots("WQ") : t.c.WQ[j] = IF m = "WQ" /\ j = i THEN Free ELSE c.WQ[j]
      BY <2>10 DEF Modes
    <3>2. c[m][i].used /\ c[m][i].addr \in Nat /\ t.out = DramAnswer(s, c[m][i]).out
      <4>1. Given(c, m, i) /\ SlotOK(n, c[m][i])
        BY <1>0, <2>1, <2>2 DEF Matched, ShapeOK
      <4>2. Packet(c, a) = c[m][i]
        BY DEF Packet
      <4>3. u.out = DramAnswer(s, c[m][i]).out
        BY <4>2 DEF u
      <4>. QED BY <2>5, <4>1, <4>3 DEF Given, SlotOK
    <3>. HIDE DEF m, i, c
    <3>3. \A d, e : d = e => SameEntry(d, e)
      BY DEF SameEntry
    <3>4. CASE m = "RQ"
      <4>1. /\ ~t.c.RQ[i].used
            /\ \A j \in Slots("RQ") : j # i => SameEntry(t.c.RQ[j], c.RQ[j])
            /\ \A j \in Slots("WQ") : t.c.WQ[j].used => SameEntry(t.c.WQ[j], c.WQ[j])
        BY <2>2, <3>1, <3>3, <3>4, FreeSlotOK
      <4>. QED BY <2>2, <3>2, <3>4, <4>1, OwesAnswer DEF c
    <3>5. CASE m = "WQ"
      <4>1. /\ \A j \in Slots("RQ") : SameEntry(t.c.RQ[j], c.RQ[j])
            /\ \A j \in Slots("WQ") : t.c.WQ[j].used => SameEntry(t.c.WQ[j], c.WQ[j])
        BY <3>1, <3>3, <3>5, FreeSlotOK
      <4>. QED BY <2>2, <3>2, <3>5, <4>1, OwesDrop DEF c
    <3>. QED BY <2>2, <3>4, <3>5 DEF Modes
  <2>19. PartAfterChecks(n, s, t)
    BY <2>5, <2>14, <2>15, <2>16, <2>17, <2>18, <2>20 DEF PartAfterChecks, PartOfCycle, DramChannelOK
  <2>. QED BY <2>19 DEF t
<1>. QED BY <1>1, <1>2

\* A change of mode takes back the requests of the banks, but not the one on the bus.
LEMMA ChangeModeOK ==
    ASSUME NEW n, NEW s, IsState(s), DramChannelOK(n, s.c)
    PROVE  PartAfterChecks(n, s, ChangeMode(s))
<1>. DEFINE c == s.c
            t == ChangeMode(s)
<1>0. ShapeOK(n, c) /\ Matched(c)
  BY DEF DramChannelOK
<1>1. CASE ~Unbalanced(c)
  BY <1>1, SamePart DEF ChangeMode
<1>2. CASE Unbalanced(c)
  <2>. DEFINE Back(b) == [c.bank[b] EXCEPT !.valid = FALSE,
                                          !.row = IF c.bank[b].left < Cas THEN NoRow ELSE @]
              R(m, i) == \E b \in Recalled(c) : c.bank[b].queue = m /\ c.bank[b].slot = i
              E(m, i) == [c[m][i] EXCEPT !.scheduled = FALSE, !.left = 0]
              rq == TakenBack(c, c.RQ, "RQ")
              wq == TakenBack(c, c.WQ, "WQ")
  <2>0. t = [s EXCEPT
                !.c.RQ = TakenBack(c, @, "RQ"),
                !.c.WQ = TakenBack(c, @, "WQ"),
                !.c.bank = BanksTakenBack(c),
                !.c.busFree = TurnAround + (IF c.active = 0 THEN 0
                                            ELSE c.bank[c.active].left),
                !.c.writeMode = ~@]
    BY <1>2 DEF ChangeMode
  <2>. HIDE DEF t
  <2>2. IsState(t) /\ DOMAIN t.c = DOMAIN c /\ t.out = s.out
    BY <2>0 DEF IsState
  <2>3. t.c.active = c.active /\ t.c.bank = BanksTakenBack(c)
    <3>1. t.c.active = c.active
      BY <1>0, <2>0 DEF IsState, ShapeOK
    <3>2. t.c.bank = BanksTakenBack(c)
      BY <1>0, <2>0 DEF IsState, ShapeOK
    <3>. QED BY <3>1, <3>2
  <2>4. t.c.RQ = rq /\ t.c.WQ = wq
    <3>1. t.c.RQ = rq
      BY <1>0, <2>0 DEF IsState, ShapeOK
    <3>2. t.c.WQ = wq
      BY <1>0, <2>0 DEF IsState, ShapeOK
    <3>. QED BY <3>1, <3>2
  <2>. HIDE DEF rq, wq
  <2>5. \A m \in Modes : /\ DOMAIN t.c[m] = Slots(m)
                         /\ \A i \in Slots(m) : t.c[m][i] = IF R(m, i) THEN E(m, i) ELSE c[m][i]
    <3>1. ASSUME NEW m \in Modes, NEW q, q = TakenBack(c, c[m], m)
          PROVE  /\ DOMAIN q = Slots(m)
                 /\ \A i \in Slots(m) : q[i] = IF R(m, i) THEN E(m, i) ELSE c[m][i]
      BY <1>0, <3>1 DEF ShapeOK, TakenBack
    <3>2. \A m \in Modes : t.c[m] = TakenBack(c, c[m], m)
      BY <2>4 DEF Modes, rq, wq
    <3>. HIDE DEF R, E
    <3>. QED BY <3>1, <3>2
  <2>6. \A b \in 1 .. Banks : t.c.bank[b] = IF b \in Recalled(c) THEN Back(b) ELSE c.bank[b]
    BY <2>3 DEF BanksTakenBack
  <2>7. DOMAIN t.c.bank = 1 .. Banks
    BY <2>3 DEF BanksTakenBack
  <2>8. \A b \in 1 .. Banks : BankOK(c.bank[b])
    BY <1>0 DEF ShapeOK
  <2>9. \A b \in 1 .. Banks : BankOK(Back(b)) /\ ~Back(b).valid
    BY <2>8 DEF BankOK
  <2>10. \A b \in 1 .. Banks : b \in Recalled(c) <=> c.bank[b].valid /\ b # c.active
    BY DEF Recalled
  <2>11. \A m \in Modes : \A i \in Slots(m) : SlotOK(n, c[m][i])
    BY <1>0 DEF ShapeOK
  <2>12. ASSUME NEW m \in Modes, NEW i \in Slots(m), R(m, i)
         PROVE  /\ Given(c, m, i) /\ SlotOK(n, E(m, i)) /\ E(m, i).used /\ ~E(m, i).scheduled
                /\ E(m, i).checked = c[m][i].checked /\ SameEntry(E(m, i), c[m][i])
    <3>1. Given(c, m, i)
      BY <1>0, <2>12 DEF Recalled, Matched
    <3>2. c[m][i].used /\ SlotOK(n, c[m][i])
      BY <2>11, <3>1 DEF Given
    <3>3. SameEntry(E(m, i), c[m][i])
      BY <3>2 DEF SlotOK, SameEntry
    <3>. QED BY <3>1, <3>2, <3>3 DEF SlotOK
  <2>. HIDE DEF Back, E
  <2>13. ShapeOK(n, t.c)
    <3>1. \A m \in Modes : \A i \in Slots(m) : SlotOK(n, t.c[m][i])
      BY <2>5, <2>11, <2>12
    <3>2. \A b \in 1 .. Banks : BankOK(t.c.bank[b])
      BY <2>6, <2>8, <2>9
    <3>. QED BY <1>0, <2>2, <2>3, <2>5, <2>7, <3>1, <3>2 DEF ShapeOK
  <2>14. Matched(t.c)
    <3>1. ASSUME NEW b \in 1 .. Banks, t.c.bank[b].valid
          PROVE  /\ Given(t.c, t.c.bank[b].queue, t.c.bank[b].slot)
                 /\ BankOf(t.c[t.c.bank[b].queue][t.c.bank[b].slot].addr) = b
      <4>1. b \notin Recalled(c) /\ t.c.bank[b] = c.bank[b] /\ c.bank[b].valid
        BY <2>6, <2>9, <3>1
      <4>2. c.bank[b].queue \in Modes /\ c.bank[b].slot \in Slots(c.bank[b].queue)
        BY <2>8 DEF BankOK
      <4>3. ~R(c.bank[b].queue, c.bank[b].slot)
        BY <1>0, <4>1, BanksDiffer DEF Recalled
      <4>4. t.c[c.bank[b].queue][c.bank[b].slot] = c[c.bank[b].queue][c.bank[b].slot]
        BY <2>5, <4>2, <4>3
      <4>5. /\ Given(c, c.bank[b].queue, c.bank[b].slot)
            /\ BankOf(c[c.bank[b].queue][c.bank[b].slot].addr) = b
        BY <1>0, <4>1 DEF Matched
      <4>6. Given(t.c, c.bank[b].queue, c.bank[b].slot)
        BY <4>4, <4>5 DEF Given
      <4>. QED BY <4>1, <4>4, <4>5, <4>6
    <3>2. ASSUME NEW m \in Modes, NEW i \in Slots(m), Given(t.c, m, i)
          PROVE  \E b \in 1 .. Banks : /\ t.c.bank[b].valid
                                       /\ t.c.bank[b].queue = m /\ t.c.bank[b].slot = i
      <4>1. ~R(m, i) /\ Given(c, m, i)
        BY <2>5, <2>12, <3>2 DEF Given
      <4>2. PICK b \in 1 .. Banks : c.bank[b].valid /\ c.bank[b].queue = m /\ c.bank[b].slot = i
        BY <1>0, <4>1 DEF Matched
      <4>3. b \notin Recalled(c)
        BY <4>1, <4>2
      <4>. QED BY <2>6, <4>2, <4>3
    <3>3. t.c.active # 0 => t.c.bank[t.c.active].valid
      <4>. SUFFICES ASSUME c.active # 0 PROVE t.c.bank[c.active].valid
        BY <2>3
      <4>1. c.active \in 1 .. Banks /\ c.bank[c.active].valid
        BY <1>0, DramConstants DEF ShapeOK, Matched
      <4>. QED BY <2>6, <2>10, <4>1
    <3>. QED BY <3>1, <3>2, <3>3 DEF Matched
  <2>15. \A m \in Modes : \A i \in Slots(m) : t.c[m][i].used => c[m][i].used
    BY <2>5, <2>12 DEF Given
  <2>16. BusKept(c, t.c)
    <3>. SUFFICES ASSUME NEW b \in 1 .. Banks, NEW m \in Modes, NEW i \in Slots(m),
                         OnBusOrLeft(c, b, m, i)
                  PROVE  OnBusOrLeft(t.c, b, m, i)
      BY DEF BusKept
    <3>1. CASE c.active = b /\ c.bank[b].queue = m /\ c.bank[b].slot = i
      <4>1. t.c.bank[b] = c.bank[b]
        BY <2>6, <2>10, <3>1
      <4>. QED BY <2>3, <3>1, <4>1 DEF OnBusOrLeft
    <3>2. CASE ~c[m][i].used
      BY <2>15, <3>2 DEF OnBusOrLeft
    <3>. QED BY <3>1, <3>2 DEF OnBusOrLeft
  <2>17. Quiet(c) => Quiet(t.c)
    BY <2>6, <2>9, <2>15 DEF Quiet
  <2>18. AllSettled(c) => AllSettled(t.c)
    BY <2>5, <2>12, <2>15 DEF AllSettled
  <2>20. Owes(s, t)
    <3>1. \A m \in Modes : \A i \in Slots(m) : SameEntry(t.c[m][i], c[m][i])
      BY <2>5, <2>12 DEF SameEntry
    <3>. QED BY <2>2, <3>1, OwesSameEntries DEF Modes
  <2>19. PartAfterChecks(n, s, t)
    BY <2>2, <2>13, <2>14, <2>16, <2>17, <2>18, <2>20 DEF PartAfterChecks, PartOfCycle, DramChannelOK
  <2>. QED BY <2>19 DEF t
<1>. QED BY <1>1, <1>2

\* The bank that is put on the bus has a request, and the bus is free.
LEMMA PutOnBusOK ==
    ASSUME NEW n, NEW s, IsState(s), DramChannelOK(n, s.c)
    PROVE  PartAfterChecks(n, s, PutOnBus(s))
<1>. DEFINE c == s.c
            t == PutOnBus(s)
            a == NextBank(c)
<1>0. ShapeOK(n, c) /\ Matched(c)
  BY DEF DramChannelOK
<1>1. CASE ~(a # 0 /\ c.bank[a].left <= 0 /\ c.active = 0 /\ c.busFree <= 0)
  BY <1>1, SamePart DEF PutOnBus
<1>2. CASE a # 0 /\ c.bank[a].left <= 0 /\ c.active = 0 /\ c.busFree <= 0
  <2>1. a \in 1 .. Banks /\ c.bank[a].valid
    <3>. DEFINE V == {b \in 1 .. Banks : c.bank[b].valid}
                S == {b \in V : \A d \in V : c.bank[b].left <= c.bank[d].left}
    <3>1. a = First(S)
      BY DEF NextBank
    <3>2. S \in SUBSET Nat /\ \A b \in S : b \in 1 .. Banks /\ c.bank[b].valid
      OBVIOUS
    <3>. HIDE DEF S
    <3>. QED BY <1>2, <3>1, <3>2, FirstOfSet
  <2>2. t = [s EXCEPT !.c.active = a, !.c.bank[a].left = BusTime]
    BY <1>2 DEF PutOnBus
  <2>. DEFINE x == [c.bank[a] EXCEPT !.left = BusTime]
  <2>. HIDE DEF t, a, x
  <2>3. IsState(t) /\ DOMAIN t.c = DOMAIN c /\ t.out = s.out
    BY <2>2 DEF IsState
  <2>4. t.c.active = a
    BY <1>0, <2>2 DEF IsState, ShapeOK
  <2>5. t.c.bank = [c.bank EXCEPT ![a] = x]
    BY <1>0, <2>1, <2>2 DEF IsState, ShapeOK, x
  <2>6. t.c.RQ = c.RQ /\ t.c.WQ = c.WQ
    BY <1>0, <2>2 DEF IsState, ShapeOK
  <2>7. \A m \in Modes : t.c[m] = c[m]
    BY <2>6 DEF Modes
  <2>8. /\ \A b \in 1 .. Banks : b # a => t.c.bank[b] = c.bank[b]
        /\ t.c.bank[a] = x /\ DOMAIN t.c.bank = 1 .. Banks
    BY <1>0, <2>1, <2>5 DEF ShapeOK
  <2>9. /\ BankOK(x)
        /\ x.valid = c.bank[a].valid /\ x.queue = c.bank[a].queue /\ x.slot = c.bank[a].slot
    <3>1. BankOK(c.bank[a])
      BY <1>0, <2>1 DEF ShapeOK
    <3>. QED BY <3>1 DEF BankOK, x
  <2>10. \A b \in 1 .. Banks : /\ t.c.bank[b].valid = c.bank[b].valid
                               /\ t.c.bank[b].queue = c.bank[b].queue
                               /\ t.c.bank[b].slot = c.bank[b].slot
    BY <2>8, <2>9
  <2>11. ShapeOK(n, t.c)
    <3>1. \A b \in 1 .. Banks : BankOK(t.c.bank[b])
      BY <1>0, <2>8, <2>9 DEF ShapeOK
    <3>2. a \in 0 .. Banks
      BY <2>1, DramConstants
    <3>. QED BY <1>0, <2>3, <2>4, <2>7, <2>8, <3>1, <3>2 DEF ShapeOK
  <2>12. Matched(t.c)
    <3>1. \A m \in Modes : \A i \in Slots(m) : Given(t.c, m, i) <=> Given(c, m, i)
      BY <2>7 DEF Given
    <3>2. \A b \in 1 .. Banks : c.bank[b].queue \in Modes /\ c.bank[b].slot \in Slots(c.bank[b].queue)
      BY <1>0 DEF ShapeOK, BankOK
    <3>3. ASSUME NEW b \in 1 .. Banks, t.c.bank[b].valid
          PROVE  /\ Given(t.c, t.c.bank[b].queue, t.c.bank[b].slot)
                 /\ BankOf(t.c[t.c.bank[b].queue][t.c.bank[b].slot].addr) = b
      BY <1>0, <2>7, <2>10, <3>1, <3>2, <3>3 DEF Matched
    <3>4. ASSUME NEW m \in Modes, NEW i \in Slots(m), Given(t.c, m, i)
          PROVE  \E b \in 1 .. Banks : /\ t.c.bank[b].valid
                                       /\ t.c.bank[b].queue = m /\ t.c.bank[b].slot = i
      BY <1>0, <2>10, <3>1, <3>4 DEF Matched
    <3>5. t.c.bank[t.c.active].valid
      BY <2>1, <2>4, <2>10
    <3>. QED BY <3>3, <3>4, <3>5 DEF Matched
  <2>13. BusKept(c, t.c)
    <3>1. \A b \in 1 .. Banks : c.active # b
      BY <1>2
    <3>. QED BY <2>7, <3>1 DEF BusKept, OnBusOrLeft
  <2>14. ~Quiet(c)
    BY <2>1 DEF Quiet
  <2>15. AllSettled(c) => AllSettled(t.c)
    BY <2>7 DEF AllSettled
  <2>16. Owes(s, t)
    BY <2>3, <2>6, OwesSameEntries DEF SameEntry
  <2>17. PartAfterChecks(n, s, t)
    BY <2>3, <2>11, <2>12, <2>13, <2>14, <2>15, <2>16 DEF PartAfterChecks, PartOfCycle, DramChannelOK
  <2>. QED BY <2>17 DEF t
<1>. QED BY <1>1, <1>2

\* A request goes to a free bank, and only one that has been checked.
LEMMA ScheduleOK ==
    ASSUME NEW n, NEW s, IsState(s), DramChannelOK(n, s.c), AllSettled(s.c)
    PROVE  PartAfterChecks(n, s, Schedule(s))
<1>. DEFINE c == s.c
            t == Schedule(s)
            m == IF c.writeMode THEN "WQ" ELSE "RQ"
            i == NextScheduled(c[m])
            b == BankOf(c[m][i].addr)
<1>0. ShapeOK(n, c) /\ Matched(c) /\ m \in Modes
  BY DEF DramChannelOK, Modes
<1>1. CASE i = 0 \/ c.bank[b].valid
  <2>1. t = s
    BY <1>1 DEF Schedule
  <2>. QED BY <2>1, SamePart
<1>2. CASE ~(i = 0 \/ c.bank[b].valid)
  <2>. DEFINE r == RowOf(c[m][i].addr)
              l == Cas + (IF c.bank[b].row = RowOf(c[m][i].addr) THEN 0 ELSE Precharge)
              x == [valid |-> TRUE, row |-> r, queue |-> m, slot |-> i, left |-> l]
              e == [c[m][i] EXCEPT !.scheduled = TRUE, !.left = Unscheduled]
  <2>1. t = [s EXCEPT !.c.bank[b] = x, !.c[m][i].scheduled = TRUE, !.c[m][i].left = Unscheduled]
    BY <1>2 DEF Schedule
  <2>2. i \in Slots(m) /\ c[m][i].used /\ ~c[m][i].scheduled
    <3>. DEFINE W == {j \in Used(c[m]) : ~c[m][j].scheduled}
                S == {j \in W : \A k \in W : c[m][j].left <= c[m][k].left}
    <3>1. i = First(S)
      BY DEF NextScheduled
    <3>2. DOMAIN c[m] = Slots(m) /\ Slots(m) \subseteq Nat
      BY <1>0, DramConstants DEF ShapeOK
    <3>. HIDE DEF m
    <3>3. S \in SUBSET Nat /\ \A j \in S : j \in Slots(m) /\ c[m][j].used /\ ~c[m][j].scheduled
      BY <3>2 DEF Used
    <3>. HIDE DEF S, i
    <3>. QED BY <1>2, <3>1, <3>3, FirstOfSet
  <2>. HIDE DEF t, m, i, x, e
  <2>3. SlotOK(n, c[m][i])
    BY <1>0, <2>2 DEF ShapeOK
  <2>4. b \in 1 .. Banks /\ BankOf(c[m][i].addr) = b
    BY <2>2, <2>3, BankInRange DEF SlotOK
  <2>. HIDE DEF b
  <2>5. IsState(t) /\ DOMAIN t.c = DOMAIN c /\ t.out = s.out
    BY <2>1 DEF IsState
  <2>6. m # "bank" /\ m # "active"
    BY DEF m
  <2>7. t.c.active = c.active
    BY <1>0, <2>1, <2>6 DEF IsState, ShapeOK
  <2>8. t.c.bank = [c.bank EXCEPT ![b] = x]
    BY <1>0, <2>1, <2>6 DEF IsState, ShapeOK
  <2>9. t.c[m] = [c[m] EXCEPT ![i] = e]
    BY <1>0, <2>1, <2>2, <2>6 DEF IsState, ShapeOK, e, Modes
  <2>10. \A k \in Modes : k # m => t.c[k] = c[k]
    BY <1>0, <2>1, <2>6 DEF IsState, ShapeOK, Modes
  <2>11. /\ DOMAIN t.c.bank = 1 .. Banks /\ t.c.bank[b] = x
         /\ \A a \in 1 .. Banks : a # b => t.c.bank[a] = c.bank[a]
    BY <1>0, <2>4, <2>8 DEF ShapeOK
  <2>12. \A k \in Modes : /\ DOMAIN t.c[k] = Slots(k)
                          /\ \A j \in Slots(k) :
                                t.c[k][j] = IF k = m /\ j = i THEN e ELSE c[k][j]
    BY <1>0, <2>2, <2>9, <2>10 DEF ShapeOK
  <2>13. /\ SlotOK(n, e) /\ e.used /\ e.scheduled /\ e.checked
         /\ e.addr = c[m][i].addr /\ SameEntry(e, c[m][i])
    <3>1. c[m][i].checked
      BY <1>0, <2>2 DEF AllSettled
    <3>2. SameEntry(e, c[m][i])
      BY <2>2, <2>3 DEF SlotOK, SameEntry, e
    <3>. QED BY <2>2, <2>3, <3>1, <3>2 DEF SlotOK, e
  <2>14. BankOK(x) /\ x.valid /\ x.queue = m /\ x.slot = i
    BY <1>0, <2>2 DEF BankOK, x
  <2>15. ~c.bank[b].valid
    BY <1>2 DEF b, i, m
  <2>16. ShapeOK(n, t.c)
    <3>1. \A a \in 1 .. Banks : BankOK(t.c.bank[a])
      BY <1>0, <2>11, <2>14 DEF ShapeOK
    <3>2. \A k \in Modes : \A j \in Slots(k) : SlotOK(n, t.c[k][j])
      BY <1>0, <2>12, <2>13 DEF ShapeOK
    <3>. QED BY <1>0, <2>5, <2>7, <2>11, <2>12, <3>1, <3>2 DEF ShapeOK
  <2>17. Matched(t.c)
    <3>1. ASSUME NEW a \in 1 .. Banks, t.c.bank[a].valid
          PROVE  /\ Given(t.c, t.c.bank[a].queue, t.c.bank[a].slot)
                 /\ BankOf(t.c[t.c.bank[a].queue][t.c.bank[a].slot].addr) = a
      <4>1. CASE a = b
        <5>1. t.c.bank[a].queue = m /\ t.c.bank[a].slot = i /\ t.c[m][i] = e
          BY <1>0, <2>2, <2>11, <2>12, <2>14, <4>1
        <5>. QED BY <2>4, <2>13, <4>1, <5>1 DEF Given
      <4>2. CASE a # b
        <5>1. t.c.bank[a] = c.bank[a] /\ c.bank[a].valid
          BY <2>11, <3>1, <4>2
        <5>2. c.bank[a].queue \in Modes /\ c.bank[a].slot \in Slots(c.bank[a].queue)
          BY <1>0 DEF ShapeOK, BankOK
        <5>3. /\ Given(c, c.bank[a].queue, c.bank[a].slot)
              /\ BankOf(c[c.bank[a].queue][c.bank[a].slot].addr) = a
          BY <1>0, <5>1 DEF Matched
        <5>4. ~(c.bank[a].queue = m /\ c.bank[a].slot = i)
          BY <2>2, <5>3 DEF Given
        <5>5. t.c[c.bank[a].queue][c.bank[a].slot] = c[c.bank[a].queue][c.bank[a].slot]
          BY <2>12, <5>2, <5>4
        <5>6. Given(t.c, c.bank[a].queue, c.bank[a].slot)
          BY <5>3, <5>5 DEF Given
        <5>. QED BY <5>1, <5>3, <5>5, <5>6
      <4>. QED BY <4>1, <4>2
    <3>2. ASSUME NEW k \in Modes, NEW j \in Slots(k), Given(t.c, k, j)
          PROVE  \E a \in 1 .. Banks : /\ t.c.bank[a].valid
                                       /\ t.c.bank[a].queue = k /\ t.c.bank[a].slot = j
      <4>1. CASE k = m /\ j = i
        BY <2>4, <2>11, <2>14, <4>1
      <4>2. CASE ~(k = m /\ j = i)
        <5>1. Given(c, k, j)
          BY <2>12, <3>2, <4>2 DEF Given
        <5>2. PICK a \in 1 .. Banks : c.bank[a].valid /\ c.bank[a].queue = k /\ c.bank[a].slot = j
          BY <1>0, <5>1 DEF Matched
        <5>3. a # b
          BY <2>15, <5>2
        <5>. QED BY <2>11, <5>2, <5>3
      <4>. QED BY <4>1, <4>2
    <3>3. t.c.active # 0 => t.c.bank[t.c.active].valid
      <4>. SUFFICES ASSUME c.active # 0 PROVE t.c.bank[c.active].valid
        BY <2>7
      <4>1. c.active \in 1 .. Banks /\ c.bank[c.active].valid
        BY <1>0, DramConstants DEF ShapeOK, Matched
      <4>. QED BY <2>11, <2>15, <4>1
    <3>. QED BY <3>1, <3>2, <3>3 DEF Matched
  <2>18. \A k \in Modes : \A j \in Slots(k) : t.c[k][j].used => c[k][j].used
    BY <2>2, <2>12
  <2>19. BusKept(c, t.c)
    <3>. SUFFICES ASSUME NEW a \in 1 .. Banks, NEW k \in Modes, NEW j \in Slots(k),
                         OnBusOrLeft(c, a, k, j)
                  PROVE  OnBusOrLeft(t.c, a, k, j)
      BY DEF BusKept
    <3>1. CASE c.active = a /\ c.bank[a].queue = k /\ c.bank[a].slot = j
      <4>1. a # 0
        BY DramConstants
      <4>2. a # b
        BY <1>0, <2>15, <3>1, <4>1 DEF Matched
      <4>. QED BY <2>7, <2>11, <3>1, <4>2 DEF OnBusOrLeft
    <3>2. CASE ~c[k][j].used
      BY <2>18, <3>2 DEF OnBusOrLeft
    <3>. QED BY <3>1, <3>2 DEF OnBusOrLeft
  <2>20. ~Quiet(c)
    BY <1>0, <2>2 DEF Quiet
  <2>21. AllSettled(t.c)
    BY <1>0, <2>12, <2>13 DEF AllSettled
  <2>22. Owes(s, t)
    <3>1. \A k \in Modes : \A j \in Slots(k) : SameEntry(t.c[k][j], c[k][j])
      BY <2>12, <2>13 DEF SameEntry
    <3>. QED BY <2>5, <3>1, OwesSameEntries DEF Modes
  <2>23. PartAfterChecks(n, s, t)
    BY <2>5, <2>16, <2>17, <2>19, <2>20, <2>21, <2>22 DEF PartAfterChecks, PartOfCycle, DramChannelOK
  <2>. QED BY <2>23 DEF t
<1>. QED BY <1>1, <1>2

\* The clock changes times only.
LEMMA DramTickOK ==
    ASSUME NEW n, NEW c, DramChannelOK(n, c)
    PROVE  /\ PartOfCycle(n, c, DramTick(c))
           /\ \A m \in Modes : \A i \in Slots(m) : SameEntry(DramTick(c)[m][i], c[m][i])
<1>. DEFINE d == DramTick(c)
<1>0. ShapeOK(n, c) /\ Matched(c)
  BY DEF DramChannelOK
<1>1. d = [c EXCEPT !.RQ = Aged(@), !.WQ = Aged(@), !.bank = BanksSooner(@),
                    !.busFree = IF @ > 0 THEN @ - 1 ELSE 0]
  BY DEF DramTick
<1>. HIDE DEF d
<1>2. DOMAIN d = DOMAIN c /\ d.active = c.active
  BY <1>0, <1>1 DEF ShapeOK
<1>3. d.RQ = Aged(c.RQ)
  BY <1>0, <1>1 DEF ShapeOK
<1>4. d.WQ = Aged(c.WQ)
  BY <1>0, <1>1 DEF ShapeOK
<1>5. d.bank = BanksSooner(c.bank)
  BY <1>0, <1>1 DEF ShapeOK
<1>6. \A m \in Modes : d[m] = Aged(c[m])
  BY <1>3, <1>4 DEF Modes
<1>7. ASSUME NEW m \in Modes, NEW i \in Slots(m)
      PROVE  /\ DOMAIN d[m] = Slots(m) /\ SlotOK(n, d[m][i])
             /\ d[m][i].used = c[m][i].used
             /\ Given(d, m, i) <=> Given(c, m, i)
             /\ Given(c, m, i) => d[m][i].addr = c[m][i].addr
             /\ SameEntry(d[m][i], c[m][i])
  <2>. DEFINE Ages == {c[m][j].left : j \in {k \in Used(c[m]) : ~c[m][k].scheduled}}
              e == [c[m][i] EXCEPT !.left = -1 - Cardinality({a \in Ages : a > @})]
  <2>1. DOMAIN c[m] = Slots(m) /\ SlotOK(n, c[m][i])
    BY <1>0 DEF ShapeOK
  <2>2. /\ DOMAIN d[m] = Slots(m)
        /\ d[m][i] = IF c[m][i].used /\ ~c[m][i].scheduled THEN e ELSE c[m][i]
    BY <1>6, <2>1 DEF Aged
  <2>3. c[m][i].used => /\ SlotOK(n, e) /\ e.used
                        /\ e.scheduled = c[m][i].scheduled
                        /\ SameEntry(e, c[m][i])
    BY <2>1 DEF SlotOK, SameEntry
  <2>. HIDE DEF e
  <2>4. SameEntry(d[m][i], c[m][i])
    BY <2>2, <2>3 DEF SameEntry
  <2>. QED BY <2>1, <2>2, <2>3, <2>4 DEF Given, SlotOK
<1>8. ASSUME NEW b \in 1 .. Banks
      PROVE  /\ BankOK(d.bank[b]) /\ DOMAIN d.bank = 1 .. Banks
             /\ d.bank[b].valid = c.bank[b].valid
             /\ d.bank[b].queue = c.bank[b].queue
             /\ d.bank[b].slot = c.bank[b].slot
  <2>1. BankOK(c.bank[b]) /\ DOMAIN c.bank = 1 .. Banks
    BY <1>0 DEF ShapeOK
  <2>2. /\ DOMAIN d.bank = 1 .. Banks
        /\ d.bank[b] = [c.bank[b] EXCEPT !.left = IF c.bank[b].valid THEN @ - 1 ELSE 0]
    BY <1>5, <2>1 DEF BanksSooner
  <2>. QED BY <2>1, <2>2 DEF BankOK
<1>9. ShapeOK(n, d)
  <2>1. DOMAIN d.bank = 1 .. Banks
    BY <1>8, DramConstants
  <2>2. \A m \in Modes : DOMAIN d[m] = Slots(m)
    BY <1>7, DramConstants
  <2>. QED BY <1>0, <1>2, <1>7, <1>8, <2>1, <2>2 DEF ShapeOK
<1>10. Matched(d)
  <2>1. \A b \in 1 .. Banks : c.bank[b].queue \in Modes /\ c.bank[b].slot \in Slots(c.bank[b].queue)
    BY <1>0 DEF ShapeOK, BankOK
  <2>2. ASSUME NEW b \in 1 .. Banks, d.bank[b].valid
        PROVE  /\ Given(d, d.bank[b].queue, d.bank[b].slot)
               /\ BankOf(d[d.bank[b].queue][d.bank[b].slot].addr) = b
    <3>1. /\ Given(c, c.bank[b].queue, c.bank[b].slot)
          /\ BankOf(c[c.bank[b].queue][c.bank[b].slot].addr) = b
      BY <1>0, <1>8, <2>2 DEF Matched
    <3>2. /\ Given(d, c.bank[b].queue, c.bank[b].slot)
          /\ d[c.bank[b].queue][c.bank[b].slot].addr = c[c.bank[b].queue][c.bank[b].slot].addr
      BY <1>7, <2>1, <3>1
    <3>. QED BY <1>8, <3>1, <3>2
  <2>3. ASSUME NEW m \in Modes, NEW i \in Slots(m), Given(d, m, i)
        PROVE  \E b \in 1 .. Banks : /\ d.bank[b].valid
                                     /\ d.bank[b].queue = m /\ d.bank[b].slot = i
    BY <1>0, <1>7, <1>8, <2>3 DEF Matched
  <2>4. d.active # 0 => d.bank[d.active].valid
    <3>. SUFFICES ASSUME c.active # 0 PROVE d.bank[c.active].valid
      BY <1>2
    <3>1. c.active \in 1 .. Banks /\ c.bank[c.active].valid
      BY <1>0, DramConstants DEF ShapeOK, Matched
    <3>. QED BY <1>8, <3>1
  <2>. QED BY <2>2, <2>3, <2>4 DEF Matched
<1>11. BusKept(c, d)
  BY <1>2, <1>7, <1>8 DEF BusKept, OnBusOrLeft
<1>12. Quiet(c) => Quiet(d)
  BY <1>7, <1>8 DEF Quiet
<1>13. PartOfCycle(n, c, d)
  BY <1>9, <1>10, <1>11, <1>12 DEF PartOfCycle, DramChannelOK
<1>. QED BY <1>7, <1>13 DEF d

LEMMA PartsCompose ==
    ASSUME NEW n, NEW c, NEW d, NEW e, PartOfCycle(n, c, d), PartOfCycle(n, d, e)
    PROVE  PartOfCycle(n, c, e)
<1>1. BusKept(c, e)
  BY DEF PartOfCycle, BusKept
<1>. QED BY <1>1 DEF PartOfCycle

\* One cycle of a channel
LEMMA CycleOK ==
    ASSUME NEW n, NEW c, DramChannelOK(n, c),
           warmup => \A b \in 1 .. Banks : ~c.bank[b].valid
    PROVE  /\ PartOfCycle(n, c, DramTick(Cycle(c).c))
           /\ warmup => Quiet(DramTick(Cycle(c).c))
           /\ Owes([c |-> c, out |-> << >>], [c |-> DramTick(Cycle(c).c), out |-> Cycle(c).out])
<1>. DEFINE s0 == [c |-> c, out |-> << >>]
            s1 == Warm(s0)
            s2 == CheckCollisions(s1)
            s3 == FinishRequest(s2)
            s4 == ChangeMode(s3)
            s5 == PutOnBus(s4)
            s6 == Schedule(s5)
<1>0. Cycle(c) = s6
  BY DEF Cycle
<1>1. IsState(s0) /\ s0.c = c
  BY DEF IsState
<1>. HIDE DEF s0
<1>2. Warmed(n, s0, s1)
  BY <1>1, WarmOK
<1>. HIDE DEF s1
<1>3. CollisionsChecked(n, s1, s2)
  BY <1>2, CheckCollisionsOK DEF Warmed, PartOfCycle
<1>. HIDE DEF s2
<1>4. PartAfterChecks(n, s2, s3)
  BY <1>3, FinishRequestOK DEF CollisionsChecked, PartOfCycle
<1>. HIDE DEF s3
<1>5. PartAfterChecks(n, s3, s4)
  BY <1>4, ChangeModeOK DEF PartAfterChecks, PartOfCycle
<1>. HIDE DEF s4
<1>6. PartAfterChecks(n, s4, s5)
  BY <1>5, PutOnBusOK DEF PartAfterChecks, PartOfCycle
<1>. HIDE DEF s5
<1>7. AllSettled(s5.c)
  BY <1>3, <1>4, <1>5, <1>6 DEF CollisionsChecked, PartAfterChecks
<1>8. PartAfterChecks(n, s5, s6)
  BY <1>6, <1>7, ScheduleOK DEF PartAfterChecks, PartOfCycle
<1>. HIDE DEF s6
<1>9. /\ PartOfCycle(n, s6.c, DramTick(s6.c))
      /\ \A m \in Modes : \A i \in Slots(m) : SameEntry(DramTick(s6.c)[m][i], s6.c[m][i])
  BY <1>8, DramTickOK DEF PartAfterChecks, PartOfCycle
<1>10. PartOfCycle(n, s0.c, s2.c)
  BY <1>2, <1>3, PartsCompose DEF Warmed, CollisionsChecked
<1>11. PartOfCycle(n, s2.c, s4.c)
  BY <1>4, <1>5, PartsCompose DEF PartAfterChecks
<1>12. PartOfCycle(n, s4.c, s6.c)
  BY <1>6, <1>8, PartsCompose DEF PartAfterChecks
<1>13. PartOfCycle(n, s0.c, s6.c)
  BY <1>10, <1>11, <1>12, PartsCompose
<1>14. PartOfCycle(n, c, DramTick(s6.c))
  BY <1>1, <1>9, <1>13, PartsCompose
<1>15. warmup => Quiet(DramTick(s6.c))
  BY <1>2, <1>3, <1>9, <1>11, <1>12 DEF Warmed, CollisionsChecked, PartOfCycle
<1>16. Owes(s0, s6)
  <2>1. Owes(s0, s1) /\ Owes(s1, s2) /\ Owes(s2, s3) /\ Owes(s3, s4) /\ Owes(s4, s5) /\ Owes(s5, s6)
    BY <1>2, <1>3, <1>4, <1>5, <1>6, <1>8 DEF Warmed, CollisionsChecked, PartAfterChecks
  <2>2. Owes(s0, s2) /\ Owes(s2, s4) /\ Owes(s4, s6)
    BY <2>1, OwesOn
  <2>. QED BY <2>2, OwesOn
<1>17. Owes(s0, [c |-> DramTick(s6.c), out |-> s6.out])
  <2>. DEFINE t == [c |-> DramTick(s6.c), out |-> s6.out]
  <2>1. t.c = DramTick(s6.c) /\ t.out = s6.out
    OBVIOUS
  <2>. HIDE DEF t
  <2>2. Owes(s6, t)
    BY <1>9, <2>1, OwesSameEntries DEF Modes, SameEntry
  <2>. QED BY <1>16, <2>2, OwesOn DEF t
<1>. QED BY <1>0, <1>14, <1>15, <1>17 DEF s0

-----------------------------------------------------------------------------
(* initiate_requests: into slots that are free                             *)

Froms == {"RQ", "WQ", "PQ"}

\* The banks are those of before, and requests wait as they should.
TakingOK(before, s) ==
    /\ DOMAIN s = {"upper", "chans"}
    /\ DOMAIN s.upper = 1 .. DramUppers /\ \A u \in 1 .. DramUppers : UpperOK(s.upper[u])
    /\ DOMAIN s.chans = 1 .. Channels
    /\ \A n \in 1 .. Channels : /\ DramChannelOK(n, s.chans[n])
                                /\ s.chans[n].bank = before[n].bank
                                /\ s.chans[n].active = before[n].active

\* Who waits above: for his own level, and at a request that asks for a response.
QueueTied(own, u, q) ==
    \A k \in DOMAIN q : /\ q[k].waiters \subseteq DOMAIN own
                        /\ \A w \in q[k].waiters : own[w] = u /\ q[k].reply

UpperTied(own, u, x) ==
    /\ QueueTied(own, u, x.RQ) /\ QueueTied(own, u, x.PQ)
    /\ \A k \in DOMAIN x.WQ : x.WQ[k].waiters = {}

TakeTied(own, s) ==
    /\ \A u \in 1 .. DramUppers : UpperTied(own, u, s.upper[u])
    /\ \A n \in 1 .. Channels : Tied(own, s.chans[n])

\* No channel has w in its slots, or one has, once.
NoneSent(x, w) == \A n \in 1 .. Channels : NoneHeld(x[n], w)
OneSent(x, w)  == \E n \in 1 .. Channels :
                     /\ OneHeld(x[n], w)
                     /\ \A k \in 1 .. Channels : k # n => NoneHeld(x[k], w)

\* w waits nowhere in the queues of level x and the channels, or once.
NoneWaits(x, chs, w) == NoneIn(x.RQ, w) /\ NoneIn(x.PQ, w) /\ NoneSent(chs, w)
OneWaits(x, chs, w) ==
    \/ OneIn(x.RQ, w)  /\ NoneIn(x.PQ, w) /\ NoneSent(chs, w)
    \/ NoneIn(x.RQ, w) /\ OneIn(x.PQ, w)  /\ NoneSent(chs, w)
    \/ NoneIn(x.RQ, w) /\ NoneIn(x.PQ, w) /\ OneSent(chs, w)

\* Taking requests loses none that wait, doubles none and gives no response.
TakeOwes(s, t) ==
    /\ \A u \in 1 .. DramUppers : t.upper[u].returned = s.upper[u].returned
    /\ \A own : TakeTied(own, s) =>
        /\ TakeTied(own, t)
        /\ \A u \in 1 .. DramUppers : \A w : w \in DOMAIN own /\ own[w] = u =>
             /\ NoneWaits(s.upper[u], s.chans, w) => NoneWaits(t.upper[u], t.chans, w)
             /\ OneWaits(s.upper[u], s.chans, w) => OneWaits(t.upper[u], t.chans, w)

LEMMA TakeOwesSame == \A s : TakeOwes(s, s)
BY DEF TakeOwes

LEMMA TakeOwesOn == \A s, t, x : TakeOwes(s, t) /\ TakeOwes(t, x) => TakeOwes(s, x)
BY DEF TakeOwes

\* The front of a queue leaves it.
LEMMA TailWaits ==
    ASSUME NEW E, NEW q \in Seq(E), q # << >>, NEW w
    PROVE  /\ NoneIn(q, w) => w \notin Head(q).waiters /\ NoneIn(Tail(q), w)
           /\ OneIn(q, w) /\ w \in Head(q).waiters => NoneIn(Tail(q), w)
           /\ OneIn(q, w) /\ w \notin Head(q).waiters => OneIn(Tail(q), w)
<1>. DEFINE t == Tail(q)
            n == Len(q)
            h == Head(q)
<1>1. /\ n \in Nat /\ n # 0 /\ DOMAIN q = 1 .. n /\ DOMAIN t = 1 .. n - 1
      /\ h = q[1] /\ \A k \in 1 .. n - 1 : t[k] = q[k + 1]
  <2>1. n \in Nat /\ DOMAIN q = 1 .. n /\ n # 0
    BY LenProperties, EmptySeq
  <2>2. t \in Seq(E) /\ Len(t) = n - 1 /\ \A k \in 1 .. Len(t) : t[k] = q[k + 1]
    BY HeadTailProperties
  <2>3. DOMAIN t = 1 .. n - 1
    BY <2>2, LenProperties
  <2>4. h = q[1]
    OBVIOUS
  <2>. HIDE DEF t, n, h
  <2>. QED BY <2>1, <2>2, <2>3, <2>4
<1>. HIDE DEF t, n, h
<1>2. 1 \in 1 .. n /\ \A k \in 1 .. n - 1 : k + 1 \in 1 .. n /\ k + 1 # 1
  BY <1>1
<1>3. \A k \in 1 .. n : k # 1 => k - 1 \in 1 .. n - 1 /\ (k - 1) + 1 = k
  BY <1>1
<1>4. NoneIn(q, w) => w \notin h.waiters /\ NoneIn(t, w)
  BY <1>1, <1>2 DEF NoneIn
<1>5. ASSUME OneIn(q, w)
      PROVE  /\ w \in h.waiters => NoneIn(t, w)
             /\ w \notin h.waiters => OneIn(t, w)
  <2>1. PICK k \in 1 .. n : w \in q[k].waiters /\ \A l \in 1 .. n : w \in q[l].waiters => l = k
    BY <1>1, <1>5 DEF OneIn
  <2>2. w \in h.waiters => NoneIn(t, w)
    BY <1>1, <1>2, <2>1 DEF NoneIn
  <2>3. ASSUME w \notin h.waiters PROVE OneIn(t, w)
    <3>1. k # 1
      BY <1>1, <2>1, <2>3
    <3>. DEFINE j == k - 1
    <3>2. j \in 1 .. n - 1 /\ j + 1 = k
      BY <1>3, <3>1
    <3>. HIDE DEF j
    <3>3. w \in t[j].waiters
      BY <1>1, <2>1, <3>2
    <3>4. ASSUME NEW l \in 1 .. n - 1, w \in t[l].waiters PROVE l = j
      <4>1. l + 1 = k
        BY <1>1, <1>2, <2>1, <3>4
      <4>. QED BY <1>1, <3>2, <4>1
    <3>. QED BY <1>1, <3>2, <3>3, <3>4 DEF OneIn
  <2>. QED BY <2>2, <2>3
<1>. QED BY <1>4, <1>5 DEF t, h

\* One slot of a channel gets request e, of level u, or a write.
LEMMA SlotFilled ==
    ASSUME NEW own, NEW c, NEW d, Tied(own, c), NEW into \in Modes, NEW i \in Slots(into), NEW e,
           e.used, ~c[into][i].used, d[into][i] = e,
           \A m \in Modes : \A j \in Slots(m) : ~(m = into /\ j = i) => d[m][j] = c[m][j],
           into = "RQ" => Informs(own, e),
           into = "WQ" => e.waiters = {} /\ e.to = {}
    PROVE  /\ Tied(own, d)
           /\ \A w : into = "WQ" \/ w \notin e.waiters =>
                        /\ NoneHeld(c, w) => NoneHeld(d, w)
                        /\ OneHeld(c, w) => OneHeld(d, w)
           /\ \A w : into = "RQ" /\ w \in e.waiters /\ NoneHeld(c, w) => OneHeld(d, w)
<1>1. CASE into = "RQ"
  <2>1. /\ d.RQ[i] = e /\ ~c.RQ[i].used /\ i \in Slots("RQ")
        /\ \A j \in Slots("RQ") : j # i => d.RQ[j] = c.RQ[j]
        /\ \A j \in Slots("WQ") : d.WQ[j] = c.WQ[j]
    BY <1>1 DEF Modes
  <2>2. Tied(own, d)
    BY <1>1, <2>1 DEF Tied
  <2>3. \A w : /\ HoldsAt(d, w, i) <=> w \in e.waiters
               /\ ~HoldsAt(c, w, i)
               /\ \A j \in Slots("RQ") : j # i => (HoldsAt(d, w, j) <=> HoldsAt(c, w, j))
    BY <2>1 DEF HoldsAt
  <2>4. \A w : w \notin e.waiters /\ NoneHeld(c, w) => NoneHeld(d, w)
    BY <2>1, <2>3 DEF NoneHeld
  <2>5. \A w : w \notin e.waiters /\ OneHeld(c, w) => OneHeld(d, w)
    BY <2>1, <2>3 DEF OneHeld
  <2>6. \A w : w \in e.waiters /\ NoneHeld(c, w) => OneHeld(d, w)
    BY <2>1, <2>3 DEF NoneHeld, OneHeld
  <2>. QED BY <1>1, <2>2, <2>4, <2>5, <2>6
<1>2. CASE into = "WQ"
  <2>1. /\ \A j \in Slots("RQ") : d.RQ[j] = c.RQ[j]
        /\ \A j \in Slots("WQ") : d.WQ[j] = IF j = i THEN e ELSE c.WQ[j]
    BY <1>2 DEF Modes
  <2>2. Tied(own, d)
    BY <1>2, <2>1 DEF Tied
  <2>3. \A w : /\ NoneHeld(c, w) => NoneHeld(d, w)
               /\ OneHeld(c, w) => OneHeld(d, w)
    BY <2>1 DEF NoneHeld, OneHeld, HoldsAt
  <2>. QED BY <1>2, <2>2, <2>3
<1>. QED BY <1>1, <1>2 DEF Modes

\* initiate_requests takes the writes to the WQ, and the rest to the RQ.
Goes(from, into) == from = "WQ" <=> into = "WQ"

\* add_rq and add_wq fill a free slot of the request's own channel.
LEMMA AcceptedOK ==
    ASSUME NEW before, NEW s, TakingOK(before, s), NEW u \in 1 .. DramUppers,
           NEW from \in Froms, NEW into \in Modes, Goes(from, into), Accepts(s, u, from, into)
    PROVE  TakingOK(before, Accepted(s, u, from, into)) /\ TakeOwes(s, Accepted(s, u, from, into))
<1>. DEFINE t == Accepted(s, u, from, into)
            r == Head(s.upper[u][from])
            n == ChannelOf(r.addr)
            q == s.chans[n][into]
            i == First(DOMAIN q \ Used(q))
            e == Entry(r, IF into = "RQ" /\ r.reply THEN {u} ELSE {})
<1>1. /\ UpperOK(s.upper[u]) /\ DOMAIN s.upper = 1 .. DramUppers /\ DOMAIN s.chans = 1 .. Channels
      /\ DOMAIN s = {"upper", "chans"}
  BY DEF TakingOK
<1>2. s.upper[u][from] \in Seq(Demands) /\ s.upper[u][from] # << >>
  BY <1>1 DEF UpperOK, Froms, Accepts
<1>3. r \in Demands /\ Tail(s.upper[u][from]) \in Seq(Demands)
  BY <1>2, HeadTailProperties
<1>4. r.addr \in Nat
  BY <1>3 DEF Demands
<1>5. n \in 1 .. Channels
  BY <1>4, ChannelInRange
<1>6. Used(q) # DOMAIN q
  BY DEF Accepts
<1>7. t = [s EXCEPT !.upper[u][from] = Tail(@), !.chans[n][into][i] = e]
  BY DEF Accepted
<1>8. SlotOK(n, e) /\ ~e.scheduled
  BY <1>4 DEF SlotOK, Entry
<1>. HIDE DEF t, n, e
<1>9. DramChannelOK(n, s.chans[n]) /\ ShapeOK(n, s.chans[n])
  BY <1>5 DEF TakingOK, DramChannelOK
<1>10. DOMAIN q = Slots(into)
  BY <1>9 DEF ShapeOK
<1>11. i \in Slots(into) /\ ~q[i].used
  <2>. DEFINE S == DOMAIN q \ Used(q)
  <2>1. S \in SUBSET Nat /\ S # {} /\ \A j \in S : j \in Slots(into) /\ (j \in DOMAIN q /\ ~q[j].used)
    BY <1>6, <1>10, DramConstants DEF Used
  <2>2. First(S) \in S
    <3>. HIDE DEF S
    <3>. QED BY <2>1, FirstOfSet
  <2>. QED BY <2>1, <2>2
<1>. HIDE DEF i, q, r
<1>12. DOMAIN t = {"upper", "chans"}
  BY <1>1, <1>7
<1>13. t.upper = [s.upper EXCEPT ![u] = [s.upper[u] EXCEPT ![from] = Tail(s.upper[u][from])]]
  BY <1>1, <1>7 DEF r
<1>14. t.chans = [s.chans EXCEPT ![n] = [s.chans[n] EXCEPT ![into] = [q EXCEPT ![i] = e]]]
  BY <1>1, <1>5, <1>7, <1>9 DEF q
<1>15. /\ DOMAIN t.upper = 1 .. DramUppers
       /\ \A v \in 1 .. DramUppers : UpperOK(t.upper[v])
  <2>1. DOMAIN t.upper = 1 .. DramUppers /\ \A v \in 1 .. DramUppers : v # u => t.upper[v] = s.upper[v]
    BY <1>1, <1>13
  <2>2. UpperOK(t.upper[u])
    <3>1. t.upper[u] = [s.upper[u] EXCEPT ![from] = Tail(s.upper[u][from])]
      BY <1>1, <1>13
    <3>. QED BY <1>1, <1>3, <3>1 DEF UpperOK, Froms
  <2>. QED BY <2>1, <2>2 DEF TakingOK
<1>. DEFINE p == [q EXCEPT ![i] = e]
            d == [s.chans[n] EXCEPT ![into] = p]
<1>16. ~Given(s.chans[n], into, i)
  BY <1>11 DEF Given, q
<1>17. QueueKept(n, s.chans[n], into, p)
  BY <1>8, <1>9, <1>11, <1>16, SlotSet DEF q
<1>18. GivenKept(n, s.chans[n], d)
  <2>. HIDE DEF p
  <2>. QED BY <1>9, <1>17, QueueSet
<1>19. t.chans[n] = d /\ DOMAIN t.chans = 1 .. Channels
       /\ \A k \in 1 .. Channels : k # n => t.chans[k] = s.chans[k]
  BY <1>1, <1>5, <1>14
<1>. HIDE DEF d
<1>20. DramChannelOK(n, d) /\ d.bank = s.chans[n].bank /\ d.active = s.chans[n].active
  BY <1>9, <1>18, GivenKeptOK DEF GivenKept
<1>21. \A k \in 1 .. Channels : /\ DramChannelOK(k, t.chans[k])
                                /\ t.chans[k].bank = before[k].bank
                                /\ t.chans[k].active = before[k].active
  BY <1>5, <1>19, <1>20 DEF TakingOK
<1>22. TakingOK(before, t)
  BY <1>12, <1>15, <1>19, <1>21 DEF TakingOK
<1>23. /\ \A v \in 1 .. DramUppers : v # u => t.upper[v] = s.upper[v]
       /\ DOMAIN s.upper[u] = {"RQ", "WQ", "PQ", "returned"}
       /\ t.upper[u] = [s.upper[u] EXCEPT ![from] = Tail(s.upper[u][from])]
  BY <1>1, <1>13 DEF UpperOK
<1>24. /\ t.upper[u].returned = s.upper[u].returned
       /\ t.upper[u][from] = Tail(s.upper[u][from])
       /\ \A f \in Froms : f # from => t.upper[u][f] = s.upper[u][f]
  BY <1>23 DEF Froms
<1>25. /\ d[into] = p /\ \A m \in Modes : m # into => d[m] = s.chans[n][m]
       /\ p[i] = e /\ \A j \in Slots(into) : j # i => p[j] = s.chans[n][into][j]
  <2>1. d[into] = p /\ \A m \in Modes : m # into => d[m] = s.chans[n][m]
    <3>. HIDE DEF p
    <3>. QED BY <1>9 DEF ShapeOK, Modes, d
  <2>2. p[i] = e /\ \A j \in Slots(into) : j # i => p[j] = s.chans[n][into][j]
    BY <1>10, <1>11 DEF q
  <2>. QED BY <2>1, <2>2
<1>. HIDE DEF p
<1>26. /\ e.used /\ e.waiters = r.waiters
       /\ e.to = IF into = "RQ" /\ r.reply THEN {u} ELSE {}
  BY DEF e, Entry
<1>27. ASSUME NEW own, TakeTied(own, s)
       PROVE  /\ TakeTied(own, t)
              /\ \A v \in 1 .. DramUppers : \A w : w \in DOMAIN own /\ own[w] = v =>
                   /\ NoneWaits(s.upper[v], s.chans, w) => NoneWaits(t.upper[v], t.chans, w)
                   /\ OneWaits(s.upper[v], s.chans, w) => OneWaits(t.upper[v], t.chans, w)
  <2>1. /\ from # "WQ" => r.waiters \subseteq DOMAIN own /\ \A w \in r.waiters : own[w] = u /\ r.reply
        /\ from = "WQ" => r.waiters = {}
    <3>1. 1 \in DOMAIN s.upper[u][from] /\ r = s.upper[u][from][1]
      BY <1>2, HeadTailProperties, LenProperties, EmptySeq DEF r
    <3>2. UpperTied(own, u, s.upper[u])
      BY <1>27 DEF TakeTied
    <3>. QED BY <3>1, <3>2 DEF UpperTied, QueueTied, Froms
  <2>2. /\ into = "RQ" => Informs(own, e)
        /\ into = "WQ" => e.waiters = {} /\ e.to = {}
    BY <1>26, <2>1 DEF Informs, Goes
  <2>3. /\ Tied(own, d)
        /\ \A w : into = "WQ" \/ w \notin e.waiters =>
                        /\ NoneHeld(s.chans[n], w) => NoneHeld(d, w)
                        /\ OneHeld(s.chans[n], w) => OneHeld(d, w)
        /\ \A w : into = "RQ" /\ w \in e.waiters /\ NoneHeld(s.chans[n], w) => OneHeld(d, w)
    <3>1. Tied(own, s.chans[n])
      BY <1>5, <1>27 DEF TakeTied
    <3>2. \A m \in Modes : \A j \in Slots(m) : ~(m = into /\ j = i) => d[m][j] = s.chans[n][m][j]
      BY <1>25
    <3>3. d[into][i] = e /\ ~s.chans[n][into][i].used
      BY <1>11, <1>25 DEF q
    <3>. QED BY <1>11, <1>26, <2>2, <3>1, <3>2, <3>3, SlotFilled
  <2>4. UpperTied(own, u, t.upper[u])
    <3>. DEFINE a == s.upper[u][from]
    <3>1. \A k \in DOMAIN Tail(a) : k + 1 \in DOMAIN a /\ Tail(a)[k] = a[k + 1]
      <4>1. a \in Seq(Demands) /\ a # << >>
        BY <1>2
      <4>. HIDE DEF a
      <4>2. /\ Len(a) \in Nat /\ DOMAIN a = 1 .. Len(a)
            /\ DOMAIN Tail(a) = 1 .. Len(a) - 1
            /\ \A k \in 1 .. Len(a) - 1 : Tail(a)[k] = a[k + 1]
        BY <4>1, HeadTailProperties, LenProperties
      <4>. QED BY <4>2
    <3>. HIDE DEF a
    <3>2. UpperTied(own, u, s.upper[u])
      BY <1>27 DEF TakeTied
    <3>3. t.upper[u][from] = Tail(a) /\ s.upper[u][from] = a
      BY <1>24 DEF a
    <3>4. \A f \in Froms : f # from => t.upper[u][f] = s.upper[u][f]
      BY <1>24
    <3>5. QueueTied(own, u, a) => QueueTied(own, u, Tail(a))
      BY <3>1 DEF QueueTied
    <3>6. (\A k \in DOMAIN a : a[k].waiters = {}) => \A k \in DOMAIN Tail(a) : Tail(a)[k].waiters = {}
      BY <3>1
    <3>7. QueueTied(own, u, t.upper[u].RQ)
      BY <3>2, <3>3, <3>4, <3>5 DEF UpperTied, Froms
    <3>8. QueueTied(own, u, t.upper[u].PQ)
      BY <3>2, <3>3, <3>4, <3>5 DEF UpperTied, Froms
    <3>9. \A k \in DOMAIN t.upper[u].WQ : t.upper[u].WQ[k].waiters = {}
      <4>1. CASE from = "WQ"
        BY <3>2, <3>3, <3>6, <4>1 DEF UpperTied
      <4>2. CASE from # "WQ"
        BY <3>2, <3>4, <4>2 DEF UpperTied, Froms
      <4>. QED BY <4>1, <4>2
    <3>. QED BY <3>7, <3>8, <3>9 DEF UpperTied
  <2>5. TakeTied(own, t)
    BY <1>19, <1>23, <1>27, <2>3, <2>4 DEF TakeTied
  <2>6. ASSUME NEW w, w \notin r.waiters
        PROVE  /\ NoneSent(s.chans, w) => NoneSent(t.chans, w)
               /\ OneSent(s.chans, w) => OneSent(t.chans, w)
    <3>1. \A k \in 1 .. Channels : /\ NoneHeld(s.chans[k], w) => NoneHeld(t.chans[k], w)
                                   /\ OneHeld(s.chans[k], w) => OneHeld(t.chans[k], w)
      BY <1>19, <1>26, <2>3, <2>6
    <3>. QED BY <3>1 DEF NoneSent, OneSent
  <2>7. ASSUME NEW w, w \in r.waiters, NoneSent(s.chans, w)
        PROVE  OneSent(t.chans, w)
    <3>1. into = "RQ"
      BY <2>1, <2>7 DEF Goes, Modes
    <3>2. OneHeld(t.chans[n], w)
      BY <1>5, <1>19, <1>26, <2>3, <2>7, <3>1 DEF NoneSent
    <3>3. \A k \in 1 .. Channels : k # n => NoneHeld(t.chans[k], w)
      BY <1>19, <2>7 DEF NoneSent
    <3>. QED BY <1>5, <3>2, <3>3 DEF OneSent
  <2>8. ASSUME NEW v \in 1 .. DramUppers, NEW w, w \in DOMAIN own, own[w] = v
        PROVE  /\ NoneWaits(s.upper[v], s.chans, w) => NoneWaits(t.upper[v], t.chans, w)
               /\ OneWaits(s.upper[v], s.chans, w) => OneWaits(t.upper[v], t.chans, w)
    <3>1. CASE v # u
      <4>1. w \notin r.waiters /\ t.upper[v] = s.upper[v]
        BY <1>23, <2>1, <2>8, <3>1
      <4>. QED BY <2>6, <4>1 DEF NoneWaits, OneWaits
    <3>2. CASE v = u
      <4>. DEFINE a == s.upper[u]
                  b == t.upper[u]
      <4>1. /\ NoneIn(a[from], w) => w \notin r.waiters /\ NoneIn(b[from], w)
            /\ OneIn(a[from], w) /\ w \in r.waiters => NoneIn(b[from], w)
            /\ OneIn(a[from], w) /\ w \notin r.waiters => OneIn(b[from], w)
        BY <1>2, <1>24, TailWaits DEF r
      <4>2. \A f \in Froms : f # from => b[f] = a[f]
        BY <1>24
      <4>. HIDE DEF a, b
      <4>3. w \in r.waiters => from # "WQ"
        BY <2>1
      <4>4. /\ NoneWaits(a, s.chans, w) => NoneWaits(b, t.chans, w)
            /\ OneWaits(a, s.chans, w) => OneWaits(b, t.chans, w)
        <5>1. CASE from = "RQ"
          BY <2>6, <2>7, <4>1, <4>2, <5>1 DEF Froms, NoneWaits, OneWaits
        <5>2. CASE from = "PQ"
          BY <2>6, <2>7, <4>1, <4>2, <5>2 DEF Froms, NoneWaits, OneWaits
        <5>3. CASE from = "WQ"
          BY <2>6, <4>2, <4>3, <5>3 DEF Froms, NoneWaits, OneWaits
        <5>. QED BY <5>1, <5>2, <5>3 DEF Froms
      <4>. QED BY <3>2, <4>4 DEF a, b
    <3>. QED BY <3>1, <3>2
  <2>. QED BY <2>5, <2>8
<1>28. TakeOwes(s, t)
  BY <1>23, <1>24, <1>27 DEF TakeOwes
<1>. QED BY <1>22, <1>28 DEF t

TakeStep(par, s, k) ==
    IF Accepts(s, par.u, par.from, par.into) THEN Accepted(s, par.u, par.from, par.into) ELSE s

TakeInv(par, k, s) == TakingOK(par.before, s) /\ TakeOwes(par.s, s)

TakeLoop == INSTANCE FoldInduction WITH Op <- TakeStep, Inv <- TakeInv

LEMMA TakenFromOK ==
    ASSUME NEW before, NEW s, TakingOK(before, s), NEW u \in 1 .. DramUppers,
           NEW from \in Froms, NEW into \in Modes, Goes(from, into)
    PROVE  TakingOK(before, TakenFrom(s, u, from, into)) /\ TakeOwes(s, TakenFrom(s, u, from, into))
<1>. DEFINE par == [u |-> u, from |-> from, into |-> into, before |-> before, s |-> s]
            t == TakenFrom(s, u, from, into)
<1>0. par.u = u /\ par.from = from /\ par.into = into /\ par.before = before /\ par.s = s
  OBVIOUS
<1>. HIDE DEF par
<1>1. t = TakeLoop!Fold(par, s, s.upper[u][from])
  BY <1>0 DEF TakenFrom, TakeLoop!Fold, TakeStep, FoldLeft, TakeLoop!FoldLeft,
         MapThenFoldSet, TakeLoop!MapThenFoldSet, Max, TakeLoop!Max
<1>2. s.upper[u][from] \in Seq(Demands)
  BY DEF TakingOK, UpperOK, Froms
<1>3. TakeInv(par, 0, s)
  BY <1>0, TakeOwesSame DEF TakeInv
<1>4. TakeLoop!Keeps(par, s.upper[u][from])
  <2>. SUFFICES ASSUME NEW x, TakingOK(before, x), TakeOwes(s, x)
                PROVE  TakingOK(before, TakeStep(par, x, 0)) /\ TakeOwes(s, TakeStep(par, x, 0))
    BY <1>0 DEF TakeLoop!Keeps, TakeInv, TakeStep
  <2>1. CASE Accepts(x, u, from, into)
    <3>. DEFINE y == Accepted(x, u, from, into)
    <3>1. TakingOK(before, y) /\ TakeOwes(x, y)
      BY <2>1, AcceptedOK
    <3>2. TakeStep(par, x, 0) = y
      BY <1>0, <2>1 DEF TakeStep
    <3>. HIDE DEF y
    <3>. QED BY <3>1, <3>2, TakeOwesOn
  <2>2. CASE ~Accepts(x, u, from, into)
    BY <1>0, <2>2 DEF TakeStep
  <2>. QED BY <2>1, <2>2
<1>5. TakeInv(par, Len(s.upper[u][from]), t)
  BY <1>1, <1>2, <1>3, <1>4, TakeLoop!FoldKeeps
<1>. QED BY <1>0, <1>5 DEF TakeInv

UppersStep(par, s, u) ==
    TakenFrom(TakenFrom(TakenFrom(s, u, "RQ", "RQ"), u, "PQ", "RQ"), u, "WQ", "WQ")

UppersInv(par, k, s) == TakingOK(par.before, s) /\ TakeOwes(par.s, s)

UppersLoop == INSTANCE FoldInduction WITH Op <- UppersStep, Inv <- UppersInv

LEMMA InitiateOK ==
    ASSUME NEW before, NEW s, TakingOK(before, s)
    PROVE  TakingOK(before, InitiateRequests(s)) /\ TakeOwes(s, InitiateRequests(s))
<1>. DEFINE q == [u \in 1 .. DramUppers |-> u]
            t == InitiateRequests(s)
            par == [before |-> before, s |-> s]
<1>0. par.before = before /\ par.s = s
  OBVIOUS
<1>. HIDE DEF par
<1>1. t = UppersLoop!Fold(par, s, q)
  BY DEF InitiateRequests, UppersLoop!Fold, UppersStep, FoldLeft, UppersLoop!FoldLeft,
         MapThenFoldSet, UppersLoop!MapThenFoldSet, Max, UppersLoop!Max
<1>2. DOMAIN q = 1 .. DramUppers /\ \A k \in 1 .. DramUppers : q[k] = k
  OBVIOUS
<1>. HIDE DEF q, t
<1>3. UppersInv(par, 0, s)
  BY <1>0, TakeOwesSame DEF UppersInv
<1>4. UppersLoop!KeepsTo(par, q, DramUppers)
  <2>. SUFFICES ASSUME NEW u \in 1 .. DramUppers, NEW x, TakingOK(before, x), TakeOwes(s, x)
                PROVE  TakingOK(before, UppersStep(par, x, u)) /\ TakeOwes(s, UppersStep(par, x, u))
    BY <1>0, <1>2 DEF UppersLoop!KeepsTo, UppersInv
  <2>. DEFINE a == TakenFrom(x, u, "RQ", "RQ")
              b == TakenFrom(a, u, "PQ", "RQ")
              c == TakenFrom(b, u, "WQ", "WQ")
  <2>1. /\ "RQ" \in Froms /\ "PQ" \in Froms /\ "WQ" \in Froms /\ "RQ" \in Modes /\ "WQ" \in Modes
        /\ Goes("RQ", "RQ") /\ Goes("PQ", "RQ") /\ Goes("WQ", "WQ")
    BY DEF Froms, Modes, Goes
  <2>2. TakingOK(before, a) /\ TakeOwes(x, a)
    BY <2>1, TakenFromOK
  <2>. HIDE DEF a
  <2>3. TakingOK(before, b) /\ TakeOwes(a, b)
    BY <2>1, <2>2, TakenFromOK
  <2>. HIDE DEF b
  <2>4. TakingOK(before, c) /\ TakeOwes(b, c)
    BY <2>1, <2>3, TakenFromOK
  <2>. HIDE DEF c
  <2>5. TakeOwes(s, a)
    BY <2>2, TakeOwesOn
  <2>6. TakeOwes(s, b)
    BY <2>3, <2>5, TakeOwesOn
  <2>7. TakeOwes(s, c)
    BY <2>4, <2>6, TakeOwesOn
  <2>8. c = UppersStep(par, x, u)
    BY DEF UppersStep, a, b, c
  <2>. QED BY <2>4, <2>7, <2>8
<1>5. UppersInv(par, DramUppers, t)
  BY <1>1, <1>2, <1>3, <1>4, DramConstants, UppersLoop!FoldKeepsTo
<1>. QED BY <1>0, <1>5 DEF UppersInv, t

-----------------------------------------------------------------------------
(* The invariant                                                           *)

LEMMA DramInitial == DramInit => DramIInv
<1>. SUFFICES ASSUME DramInit PROVE DramIInv
  OBVIOUS
<1>1. DOMAIN upper = 1 .. DramUppers /\ \A u \in 1 .. DramUppers : UpperOK(upper[u])
  <2>1. << >> \in Seq(Demands)
    BY EmptySeq
  <2>2. /\ DOMAIN NoRequests = {"RQ", "WQ", "PQ", "returned"}
        /\ NoRequests.RQ = << >> /\ NoRequests.WQ = << >> /\ NoRequests.PQ = << >>
    BY DEF NoRequests
  <2>3. UpperOK(NoRequests)
    BY <2>1, <2>2 DEF UpperOK
  <2>. QED BY <2>3 DEF DramInit
<1>2. ASSUME NEW n \in 1 .. Channels
      PROVE  /\ DOMAIN chans = 1 .. Channels /\ DramChannelOK(n, chans[n])
             /\ \A b \in 1 .. Banks : ~chans[n].bank[b].valid
  <2>. DEFINE c == chans[n]
  <2>1. /\ DOMAIN chans = 1 .. Channels
        /\ c = [RQ        |-> [i \in 1 .. RqSlots |-> Free],
                WQ        |-> [i \in 1 .. WqSlots |-> Free],
                bank      |-> [b \in 1 .. Banks |-> Idle],
                active    |-> 0,
                writeMode |-> FALSE,
                busFree   |-> 0]
    BY DEF DramInit
  <2>. HIDE DEF c
  <2>a. /\ DOMAIN c = {"RQ", "WQ", "bank", "active", "writeMode", "busFree"}
        /\ c.RQ = [i \in 1 .. RqSlots |-> Free] /\ c.WQ = [i \in 1 .. WqSlots |-> Free]
        /\ c.bank = [b \in 1 .. Banks |-> Idle] /\ c.active = 0
    BY <2>1
  <2>2. \A m \in Modes : DOMAIN c[m] = Slots(m) /\ \A i \in Slots(m) : c[m][i] = Free
    BY <2>a, DramConstants DEF Modes
  <2>3. BankOK(Idle) /\ ~Idle.valid
    BY DramConstants DEF BankOK, Idle, Modes
  <2>4. ShapeOK(n, c)
    BY <2>a, <2>2, <2>3, FreeSlotOK, DramConstants DEF ShapeOK
  <2>5. Matched(c)
    BY <2>a, <2>2, <2>3, FreeSlotOK DEF Matched, Given
  <2>. QED BY <2>1, <2>3, <2>4, <2>5 DEF DramChannelOK, c
<1>3. dramAsked \in Seq([addr : Nat, reply : BOOLEAN, upper : 1 .. DramUppers])
  BY EmptySeq DEF DramInit
<1>. QED BY <1>1, <1>2, <1>3, DramConstants DEF DramIInv

\* One call of operate: requests are taken, and every channel has its cycle.
LEMMA OperateStep ==
    ASSUME DramIInv, DramOperate
    PROVE  /\ DramIInv'
           /\ \A n \in 1 .. Channels : LET c == chans[n]
                                           b == c.active
                                           x == chans'[n]
              IN  b # 0 /\ x.active # b => ~x[c.bank[b].queue][c.bank[b].slot].used
<1>. DEFINE s0 == [upper |-> upper, chans |-> chans]
            s  == InitiateRequests(s0)
            d(n) == DramTick(Cycle(s.chans[n]).c)
<1>1. s0.upper = upper /\ s0.chans = chans /\ DOMAIN s0 = {"upper", "chans"}
  OBVIOUS
<1>2. PICK g : /\ upper' = [u \in 1 .. DramUppers |-> [s.upper[u] EXCEPT !.returned = g[u]]]
               /\ DOMAIN chans' = 1 .. Channels
               /\ \A n \in 1 .. Channels : chans'[n] = d(n)
               /\ warmup' = warmup /\ dramAsked' = dramAsked
  <2>. DEFINE done == [n \in 1 .. Channels |-> Cycle(s.chans[n])]
              g == [u \in 1 .. DramUppers |-> AllToldTo(u, s.upper[u].returned, done)]
  <2>1. /\ upper' = [u \in 1 .. DramUppers |->
                        [s.upper[u] EXCEPT !.returned = AllToldTo(u, @, done)]]
        /\ chans' = [n \in 1 .. Channels |-> DramTick(done[n].c)]
        /\ warmup' = warmup /\ dramAsked' = dramAsked
    BY DEF DramOperate
  <2>2. \A n \in 1 .. Channels : done[n] = Cycle(s.chans[n])
    OBVIOUS
  <2>. HIDE DEF s, done
  <2>3. upper' = [u \in 1 .. DramUppers |-> [s.upper[u] EXCEPT !.returned = g[u]]]
    BY <2>1
  <2>. HIDE DEF g
  <2>. QED BY <2>1, <2>2, <2>3 DEF s
<1>. HIDE DEF s, s0, d
<1>3. TakingOK(chans, s)
  <2>1. TakingOK(chans, s0)
    BY <1>1 DEF TakingOK, DramIInv
  <2>. QED BY <2>1, InitiateOK DEF s
<1>4. ASSUME NEW n \in 1 .. Channels
      PROVE  /\ PartOfCycle(n, s.chans[n], chans'[n])
             /\ warmup => Quiet(chans'[n])
  <2>1. DramChannelOK(n, s.chans[n]) /\ s.chans[n].bank = chans[n].bank
    BY <1>3 DEF TakingOK
  <2>2. warmup => \A b \in 1 .. Banks : ~s.chans[n].bank[b].valid
    BY <2>1 DEF DramIInv
  <2>3. /\ PartOfCycle(n, s.chans[n], d(n))
        /\ warmup => Quiet(d(n))
    BY <2>1, <2>2, CycleOK DEF d
  <2>. QED BY <1>2, <2>3
<1>5. DramIInv'
  <2>1. DOMAIN upper' = 1 .. DramUppers
    BY <1>2
  <2>2. ASSUME NEW u \in 1 .. DramUppers PROVE UpperOK(upper'[u])
    <3>1. upper'[u] = [s.upper[u] EXCEPT !.returned = g[u]]
      BY <1>2
    <3>2. UpperOK(s.upper[u])
      BY <1>3 DEF TakingOK
    <3>. QED BY <3>1, <3>2 DEF UpperOK
  <2>3. \A n \in 1 .. Channels : DramChannelOK(n, chans'[n])
    BY <1>4 DEF PartOfCycle
  <2>4. warmup' => \A n \in 1 .. Channels : \A b \in 1 .. Banks : ~chans'[n].bank[b].valid
    BY <1>2, <1>4 DEF Quiet
  <2>. QED BY <1>2, <2>1, <2>2, <2>3, <2>4 DEF DramIInv
<1>6. ASSUME NEW n \in 1 .. Channels,
             chans[n].active # 0, chans'[n].active # chans[n].active
      PROVE  ~chans'[n][chans[n].bank[chans[n].active].queue]
                       [chans[n].bank[chans[n].active].slot].used
  <2>. DEFINE a == s.chans[n]
              b == chans[n].active
              m == a.bank[b].queue
              i == a.bank[b].slot
  <2>1. a.bank = chans[n].bank /\ a.active = b /\ ShapeOK(n, a)
    BY <1>3 DEF TakingOK, DramChannelOK
  <2>2. b \in 1 .. Banks
    BY <1>6, <2>1, DramConstants DEF ShapeOK
  <2>3. m \in Modes /\ i \in Slots(m)
    BY <2>1, <2>2 DEF ShapeOK, BankOK
  <2>4. BusKept(a, chans'[n])
    BY <1>4 DEF PartOfCycle
  <2>. HIDE DEF a
  <2>5. OnBusOrLeft(a, b, m, i)
    BY <2>1 DEF OnBusOrLeft
  <2>6. OnBusOrLeft(chans'[n], b, m, i)
    BY <2>2, <2>3, <2>4, <2>5 DEF BusKept
  <2>. QED BY <1>6, <2>1, <2>6 DEF OnBusOrLeft
<1>. QED BY <1>5, <1>6

\* A queue of a cache above changes, the controller does not.
LEMMA UpperStep ==
    ASSUME DramIInv, NEW u \in 1 .. DramUppers, NEW x, UpperOK(x),
           upper' = [upper EXCEPT ![u] = x], UNCHANGED <<chans, warmup>>,
           dramAsked' \in Seq([addr : Nat, reply : BOOLEAN, upper : 1 .. DramUppers])
    PROVE  DramIInv'
<1>1. DOMAIN upper' = 1 .. DramUppers /\ \A v \in 1 .. DramUppers : UpperOK(upper'[v])
  BY DEF DramIInv
<1>. QED BY <1>1 DEF DramIInv

LEMMA AddedOK ==
    ASSUME NEW c, UpperOK(c), NEW r, Unchecked(r) \in Demands
    PROVE  UpperOK(AddRq(c, r)) /\ UpperOK(AddPq(c, r)) /\ UpperOK(AddWq(c, r))
<1>. DEFINE x == Unchecked(r)
<1>1. \A q \in Seq(Demands) : Append(q, x) \in Seq(Demands)
  BY AppendProperties
<1>2. AddRq(c, r) = [c EXCEPT !.RQ = Append(c.RQ, x)]
  BY DEF AddRq
<1>3. AddPq(c, r) = [c EXCEPT !.PQ = Append(c.PQ, x)]
  BY DEF AddPq
<1>4. AddWq(c, r) = [c EXCEPT !.WQ = Append(c.WQ, x)]
  BY DEF AddWq
<1>. HIDE DEF x
<1>5. UpperOK(AddRq(c, r))
  BY <1>1, <1>2 DEF UpperOK
<1>6. UpperOK(AddPq(c, r))
  BY <1>1, <1>3 DEF UpperOK
<1>7. UpperOK(AddWq(c, r))
  BY <1>1, <1>4 DEF UpperOK
<1>. QED BY <1>5, <1>6, <1>7

LEMMA SendStep ==
    ASSUME DramIInv, DramRequested
    PROVE  DramIInv' /\ UNCHANGED chans
<1>1. PICK z \in Sources : DramSend(z[1], z[2], z[3])
  BY DEF DramRequested
<1>. DEFINE u == z[1]
            a == z[2]
            w == Len(dramAsked) + 1
            R(type, reply) == Request(a, a, type, TRUE, reply, IF reply THEN {w} ELSE {})
<1>2. u \in 1 .. DramUppers /\ a \in Nat
  BY DramAssumption
<1>3. w \in Nat
  BY LenProperties DEF DramIInv
<1>4. UpperOK(upper[u]) /\ upper[u].RQ \in Seq(Demands) /\ upper[u].WQ \in Seq(Demands)
      /\ upper[u].PQ \in Seq(Demands)
  BY <1>2 DEF DramIInv, UpperOK
<1>5. UNCHANGED <<chans, warmup>>
  BY <1>1 DEF DramSend
<1>6. dramAsked' \in Seq([addr : Nat, reply : BOOLEAN, upper : 1 .. DramUppers])
  <2>. DEFINE E == [addr : Nat, reply : BOOLEAN, upper : 1 .. DramUppers]
  <2>1. dramAsked' = Append(dramAsked, [addr |-> a, reply |-> z[3] # "WQ", upper |-> u])
    BY <1>1 DEF DramSend
  <2>2. [addr |-> a, reply |-> z[3] # "WQ", upper |-> u] \in E
    BY <1>2
  <2>3. dramAsked \in Seq(E)
    BY DEF DramIInv
  <2>. HIDE DEF E
  <2>4. dramAsked' \in Seq(E)
    BY <2>1, <2>2, <2>3, AppendProperties
  <2>. QED BY <2>4 DEF E
<1>7. PICK r : /\ Unchecked(r) \in Demands
               /\ \/ upper' = [upper EXCEPT ![u] = AddRq(@, r)]
                  \/ upper' = [upper EXCEPT ![u] = AddPq(@, r)]
                  \/ upper' = [upper EXCEPT ![u] = AddWq(@, r)]
  <2>1. Unchecked(Request(a, a, "LOAD", TRUE, TRUE, {w})) \in Demands
    BY <1>2, <1>3 DEF Request, Unchecked, Demands, Types
  <2>2. Unchecked(Request(a, a, "PREFETCH", TRUE, TRUE, {w})) \in Demands
    BY <1>2, <1>3 DEF Request, Unchecked, Demands, Types
  <2>3. Unchecked(Request(a, a, "WRITE", TRUE, FALSE, {})) \in Demands
    BY <1>2, <1>3 DEF Request, Unchecked, Demands, Types
  <2>4. \/ upper' = [upper EXCEPT ![u] = AddRq(@, Request(a, a, "LOAD", TRUE, TRUE, {w}))]
        \/ upper' = [upper EXCEPT ![u] = AddPq(@, Request(a, a, "PREFETCH", TRUE, TRUE, {w}))]
        \/ upper' = [upper EXCEPT ![u] = AddWq(@, Request(a, a, "WRITE", TRUE, FALSE, {}))]
    BY <1>1, Zenon DEF DramSend
  <2>. QED BY <2>1, <2>2, <2>3, <2>4, Zenon
<1>8. DOMAIN upper = 1 .. DramUppers
  BY DEF DramIInv
<1>9. PICK x : UpperOK(x) /\ upper' = [upper EXCEPT ![u] = x]
  <2>1. UpperOK(AddRq(upper[u], r)) /\ UpperOK(AddPq(upper[u], r)) /\ UpperOK(AddWq(upper[u], r))
    BY <1>4, <1>7, AddedOK
  <2>. QED BY <1>7, <2>1
<1>10. DramIInv'
  BY <1>2, <1>5, <1>6, <1>9, UpperStep
<1>. QED BY <1>5, <1>10

LEMMA ReceivedStep ==
    ASSUME DramIInv, Received
    PROVE  DramIInv' /\ UNCHANGED chans
<1>1. PICK u \in 1 .. DramUppers : DramReceive(u)
  BY DEF Received
<1>2. UpperOK([upper[u] EXCEPT !.returned = << >>])
  BY DEF DramIInv, UpperOK
<1>3. /\ upper' = [upper EXCEPT ![u] = [upper[u] EXCEPT !.returned = << >>]]
      /\ UNCHANGED <<chans, warmup, dramAsked>>
  BY <1>1 DEF DramReceive
<1>4. DramIInv'
  BY <1>2, <1>3, UpperStep DEF DramIInv
<1>. QED BY <1>3, <1>4

\* One lemma per action gives that DramIInv is kept, and that the bus is held.
LEMMA DramStep ==
    ASSUME DramIInv, [DramNext]_dramVars
    PROVE  /\ DramIInv'
           /\ \A n \in 1 .. Channels : LET c == chans[n]
                                           b == c.active
                                           x == chans'[n]
              IN  b # 0 /\ x.active # b => ~x[c.bank[b].queue][c.bank[b].slot].used
<1>1. CASE DramOperate
  BY <1>1, OperateStep
<1>2. CASE DramRequested
  BY <1>2, SendStep
<1>3. CASE Received
  BY <1>3, ReceivedStep
<1>4. CASE EndWarmup
  BY <1>4 DEF EndWarmup, DramIInv
<1>5. CASE UNCHANGED dramVars
  BY <1>5 DEF dramVars, DramIInv
<1>. QED BY <1>1, <1>2, <1>3, <1>4, <1>5 DEF DramNext

LEMMA DramAlways == DramSpec => []DramIInv
<1>1. DramIInv /\ [DramNext]_dramVars => DramIInv'
  BY DramStep
<1>. QED BY <1>1, DramInitial, PTL DEF DramSpec

\* The banks and the slots agree for ever: no merge, forward, change of mode or reuse
\* of a slot leaves a bank working for a request that is gone or is another bank's
\* (MEMORY_CONTROLLER::operate and what it calls).
THEOREM BanksAlwaysMatch == DramSpec => []BanksMatchRequests
<1>1. DramIInv => BanksMatchRequests
  <2>. SUFFICES ASSUME DramIInv, NEW n \in 1 .. Channels
                PROVE  LET c == chans[n] IN
        /\ \A b \in 1 .. Banks : c.bank[b].valid =>
               /\ Packet(c, b).used /\ Packet(c, b).scheduled
               /\ BankOf(Packet(c, b).addr) = b /\ ChannelOf(Packet(c, b).addr) = n
        /\ \A queue \in {"RQ", "WQ"} : \A i \in Used(c[queue]) :
               c[queue][i].scheduled =>
                   \E b \in 1 .. Banks : /\ c.bank[b].valid
                                         /\ c.bank[b].queue = queue /\ c.bank[b].slot = i
        /\ c.active # 0 => c.bank[c.active].valid
    BY DEF BanksMatchRequests
  <2>. DEFINE c == chans[n]
  <2>1. ShapeOK(n, c) /\ Matched(c)
    BY DEF DramIInv, DramChannelOK
  <2>. HIDE DEF c
  <2>2. ASSUME NEW b \in 1 .. Banks, c.bank[b].valid
        PROVE  /\ Packet(c, b).used /\ Packet(c, b).scheduled
               /\ BankOf(Packet(c, b).addr) = b /\ ChannelOf(Packet(c, b).addr) = n
    <3>1. c.bank[b].queue \in Modes /\ c.bank[b].slot \in Slots(c.bank[b].queue)
      BY <2>1 DEF ShapeOK, BankOK
    <3>2. Given(c, c.bank[b].queue, c.bank[b].slot) /\ BankOf(Packet(c, b).addr) = b
      BY <2>1, <2>2 DEF Matched, Packet
    <3>3. SlotOK(n, Packet(c, b))
      BY <2>1, <3>1 DEF ShapeOK, Packet
    <3>. QED BY <3>2, <3>3 DEF Given, SlotOK, Packet
  <2>3. ASSUME NEW m \in Modes, NEW i \in Used(c[m]), c[m][i].scheduled
        PROVE  \E b \in 1 .. Banks : c.bank[b].valid /\ c.bank[b].queue = m /\ c.bank[b].slot = i
    <3>1. i \in Slots(m) /\ Given(c, m, i)
      BY <2>1, <2>3 DEF ShapeOK, Used, Given
    <3>. QED BY <2>1, <3>1 DEF Matched
  <2>4. c.active # 0 => c.bank[c.active].valid
    BY <2>1 DEF Matched
  <2>. QED BY <2>2, <2>3, <2>4 DEF c, Modes
<1>. QED BY <1>1, DramAlways, PTL

\* A request on the data bus leaves it only when it is finished: neither a change of
\* mode nor another bank takes active_request from it.
THEOREM BusStaysHeld == DramSpec => BusIsHeld
<1>1. DramIInv /\ [DramNext]_dramVars =>
        [\A n \in 1 .. Channels : LET c == chans[n]
                                      b == c.active
                                      x == chans'[n]
          IN  b # 0 /\ x.active # b => ~x[c.bank[b].queue][c.bank[b].slot].used]_dramVars
  BY DramStep
<1>. QED BY <1>1, DramAlways, PTL DEF DramSpec, BusIsHeld

-----------------------------------------------------------------------------
(* The responses, and that each read has one                               *)

\* What a level above is told
Tellings(own) == [addr : Nat, vaddr : Nat, waiters : SUBSET (DOMAIN own)]

\* w is of level u.
Mine(own, u, w) == w \in DOMAIN own /\ own[w] = u

\* A step of a queue that leaves w where it was
Unmoved(q, t, w) ==
    /\ NoneIn(q, w) => NoneIn(t, w)
    /\ OneIn(q, w) => OneIn(t, w)

LEMMA UnmovedOn == \A q, r, t, w : Unmoved(q, r, w) /\ Unmoved(r, t, w) => Unmoved(q, t, w)
BY DEF Unmoved

Telling(e) == [addr |-> e.addr, vaddr |-> e.addr, waiters |-> e.waiters]

ToldStep(par, t, e) == IF par.u \in e.to THEN Append(t, Telling(e)) ELSE t

ToldInv(par, k, t) ==
    /\ t \in Seq(Tellings(par.own))
    /\ Mine(par.own, par.u, par.w) =>
        /\ (\A l \in 1 .. k : par.w \notin par.out[l].waiters) => Unmoved(par.q, t, par.w)
        /\ (\E l \in 1 .. k : par.w \in par.out[l].waiters)
               /\ NoneIn(par.q, par.w) /\ OneIn(par.out, par.w) => OneIn(t, par.w)

ToldLoop == INSTANCE FoldInduction WITH Op <- ToldStep, Inv <- ToldInv

\* What telling level u the responses out does to q, for w
Tells(own, u, w, q, out, t) ==
    /\ t \in Seq(Tellings(own))
    /\ Mine(own, u, w) => /\ NoneIn(out, w) => Unmoved(q, t, w)
                          /\ OneIn(out, w) /\ NoneIn(q, w) => OneIn(t, w)

\* One response, for one level above
LEMMA ToldOnce ==
    ASSUME NEW own, NEW u, NEW w, NEW t \in Seq(Tellings(own)), NEW e \in Answers(own),
           NEW r, r = IF u \in e.to THEN Append(t, Telling(e)) ELSE t
    PROVE  /\ r \in Seq(Tellings(own))
           /\ w \notin e.waiters => Unmoved(t, r, w)
           /\ Mine(own, u, w) /\ w \in e.waiters /\ NoneIn(t, w) => OneIn(r, w)
<1>. DEFINE x == Telling(e)
<1>1. x \in Tellings(own) /\ x.waiters = e.waiters
  BY DEF Telling, Tellings, Answers
<1>2. Mine(own, u, w) /\ w \in e.waiters => u \in e.to
  BY DEF Mine, Answers, Informs
<1>. HIDE DEF x
<1>3. r = IF u \in e.to THEN Append(t, x) ELSE t
  BY DEF x
<1>4. r \in Seq(Tellings(own))
  BY <1>1, <1>3, AppendProperties
<1>5. w \notin e.waiters => Unmoved(t, r, w)
  BY <1>1, <1>3, AppendWaits DEF Unmoved
<1>6. Mine(own, u, w) /\ w \in e.waiters /\ NoneIn(t, w) => OneIn(r, w)
  BY <1>1, <1>2, <1>3, AppendWaits
<1>. QED BY <1>4, <1>5, <1>6

LEMMA ToldOK ==
    ASSUME NEW own, NEW u, NEW w, NEW q \in Seq(Tellings(own)), NEW out \in Seq(Answers(own))
    PROVE  Tells(own, u, w, q, out, ToldTo(u, q, out))
<1>. DEFINE par == [own |-> own, u |-> u, w |-> w, q |-> q, out |-> out]
            t   == ToldTo(u, q, out)
            n   == Len(out)
<1>0. par.own = own /\ par.u = u /\ par.w = w /\ par.q = q /\ par.out = out
  OBVIOUS
<1>. HIDE DEF par
<1>1. t = ToldLoop!Fold(par, q, out)
  BY <1>0 DEF ToldTo, ToldLoop!Fold, ToldStep, Telling, FoldLeft, ToldLoop!FoldLeft,
         MapThenFoldSet, ToldLoop!MapThenFoldSet, Max, ToldLoop!Max
<1>2. n \in Nat /\ DOMAIN out = 1 .. n
  BY LenProperties
<1>. HIDE DEF t, n
<1>3. ToldInv(par, 0, q)
  BY <1>0 DEF ToldInv, Unmoved
<1>4. ToldLoop!Keeps(par, out)
  <2>. SUFFICES ASSUME NEW k \in 1 .. n, NEW x, ToldInv(par, k - 1, x)
                PROVE  ToldInv(par, k, ToldStep(par, x, out[k]))
    BY DEF ToldLoop!Keeps, n
  <2>. DEFINE e == out[k]
              y == ToldStep(par, x, e)
  <2>1. e \in Answers(own)
    BY <1>2, ElementOfSeq
  <2>2. y = IF u \in e.to THEN Append(x, Telling(e)) ELSE x
    BY <1>0 DEF ToldStep
  <2>3. x \in Seq(Tellings(own))
    BY <1>0 DEF ToldInv
  <2>. HIDE DEF y
  <2>4. /\ y \in Seq(Tellings(own))
        /\ w \notin e.waiters => Unmoved(x, y, w)
        /\ Mine(own, u, w) /\ w \in e.waiters /\ NoneIn(x, w) => OneIn(y, w)
    <3>. HIDE DEF e
    <3>. QED BY <2>1, <2>2, <2>3, ToldOnce
  <2>5. \A l : l \in 1 .. k <=> l \in 1 .. k - 1 \/ l = k
    BY <1>2
  <2>6. \A l \in 1 .. k : l \in DOMAIN out
    BY <1>2
  <2>7. ASSUME Mine(own, u, w), \A l \in 1 .. k : w \notin out[l].waiters
        PROVE  Unmoved(q, y, w)
    <3>1. Unmoved(q, x, w)
      BY <1>0, <2>5, <2>7 DEF ToldInv
    <3>2. w \notin e.waiters
      BY <2>5, <2>7
    <3>. QED BY <2>4, <3>1, <3>2, UnmovedOn
  <2>8. ASSUME Mine(own, u, w), NEW l \in 1 .. k, w \in out[l].waiters, NoneIn(q, w), OneIn(out, w)
        PROVE  OneIn(y, w)
    <3>1. \A j \in 1 .. k : w \in out[j].waiters => j = l
      BY <2>6, <2>8 DEF OneIn
    <3>2. CASE l = k
      <4>1. \A j \in 1 .. k - 1 : w \notin out[j].waiters
        <5>1. \A j \in 1 .. k - 1 : j # k
          BY <1>2
        <5>. QED BY <2>5, <3>1, <3>2, <5>1
      <4>2. NoneIn(x, w)
        BY <1>0, <2>8, <4>1 DEF ToldInv, Unmoved
      <4>. QED BY <2>4, <2>8, <3>2, <4>2
    <3>3. CASE l # k
      <4>1. l \in 1 .. k - 1 /\ w \notin e.waiters
        <5>1. k \in 1 .. k
          BY <2>5
        <5>. QED BY <2>5, <3>1, <3>3, <5>1
      <4>2. OneIn(x, w)
        BY <1>0, <2>8, <4>1 DEF ToldInv
      <4>. QED BY <2>4, <4>1, <4>2 DEF Unmoved
    <3>. QED BY <3>2, <3>3
  <2>9. ToldInv(par, k, y)
    BY <1>0, <2>4, <2>7, <2>8 DEF ToldInv
  <2>. QED BY <2>9 DEF y
<1>5. ToldInv(par, n, t)
  BY <1>1, <1>3, <1>4, ToldLoop!FoldKeeps DEF n
<1>6. ASSUME Mine(own, u, w) PROVE /\ NoneIn(out, w) => Unmoved(q, t, w)
                                   /\ OneIn(out, w) /\ NoneIn(q, w) => OneIn(t, w)
  <2>1. NoneIn(out, w) => \A l \in 1 .. n : w \notin out[l].waiters
    BY <1>2 DEF NoneIn
  <2>2. OneIn(out, w) => \E l \in 1 .. n : w \in out[l].waiters
    BY <1>2 DEF OneIn
  <2>. QED BY <1>0, <1>5, <1>6, <2>1, <2>2 DEF ToldInv
<1>7. Tells(own, u, w, q, out, t)
  BY <1>0, <1>5, <1>6 DEF Tells, ToldInv
<1>. QED BY <1>7 DEF t

\* The channels give w no response, or one of them gives one.
NoneGiven(done, w) == \A n \in 1 .. Channels : NoneIn(done[n].out, w)
OneGiven(done, w)  == \E n \in 1 .. Channels :
                         /\ OneIn(done[n].out, w)
                         /\ \A k \in 1 .. Channels : k # n => NoneIn(done[k].out, w)

AllToldStep(par, t, d) == ToldTo(par.u, t, d.out)

AllToldInv(par, k, t) ==
    /\ t \in Seq(Tellings(par.own))
    /\ Mine(par.own, par.u, par.w) =>
        /\ (\A l \in 1 .. k : NoneIn(par.done[l].out, par.w)) => Unmoved(par.q, t, par.w)
        /\ (\E l \in 1 .. k : OneIn(par.done[l].out, par.w))
               /\ NoneIn(par.q, par.w) /\ OneGiven(par.done, par.w) => OneIn(t, par.w)

AllToldLoop == INSTANCE FoldInduction WITH Op <- AllToldStep, Inv <- AllToldInv

\* What telling level u the responses of all channels does to q, for w
TellsAll(own, u, w, q, done, t) ==
    /\ t \in Seq(Tellings(own))
    /\ Mine(own, u, w) => /\ NoneGiven(done, w) => Unmoved(q, t, w)
                          /\ OneGiven(done, w) /\ NoneIn(q, w) => OneIn(t, w)

LEMMA NoneNotOne == \A q, w : ~(NoneIn(q, w) /\ OneIn(q, w))
BY DEF NoneIn, OneIn

LEMMA AllToldOK ==
    ASSUME NEW own, NEW u, NEW w, NEW q \in Seq(Tellings(own)), NEW done,
           DOMAIN done = 1 .. Channels, \A n \in 1 .. Channels : done[n].out \in Seq(Answers(own))
    PROVE  TellsAll(own, u, w, q, done, AllToldTo(u, q, done))
<1>. DEFINE par == [own |-> own, u |-> u, w |-> w, q |-> q, done |-> done]
            t   == AllToldTo(u, q, done)
<1>0. par.own = own /\ par.u = u /\ par.w = w /\ par.q = q /\ par.done = done
  OBVIOUS
<1>. HIDE DEF par
<1>1. t = AllToldLoop!Fold(par, q, done)
  BY <1>0 DEF AllToldTo, AllToldLoop!Fold, AllToldStep, FoldLeft, AllToldLoop!FoldLeft,
         MapThenFoldSet, AllToldLoop!MapThenFoldSet, Max, AllToldLoop!Max
<1>2. Channels \in Nat
  BY DramConstants
<1>. HIDE DEF t
<1>3. AllToldInv(par, 0, q)
  BY <1>0 DEF AllToldInv, Unmoved
<1>4. AllToldLoop!KeepsTo(par, done, Channels)
  <2>. SUFFICES ASSUME NEW k \in 1 .. Channels, NEW x, AllToldInv(par, k - 1, x)
                PROVE  AllToldInv(par, k, AllToldStep(par, x, done[k]))
    BY DEF AllToldLoop!KeepsTo
  <2>. DEFINE o == done[k].out
              y == AllToldStep(par, x, done[k])
  <2>1. y = ToldTo(u, x, o)
    BY <1>0 DEF AllToldStep
  <2>2. x \in Seq(Tellings(own)) /\ o \in Seq(Answers(own))
    BY <1>0 DEF AllToldInv
  <2>. HIDE DEF y, o
  <2>3. Tells(own, u, w, x, o, y)
    BY <2>1, <2>2, ToldOK
  <2>4. \A l : l \in 1 .. k <=> l \in 1 .. k - 1 \/ l = k
    BY <1>2
  <2>5. \A l \in 1 .. k : l \in 1 .. Channels
    BY <1>2
  <2>6. ASSUME Mine(own, u, w), \A l \in 1 .. k : NoneIn(done[l].out, w)
        PROVE  Unmoved(q, y, w)
    <3>1. Unmoved(q, x, w)
      BY <1>0, <2>4, <2>6 DEF AllToldInv
    <3>2. NoneIn(o, w)
      BY <2>4, <2>6 DEF o
    <3>. QED BY <2>3, <2>6, <3>1, <3>2, UnmovedOn DEF Tells
  <2>7. ASSUME Mine(own, u, w), NEW l \in 1 .. k, OneIn(done[l].out, w),
               NoneIn(q, w), OneGiven(done, w)
        PROVE  OneIn(y, w)
    <3>1. \A j \in 1 .. k : j # l => NoneIn(done[j].out, w)
      BY <2>5, <2>7, NoneNotOne DEF OneGiven
    <3>2. CASE l = k
      <4>1. \A j \in 1 .. k - 1 : NoneIn(done[j].out, w)
        <5>1. \A j \in 1 .. k - 1 : j # k
          BY <1>2
        <5>. QED BY <2>4, <3>1, <3>2, <5>1
      <4>2. NoneIn(x, w)
        BY <1>0, <2>7, <4>1 DEF AllToldInv, Unmoved
      <4>. QED BY <2>3, <2>7, <3>2, <4>2 DEF Tells, o
    <3>3. CASE l # k
      <4>1. l \in 1 .. k - 1 /\ NoneIn(o, w)
        <5>1. k \in 1 .. k
          BY <2>4
        <5>. QED BY <2>4, <3>1, <3>3, <5>1 DEF o
      <4>2. OneIn(x, w)
        BY <1>0, <2>7, <4>1 DEF AllToldInv
      <4>. QED BY <2>3, <2>7, <4>1, <4>2 DEF Tells, Unmoved
    <3>. QED BY <3>2, <3>3
  <2>8. AllToldInv(par, k, y)
    BY <1>0, <2>3, <2>6, <2>7 DEF AllToldInv, Tells
  <2>. QED BY <2>8 DEF y
<1>5. AllToldInv(par, Channels, t)
  BY <1>1, <1>2, <1>3, <1>4, AllToldLoop!FoldKeepsTo
<1>6. TellsAll(own, u, w, q, done, t)
  <2>1. OneGiven(done, w) => \E l \in 1 .. Channels : OneIn(done[l].out, w)
    BY DEF OneGiven
  <2>. QED BY <1>0, <1>5, <2>1 DEF TellsAll, AllToldInv, NoneGiven
<1>. QED BY <1>6 DEF t

\* One call of operate moves a request that waits, or gives the response to it.
OperateWaits(own, u, w) ==
    LET q == upper[u].returned
        r == upper'[u].returned
    IN  /\ NoneWaits(upper[u], chans, w) => NoneWaits(upper'[u], chans', w) /\ Unmoved(q, r, w)
        /\ OneWaits(upper[u], chans, w) /\ NoneIn(q, w) =>
             \/ OneWaits(upper'[u], chans', w)  /\ NoneIn(r, w)
             \/ NoneWaits(upper'[u], chans', w) /\ OneIn(r, w)

\* The cycles of all channels: each request in a slot stays or is answered.
LEMMA CyclesGive ==
    ASSUME NEW own, NEW x, NEW y, NEW done,
           \A n \in 1 .. Channels : Owes([c |-> x[n], out |-> << >>], [c |-> y[n], out |-> done[n].out]),
           \A n \in 1 .. Channels : Tied(own, x[n])
    PROVE  /\ \A n \in 1 .. Channels : Tied(own, y[n]) /\ done[n].out \in Seq(Answers(own))
           /\ \A w : /\ NoneSent(x, w) => NoneSent(y, w) /\ NoneGiven(done, w)
                     /\ OneSent(x, w) => \/ OneSent(y, w)  /\ NoneGiven(done, w)
                                         \/ NoneSent(y, w) /\ OneGiven(done, w)
<1>1. ASSUME NEW n \in 1 .. Channels
      PROVE  /\ Tied(own, y[n]) /\ done[n].out \in Seq(Answers(own))
             /\ \A w : /\ NoneHeld(x[n], w) => NoneHeld(y[n], w) /\ NoneIn(done[n].out, w)
                       /\ OneHeld(x[n], w) => \/ OneHeld(y[n], w)  /\ NoneIn(done[n].out, w)
                                              \/ NoneHeld(y[n], w) /\ OneIn(done[n].out, w)
  <2>. DEFINE s == [c |-> x[n], out |-> << >>]
              t == [c |-> y[n], out |-> done[n].out]
  <2>1. s.c = x[n] /\ s.out = << >> /\ t.c = y[n] /\ t.out = done[n].out /\ Owes(s, t)
    OBVIOUS
  <2>. HIDE DEF s, t
  <2>2. s.out \in Seq(Answers(own)) /\ \A w : NoneIn(s.out, w)
    BY <2>1, EmptySeq DEF NoneIn
  <2>3. /\ Tied(own, t.c) /\ t.out \in Seq(Answers(own))
        /\ \A w : (NoneHas(s, w) => NoneHas(t, w)) /\ (OneHas(s, w) => OneHas(t, w))
    BY <2>1, <2>2 DEF Owes
  <2>4. \A w : /\ NoneHeld(x[n], w) => NoneHas(s, w)
               /\ OneHeld(x[n], w) => OneHas(s, w)
    BY <2>1, <2>2 DEF NoneHas, OneHas
  <2>5. \A w : /\ NoneHas(t, w) => NoneHeld(y[n], w) /\ NoneIn(done[n].out, w)
               /\ OneHas(t, w) => \/ OneHeld(y[n], w)  /\ NoneIn(done[n].out, w)
                                  \/ NoneHeld(y[n], w) /\ OneIn(done[n].out, w)
    BY <2>1 DEF NoneHas, OneHas
  <2>. QED BY <2>1, <2>3, <2>4, <2>5
<1>2. ASSUME NEW w, NoneSent(x, w) PROVE NoneSent(y, w) /\ NoneGiven(done, w)
  BY <1>1, <1>2 DEF NoneSent, NoneGiven
<1>3. ASSUME NEW w, OneSent(x, w) PROVE \/ OneSent(y, w)  /\ NoneGiven(done, w)
                                        \/ NoneSent(y, w) /\ OneGiven(done, w)
  <2>1. PICK n \in 1 .. Channels : /\ OneHeld(x[n], w)
                                   /\ \A k \in 1 .. Channels : k # n => NoneHeld(x[k], w)
    BY <1>3 DEF OneSent
  <2>2. \A k \in 1 .. Channels : k # n => NoneHeld(y[k], w) /\ NoneIn(done[k].out, w)
    BY <1>1, <2>1
  <2>3. CASE OneHeld(y[n], w) /\ NoneIn(done[n].out, w)
    BY <2>2, <2>3 DEF OneSent, NoneGiven
  <2>4. CASE NoneHeld(y[n], w) /\ OneIn(done[n].out, w)
    BY <2>2, <2>4 DEF NoneSent, OneGiven
  <2>. QED BY <1>1, <2>1, <2>3, <2>4
<1>. QED BY <1>1, <1>2, <1>3

ToldTyped(own, x) == x.returned \in Seq(Tellings(own))

LEMMA OperateGives ==
    ASSUME DramIInv, DramOperate, NEW own, TakeTied(own, [upper |-> upper, chans |-> chans]),
           \A u \in 1 .. DramUppers : ToldTyped(own, upper[u])
    PROVE  /\ TakeTied(own, [upper |-> upper', chans |-> chans'])
           /\ \A u \in 1 .. DramUppers :
                /\ ToldTyped(own, upper'[u])
                /\ \A w : Mine(own, u, w) => OperateWaits(own, u, w)
<1>. DEFINE s0   == [upper |-> upper, chans |-> chans]
            s    == InitiateRequests(s0)
            t    == [upper |-> upper', chans |-> chans']
            done == [n \in 1 .. Channels |-> Cycle(s.chans[n])]
<1>1. s0.upper = upper /\ s0.chans = chans /\ DOMAIN s0 = {"upper", "chans"}
  OBVIOUS
<1>2. t.upper = upper' /\ t.chans = chans'
  OBVIOUS
<1>3. /\ upper' = [u \in 1 .. DramUppers |->
                      [s.upper[u] EXCEPT !.returned = AllToldTo(u, s.upper[u].returned, done)]]
      /\ chans' = [n \in 1 .. Channels |-> DramTick(done[n].c)]
  BY DEF DramOperate
<1>4. DOMAIN done = 1 .. Channels /\ \A n \in 1 .. Channels : done[n] = Cycle(s.chans[n])
  OBVIOUS
<1>. HIDE DEF s, s0, t, done
<1>5. TakingOK(chans, s) /\ TakeOwes(s0, s)
  <2>1. TakingOK(chans, s0)
    BY <1>1 DEF TakingOK, DramIInv
  <2>. QED BY <2>1, InitiateOK DEF s
<1>6. ASSUME NEW n \in 1 .. Channels
      PROVE  Owes([c |-> s.chans[n], out |-> << >>], [c |-> chans'[n], out |-> done[n].out])
  <2>1. DramChannelOK(n, s.chans[n]) /\ s.chans[n].bank = chans[n].bank
    BY <1>5 DEF TakingOK
  <2>2. warmup => \A b \in 1 .. Banks : ~s.chans[n].bank[b].valid
    BY <2>1 DEF DramIInv
  <2>3. chans'[n] = DramTick(Cycle(s.chans[n]).c) /\ done[n].out = Cycle(s.chans[n]).out
    BY <1>3, <1>4
  <2>. QED BY <2>1, <2>2, <2>3, CycleOK
<1>7. TakeTied(own, s0)
  BY DEF s0
<1>8. /\ TakeTied(own, s)
      /\ \A u \in 1 .. DramUppers : s.upper[u].returned = upper[u].returned
      /\ \A u \in 1 .. DramUppers : \A w : Mine(own, u, w) =>
             /\ NoneWaits(upper[u], chans, w) => NoneWaits(s.upper[u], s.chans, w)
             /\ OneWaits(upper[u], chans, w) => OneWaits(s.upper[u], s.chans, w)
  BY <1>1, <1>5, <1>7 DEF TakeOwes, Mine
<1>9. /\ \A n \in 1 .. Channels : Tied(own, chans'[n]) /\ done[n].out \in Seq(Answers(own))
      /\ \A w : /\ NoneSent(s.chans, w) => NoneSent(chans', w) /\ NoneGiven(done, w)
                /\ OneSent(s.chans, w) => \/ OneSent(chans', w)  /\ NoneGiven(done, w)
                                          \/ NoneSent(chans', w) /\ OneGiven(done, w)
  <2>. DEFINE x == s.chans
              y == chans'
  <2>1. \A n \in 1 .. Channels : Tied(own, x[n])
    BY <1>8 DEF TakeTied
  <2>2. \A n \in 1 .. Channels : Owes([c |-> x[n], out |-> << >>], [c |-> y[n], out |-> done[n].out])
    BY <1>6
  <2>. HIDE DEF x, y
  <2>3. /\ \A n \in 1 .. Channels : Tied(own, y[n]) /\ done[n].out \in Seq(Answers(own))
        /\ \A w : /\ NoneSent(x, w) => NoneSent(y, w) /\ NoneGiven(done, w)
                  /\ OneSent(x, w) => \/ OneSent(y, w)  /\ NoneGiven(done, w)
                                      \/ NoneSent(y, w) /\ OneGiven(done, w)
    BY <2>1, <2>2, CyclesGive
  <2>. QED BY <2>3 DEF x, y
<1>10. ASSUME NEW u \in 1 .. DramUppers
       PROVE  /\ upper'[u].RQ = s.upper[u].RQ /\ upper'[u].PQ = s.upper[u].PQ
              /\ upper'[u].WQ = s.upper[u].WQ
              /\ upper'[u].returned = AllToldTo(u, upper[u].returned, done)
  <2>1. DOMAIN s.upper[u] = {"RQ", "WQ", "PQ", "returned"}
    BY <1>5 DEF TakingOK, UpperOK
  <2>2. upper'[u] = [s.upper[u] EXCEPT !.returned = AllToldTo(u, s.upper[u].returned, done)]
    BY <1>3
  <2>. QED BY <1>8, <2>1, <2>2
<1>11. TakeTied(own, t)
  BY <1>2, <1>8, <1>9, <1>10 DEF TakeTied, UpperTied
<1>12. ASSUME NEW u \in 1 .. DramUppers, NEW w
       PROVE  TellsAll(own, u, w, upper[u].returned, done, upper'[u].returned)
  <2>1. upper[u].returned \in Seq(Tellings(own))
    BY DEF ToldTyped
  <2>2. \A n \in 1 .. Channels : done[n].out \in Seq(Answers(own))
    BY <1>9
  <2>. DEFINE q == upper[u].returned
              r == upper'[u].returned
  <2>3. r = AllToldTo(u, q, done)
    BY <1>10
  <2>. HIDE DEF q, r
  <2>4. q \in Seq(Tellings(own)) /\ DOMAIN done = 1 .. Channels
    BY <1>4, <2>1 DEF q
  <2>5. TellsAll(own, u, w, q, done, AllToldTo(u, q, done))
    BY <2>2, <2>4, AllToldOK
  <2>6. TellsAll(own, u, w, q, done, r)
    BY <2>3, <2>5
  <2>. QED BY <2>6 DEF q, r
<1>13. ASSUME NEW u \in 1 .. DramUppers PROVE ToldTyped(own, upper'[u])
  BY <1>12 DEF TellsAll, ToldTyped
<1>14. ASSUME NEW u \in 1 .. DramUppers, NEW w, Mine(own, u, w) PROVE OperateWaits(own, u, w)
  <2>. DEFINE q == upper[u].returned
              r == upper'[u].returned
              a == s.upper[u]
              b == upper'[u]
              x == s.chans
              y == chans'
  <2>1. /\ NoneGiven(done, w) => Unmoved(q, r, w)
        /\ OneGiven(done, w) /\ NoneIn(q, w) => OneIn(r, w)
    BY <1>12, <1>14 DEF TellsAll
  <2>2. /\ NoneSent(x, w) => NoneSent(y, w) /\ NoneGiven(done, w)
        /\ OneSent(x, w) => \/ OneSent(y, w)  /\ NoneGiven(done, w)
                            \/ NoneSent(y, w) /\ OneGiven(done, w)
    BY <1>9
  <2>3. b.RQ = a.RQ /\ b.PQ = a.PQ
    BY <1>10
  <2>4. /\ NoneWaits(upper[u], chans, w) => NoneWaits(a, x, w)
        /\ OneWaits(upper[u], chans, w) => OneWaits(a, x, w)
    BY <1>8, <1>14
  <2>. HIDE DEF q, r, a, b, x, y
  <2>5. NoneWaits(a, x, w) => NoneWaits(b, y, w) /\ Unmoved(q, r, w)
    BY <2>1, <2>2, <2>3 DEF NoneWaits
  <2>6. OneWaits(a, x, w) /\ NoneIn(q, w) => \/ OneWaits(b, y, w)  /\ NoneIn(r, w)
                                             \/ NoneWaits(b, y, w) /\ OneIn(r, w)
    BY <2>1, <2>2, <2>3 DEF NoneWaits, OneWaits, Unmoved
  <2>. QED BY <2>4, <2>5, <2>6 DEF OperateWaits, q, r, b, y
<1>. QED BY <1>11, <1>13, <1>14 DEF t

\* Whose each request is
Owner == [i \in Ids |-> dramAsked[i].upper]

Answered(i) == [upper |-> dramAsked[i].upper, waiter |-> i] \in dramAnswered

\* Request i waits, or its response waits to be received, or has been received.
Placed(i) ==
    LET u == dramAsked[i].upper
        q == upper[u].returned
    IN  \/ OneWaits(upper[u], chans, i)  /\ NoneIn(q, i) /\ ~Answered(i)
        \/ NoneWaits(upper[u], chans, i) /\ OneIn(q, i)  /\ ~Answered(i)
        \/ NoneWaits(upper[u], chans, i) /\ NoneIn(q, i) /\ Answered(i)

WaitInv ==
    /\ TakeTied(Owner, [upper |-> upper, chans |-> chans])
    /\ \A u \in 1 .. DramUppers : ToldTyped(Owner, upper[u])
    /\ \A x \in dramAnswered : x.waiter \in Ids
    /\ \A i \in Ids : dramAsked[i].reply => Placed(i)

LEMMA OwnerIs ==
    ASSUME DramIInv
    PROVE  /\ Ids = 1 .. Len(dramAsked) /\ Len(dramAsked) \in Nat
           /\ DOMAIN Owner = Ids
           /\ \A i \in Ids : /\ Owner[i] = dramAsked[i].upper
                             /\ dramAsked[i].upper \in 1 .. DramUppers
                             /\ Mine(Owner, dramAsked[i].upper, i)
<1>. DEFINE E == [addr : Nat, reply : BOOLEAN, upper : 1 .. DramUppers]
<1>1. dramAsked \in Seq(E)
  BY DEF DramIInv
<1>2. \A i \in Ids : dramAsked[i] \in E
  <2>. HIDE DEF E
  <2>. QED BY <1>1, ElementOfSeq, LenProperties DEF Ids
<1>3. Ids = 1 .. Len(dramAsked) /\ Len(dramAsked) \in Nat
  BY <1>1, LenProperties DEF Ids
<1>4. DOMAIN Owner = Ids /\ \A i \in Ids : Owner[i] = dramAsked[i].upper
  BY DEF Owner
<1>. QED BY <1>2, <1>3, <1>4 DEF Mine

LEMMA WaitInitial == DramInit => WaitInv
<1>. SUFFICES ASSUME DramInit PROVE WaitInv
  OBVIOUS
<1>1. Ids = {} /\ dramAnswered = {}
  BY DEF DramInit, Ids
<1>2. ASSUME NEW u \in 1 .. DramUppers
      PROVE  UpperTied(Owner, u, upper[u]) /\ ToldTyped(Owner, upper[u])
  <2>1. upper[u] = NoRequests
    BY DEF DramInit
  <2>2. << >> \in Seq(Tellings(Owner)) /\ DOMAIN << >> = {}
    BY EmptySeq
  <2>3. /\ upper[u].RQ = << >> /\ upper[u].WQ = << >> /\ upper[u].PQ = << >>
        /\ upper[u].returned = << >>
    BY <2>1 DEF NoRequests
  <2>. QED BY <2>2, <2>3 DEF UpperTied, QueueTied, ToldTyped
<1>3. ASSUME NEW n \in 1 .. Channels PROVE Tied(Owner, chans[n])
  <2>1. /\ chans[n].RQ = [i \in 1 .. RqSlots |-> Free]
        /\ chans[n].WQ = [i \in 1 .. WqSlots |-> Free]
    BY DEF DramInit
  <2>. QED BY <2>1, DramConstants, FreeSlotOK DEF Tied
<1>4. TakeTied(Owner, [upper |-> upper, chans |-> chans])
  BY <1>2, <1>3 DEF TakeTied
<1>. QED BY <1>1, <1>2, <1>4 DEF WaitInv

LEMMA OperateKeeps == ASSUME DramIInv, WaitInv, DramOperate PROVE WaitInv'
<1>1. dramAsked' = dramAsked /\ dramAnswered' = dramAnswered
  BY DEF DramOperate
<1>2. Ids' = Ids /\ Owner' = Owner /\ \A i \in Ids : Answered(i)' = Answered(i)
  BY <1>1 DEF Ids, Owner, Answered
<1>3. /\ TakeTied(Owner, [upper |-> upper', chans |-> chans'])
      /\ \A u \in 1 .. DramUppers :
           /\ ToldTyped(Owner, upper'[u])
           /\ \A w : Mine(Owner, u, w) => OperateWaits(Owner, u, w)
  <2>. DEFINE own == Owner
  <2>1. TakeTied(own, [upper |-> upper, chans |-> chans])
    BY DEF WaitInv
  <2>2. \A u \in 1 .. DramUppers : ToldTyped(own, upper[u])
    BY DEF WaitInv
  <2>. HIDE DEF own
  <2>3. /\ TakeTied(own, [upper |-> upper', chans |-> chans'])
        /\ \A u \in 1 .. DramUppers :
             /\ ToldTyped(own, upper'[u])
             /\ \A w : Mine(own, u, w) => OperateWaits(own, u, w)
    BY <2>1, <2>2, OperateGives
  <2>. QED BY <2>3 DEF own
<1>4. ASSUME NEW i \in Ids, dramAsked[i].reply PROVE Placed(i)'
  <2>. DEFINE u == dramAsked[i].upper
              q == upper[u].returned
              r == upper'[u].returned
  <2>1. u \in 1 .. DramUppers /\ Mine(Owner, u, i)
    BY OwnerIs
  <2>2. OperateWaits(Owner, u, i)
    BY <1>3, <2>1
  <2>3. Placed(i)
    BY <1>4 DEF WaitInv
  <2>4. \/ OneWaits(upper'[u], chans', i)  /\ NoneIn(r, i) /\ ~Answered(i)
        \/ NoneWaits(upper'[u], chans', i) /\ OneIn(r, i)  /\ ~Answered(i)
        \/ NoneWaits(upper'[u], chans', i) /\ NoneIn(r, i) /\ Answered(i)
    BY <2>2, <2>3 DEF OperateWaits, Placed, Unmoved
  <2>. QED BY <1>1, <1>2, <2>4 DEF Placed
<1>. QED BY <1>1, <1>2, <1>3, <1>4 DEF WaitInv

\* A larger set of requests keeps what is tied.
LEMMA OwnerGrows ==
    ASSUME NEW own, NEW own2, DOMAIN own \subseteq DOMAIN own2, \A w \in DOMAIN own : own2[w] = own[w]
    PROVE  /\ \A u, q : QueueTied(own, u, q) => QueueTied(own2, u, q)
           /\ \A c : Tied(own, c) => Tied(own2, c)
           /\ \A x : ToldTyped(own, x) => ToldTyped(own2, x)
<1>1. \A u, q : QueueTied(own, u, q) => QueueTied(own2, u, q)
  BY DEF QueueTied
<1>2. \A e : Informs(own, e) => Informs(own2, e)
  BY DEF Informs
<1>3. \A c : Tied(own, c) => Tied(own2, c)
  BY <1>2 DEF Tied
<1>4. ASSUME NEW x, ToldTyped(own, x) PROVE ToldTyped(own2, x)
  <2>. DEFINE q == x.returned
  <2>1. q \in Seq(Tellings(own))
    BY <1>4 DEF ToldTyped
  <2>2. Tellings(own) \subseteq Tellings(own2)
    BY DEF Tellings
  <2>. HIDE DEF q
  <2>3. q \in Seq(Tellings(own2))
    BY <2>1, <2>2, SeqMonotonic
  <2>. QED BY <2>3 DEF ToldTyped, q
<1>. QED BY <1>1, <1>3, <1>4

\* A request that is not made yet is nowhere.
LEMMA FreshNowhere ==
    ASSUME WaitInv, NEW w, w \notin DOMAIN Owner, NEW u \in 1 .. DramUppers
    PROVE  NoneWaits(upper[u], chans, w) /\ NoneIn(upper[u].returned, w)
<1>1. UpperTied(Owner, u, upper[u]) /\ \A n \in 1 .. Channels : Tied(Owner, chans[n])
  BY DEF WaitInv, TakeTied
<1>2. NoneIn(upper[u].RQ, w) /\ NoneIn(upper[u].PQ, w)
  BY <1>1 DEF UpperTied, QueueTied, NoneIn
<1>3. NoneSent(chans, w)
  BY <1>1 DEF NoneSent, NoneHeld, HoldsAt, Tied, Informs
<1>4. NoneIn(upper[u].returned, w)
  <2>. DEFINE q == upper[u].returned
              T == Tellings(Owner)
  <2>1. q \in Seq(T)
    BY DEF WaitInv, ToldTyped
  <2>2. \A e \in T : w \notin e.waiters
    BY DEF Tellings
  <2>. HIDE DEF q, T
  <2>3. \A k \in DOMAIN q : q[k] \in T
    BY <2>1, ElementOfSeq, LenProperties
  <2>4. NoneIn(q, w)
    BY <2>2, <2>3 DEF NoneIn
  <2>. QED BY <2>4 DEF q
<1>. QED BY <1>2, <1>3, <1>4 DEF NoneWaits

LEMMA AppendTied ==
    ASSUME NEW own, NEW u, NEW q \in Seq(Demands), QueueTied(own, u, q), NEW e \in Demands,
           e.waiters \subseteq DOMAIN own, \A w \in e.waiters : own[w] = u, e.reply
    PROVE  QueueTied(own, u, Append(q, e))
<1>. DEFINE t == Append(q, e)
            n == Len(q)
<1>1. /\ n \in Nat /\ DOMAIN q = 1 .. n /\ DOMAIN t = 1 .. n + 1
      /\ t[n + 1] = e /\ \A k \in 1 .. n : t[k] = q[k]
  BY AppendProperties, LenProperties
<1>. HIDE DEF t, n
<1>2. \A k \in 1 .. n + 1 : k \in 1 .. n \/ k = n + 1
  BY <1>1
<1>3. QueueTied(own, u, t)
  BY <1>1, <1>2 DEF QueueTied
<1>. QED BY <1>3 DEF t

LEMMA AppendNobody ==
    ASSUME NEW q \in Seq(Demands), \A k \in DOMAIN q : q[k].waiters = {}, NEW e \in Demands,
           e.waiters = {}
    PROVE  \A k \in DOMAIN Append(q, e) : Append(q, e)[k].waiters = {}
<1>. DEFINE t == Append(q, e)
            n == Len(q)
<1>1. /\ n \in Nat /\ DOMAIN q = 1 .. n /\ DOMAIN t = 1 .. n + 1
      /\ t[n + 1] = e /\ \A k \in 1 .. n : t[k] = q[k]
  BY AppendProperties, LenProperties
<1>. HIDE DEF t, n
<1>2. \A k \in 1 .. n + 1 : k \in 1 .. n \/ k = n + 1
  BY <1>1
<1>3. \A k \in DOMAIN t : t[k].waiters = {}
  BY <1>1, <1>2
<1>. QED BY <1>3 DEF t

\* What a new request of level u makes of the queues from a to b; i is its number.
SentTo(i, a, b, reply) ==
    \E r : /\ r \in Demands /\ r.reply = reply /\ r.waiters = IF reply THEN {i} ELSE {}
           /\ b.returned = a.returned
           /\ \/ reply  /\ b.RQ = Append(a.RQ, r) /\ b.PQ = a.PQ /\ b.WQ = a.WQ
              \/ reply  /\ b.PQ = Append(a.PQ, r) /\ b.RQ = a.RQ /\ b.WQ = a.WQ
              \/ ~reply /\ b.WQ = Append(a.WQ, r) /\ b.RQ = a.RQ /\ b.PQ = a.PQ

\* What that does to who waits
SentMoves(i, a, b, reply, chs) ==
    /\ \A w : w # i \/ ~reply => /\ NoneWaits(a, chs, w) => NoneWaits(b, chs, w)
                                 /\ OneWaits(a, chs, w) => OneWaits(b, chs, w)
    /\ reply /\ NoneWaits(a, chs, i) => OneWaits(b, chs, i)
    /\ b.returned = a.returned

LEMMA SentWaits ==
    ASSUME NEW i, NEW a, UpperOK(a), NEW b, NEW reply \in BOOLEAN, SentTo(i, a, b, reply), NEW chs
    PROVE  SentMoves(i, a, b, reply, chs)
<1>1. PICK r : /\ r \in Demands /\ r.reply = reply /\ r.waiters = IF reply THEN {i} ELSE {}
               /\ b.returned = a.returned
               /\ \/ reply  /\ b.RQ = Append(a.RQ, r) /\ b.PQ = a.PQ /\ b.WQ = a.WQ
                  \/ reply  /\ b.PQ = Append(a.PQ, r) /\ b.RQ = a.RQ /\ b.WQ = a.WQ
                  \/ ~reply /\ b.WQ = Append(a.WQ, r) /\ b.RQ = a.RQ /\ b.PQ = a.PQ
  BY DEF SentTo
<1>2. a.RQ \in Seq(Demands) /\ a.PQ \in Seq(Demands)
  BY DEF UpperOK
<1>3. ASSUME NEW q \in Seq(Demands), NEW w
      PROVE  /\ w \notin r.waiters => /\ NoneIn(q, w) => NoneIn(Append(q, r), w)
                                      /\ OneIn(q, w) => OneIn(Append(q, r), w)
             /\ w \in r.waiters /\ NoneIn(q, w) => OneIn(Append(q, r), w)
  BY <1>1, AppendWaits
<1>4. ASSUME NEW w, w # i \/ ~reply
      PROVE  /\ NoneWaits(a, chs, w) => NoneWaits(b, chs, w)
             /\ OneWaits(a, chs, w) => OneWaits(b, chs, w)
  <2>1. w \notin r.waiters
    BY <1>1, <1>4
  <2>2. /\ NoneIn(a.RQ, w) => NoneIn(b.RQ, w)
        /\ OneIn(a.RQ, w) => OneIn(b.RQ, w)
        /\ NoneIn(a.PQ, w) => NoneIn(b.PQ, w)
        /\ OneIn(a.PQ, w) => OneIn(b.PQ, w)
    BY <1>1, <1>2, <1>3, <2>1
  <2>. QED BY <2>2 DEF NoneWaits, OneWaits
<1>5. ASSUME reply, NoneWaits(a, chs, i) PROVE OneWaits(b, chs, i)
  <2>1. i \in r.waiters
    BY <1>1, <1>5
  <2>2. NoneIn(a.RQ, i) /\ NoneIn(a.PQ, i) /\ NoneSent(chs, i)
    BY <1>5 DEF NoneWaits
  <2>3. CASE b.RQ = Append(a.RQ, r) /\ b.PQ = a.PQ
    BY <1>2, <1>3, <2>1, <2>2, <2>3 DEF OneWaits
  <2>4. CASE b.PQ = Append(a.PQ, r) /\ b.RQ = a.RQ
    BY <1>2, <1>3, <2>1, <2>2, <2>4 DEF OneWaits
  <2>. QED BY <1>1, <1>5, <2>3, <2>4
<1>. QED BY <1>1, <1>4, <1>5 DEF SentMoves

LEMMA SentTied ==
    ASSUME NEW i, NEW a, UpperOK(a), NEW b, NEW reply \in BOOLEAN, SentTo(i, a, b, reply),
           NEW own, NEW u, UpperTied(own, u, a), i \in DOMAIN own, own[i] = u
    PROVE  UpperTied(own, u, b)
<1>1. PICK r : /\ r \in Demands /\ r.reply = reply /\ r.waiters = IF reply THEN {i} ELSE {}
               /\ b.returned = a.returned
               /\ \/ reply  /\ b.RQ = Append(a.RQ, r) /\ b.PQ = a.PQ /\ b.WQ = a.WQ
                  \/ reply  /\ b.PQ = Append(a.PQ, r) /\ b.RQ = a.RQ /\ b.WQ = a.WQ
                  \/ ~reply /\ b.WQ = Append(a.WQ, r) /\ b.RQ = a.RQ /\ b.PQ = a.PQ
  BY DEF SentTo
<1>2. a.RQ \in Seq(Demands) /\ a.PQ \in Seq(Demands) /\ a.WQ \in Seq(Demands)
  BY DEF UpperOK
<1>3. QueueTied(own, u, a.RQ) /\ QueueTied(own, u, a.PQ) /\ \A k \in DOMAIN a.WQ : a.WQ[k].waiters = {}
  BY DEF UpperTied
<1>4. reply => /\ r.waiters \subseteq DOMAIN own /\ \A w \in r.waiters : own[w] = u
               /\ r.reply
  BY <1>1
<1>5. reply => QueueTied(own, u, Append(a.RQ, r)) /\ QueueTied(own, u, Append(a.PQ, r))
  BY <1>1, <1>2, <1>3, <1>4, AppendTied
<1>6. ~reply => \A k \in DOMAIN Append(a.WQ, r) : Append(a.WQ, r)[k].waiters = {}
  BY <1>1, <1>2, <1>3, AppendNobody
<1>. QED BY <1>1, <1>3, <1>5, <1>6 DEF UpperTied

LEMMA SendKeeps == ASSUME DramIInv, WaitInv, DramRequested PROVE WaitInv'
<1>1. PICK z \in Sources : DramSend(z[1], z[2], z[3])
  BY DEF DramRequested
<1>0. PICK u, i, reply : u = z[1] /\ i = Len(dramAsked) + 1 /\ reply = (z[3] # "WQ")
  OBVIOUS
<1>. DEFINE x == [addr |-> z[2], reply |-> reply, upper |-> u]
<1>2. u \in 1 .. DramUppers /\ z[2] \in Nat /\ reply \in BOOLEAN
  BY <1>0, DramAssumption
<1>3. /\ UNCHANGED <<chans, dramAnswered>>
      /\ dramAsked' = Append(dramAsked, x)
  BY <1>0, <1>1 DEF DramSend
<1>4. UpperOK(upper[u]) /\ DOMAIN upper = 1 .. DramUppers
  BY <1>2 DEF DramIInv
<1>5. i \in Nat /\ i \notin Ids /\ i \notin DOMAIN Owner
  BY <1>0, OwnerIs
<1>6. PICK b : upper' = [upper EXCEPT ![u] = b] /\ SentTo(i, upper[u], b, reply)
  <2>. DEFINE R(type, re) == Request(z[2], z[2], type, TRUE, re, IF re THEN {i} ELSE {})
              a == upper[u]
  <2>1. \/ z[3] = "RQ" /\ upper' = [upper EXCEPT ![u] = AddRq(a, R("LOAD", TRUE))]
        \/ z[3] = "PQ" /\ upper' = [upper EXCEPT ![u] = AddPq(a, R("PREFETCH", TRUE))]
        \/ z[3] = "WQ" /\ upper' = [upper EXCEPT ![u] = AddWq(a, R("WRITE", FALSE))]
    <3>1. \/ z[3] = "RQ" /\ upper' = [upper EXCEPT ![z[1]] = AddRq(upper[z[1]], R("LOAD", TRUE))]
          \/ z[3] = "PQ" /\ upper' = [upper EXCEPT ![z[1]] = AddPq(upper[z[1]], R("PREFETCH", TRUE))]
          \/ z[3] = "WQ" /\ upper' = [upper EXCEPT ![z[1]] = AddWq(upper[z[1]], R("WRITE", FALSE))]
      BY <1>0, <1>1, Zenon DEF DramSend
    <3>. HIDE DEF R
    <3>. QED BY <1>0, <3>1
  <2>2. ASSUME NEW type \in Types, NEW re \in BOOLEAN
        PROVE  /\ Unchecked(R(type, re)) \in Demands
               /\ Unchecked(R(type, re)).reply = re
               /\ Unchecked(R(type, re)).waiters = IF re THEN {i} ELSE {}
    BY <1>2, <1>5 DEF Request, Unchecked, Demands
  <2>3. "LOAD" \in Types /\ "PREFETCH" \in Types /\ "WRITE" \in Types
    BY DEF Types
  <2>. HIDE DEF R
  <2>4. DOMAIN a = {"RQ", "WQ", "PQ", "returned"}
    BY <1>4 DEF UpperOK
  <2>. HIDE DEF a
  <2>5. CASE z[3] = "RQ" /\ upper' = [upper EXCEPT ![u] = AddRq(a, R("LOAD", TRUE))]
    <3>1. SentTo(i, a, AddRq(a, R("LOAD", TRUE)), TRUE)
      BY <2>2, <2>3, <2>4 DEF SentTo, AddRq
    <3>2. reply = TRUE
      BY <1>0, <2>5
    <3>. QED BY <2>5, <3>1, <3>2 DEF a
  <2>6. CASE z[3] = "PQ" /\ upper' = [upper EXCEPT ![u] = AddPq(a, R("PREFETCH", TRUE))]
    <3>1. SentTo(i, a, AddPq(a, R("PREFETCH", TRUE)), TRUE)
      BY <2>2, <2>3, <2>4 DEF SentTo, AddPq
    <3>2. reply = TRUE
      BY <1>0, <2>6
    <3>. QED BY <2>6, <3>1, <3>2 DEF a
  <2>7. CASE z[3] = "WQ" /\ upper' = [upper EXCEPT ![u] = AddWq(a, R("WRITE", FALSE))]
    <3>1. SentTo(i, a, AddWq(a, R("WRITE", FALSE)), FALSE)
      BY <2>2, <2>3, <2>4 DEF SentTo, AddWq
    <3>2. reply = FALSE
      BY <1>0, <2>7
    <3>. QED BY <2>7, <3>1, <3>2 DEF a
  <2>. QED BY <2>1, <2>5, <2>6, <2>7
<1>7. /\ Ids' = Ids \cup {i} /\ dramAsked'[i] = x
      /\ \A j \in Ids : dramAsked'[j] = dramAsked[j]
  <2>. DEFINE E == [addr : Nat, reply : BOOLEAN, upper : 1 .. DramUppers]
  <2>1. x \in E
    BY <1>2
  <2>2. dramAsked \in Seq(E)
    BY DEF DramIInv
  <2>. HIDE DEF x, E
  <2>3. /\ dramAsked' \in Seq(E) /\ Len(dramAsked') = i /\ dramAsked'[i] = x
        /\ \A j \in 1 .. Len(dramAsked) : dramAsked'[j] = dramAsked[j]
        /\ Len(dramAsked) \in Nat
        /\ DOMAIN dramAsked = 1 .. Len(dramAsked)
    BY <1>0, <1>3, <2>1, <2>2, AppendProperties, LenProperties
  <2>4. DOMAIN dramAsked' = 1 .. Len(dramAsked')
    BY <2>3, LenProperties
  <2>5. Ids' = 1 .. i /\ Ids = 1 .. i - 1 /\ i - 1 = Len(dramAsked)
    BY <1>0, <2>3, <2>4 DEF Ids
  <2>. QED BY <1>5, <2>3, <2>5
<1>. DEFINE own == Owner
            new == Owner'
<1>8. /\ DOMAIN own \subseteq DOMAIN new /\ \A w \in DOMAIN own : new[w] = own[w]
      /\ i \in DOMAIN new /\ new[i] = u
  <2>1. DOMAIN own = Ids /\ \A w \in Ids : own[w] = dramAsked[w].upper
    BY DEF Owner
  <2>2. DOMAIN new = Ids' /\ \A w \in Ids' : new[w] = dramAsked'[w].upper
    BY DEF Owner
  <2>. QED BY <1>7, <2>1, <2>2
<1>. HIDE DEF own, new
<1>9. /\ \A v, q : QueueTied(own, v, q) => QueueTied(new, v, q)
      /\ \A c : Tied(own, c) => Tied(new, c)
      /\ \A y : ToldTyped(own, y) => ToldTyped(new, y)
  BY <1>8, OwnerGrows
<1>10. /\ \A v \in 1 .. DramUppers : UpperTied(own, v, upper[v]) /\ ToldTyped(own, upper[v])
       /\ \A n \in 1 .. Channels : Tied(own, chans[n])
  BY DEF WaitInv, TakeTied, own
<1>11. /\ upper'[u] = b /\ \A v \in 1 .. DramUppers : v # u => upper'[v] = upper[v]
  BY <1>2, <1>4, <1>6
<1>12. \A v \in 1 .. DramUppers : UpperTied(new, v, upper[v])
  BY <1>9, <1>10 DEF UpperTied
<1>13. UpperTied(new, u, b)
  BY <1>2, <1>4, <1>6, <1>8, <1>12, SentTied
<1>14. /\ \A w : w # i \/ ~reply => /\ NoneWaits(upper[u], chans, w) => NoneWaits(b, chans, w)
                                    /\ OneWaits(upper[u], chans, w) => OneWaits(b, chans, w)
       /\ reply /\ NoneWaits(upper[u], chans, i) => OneWaits(b, chans, i)
       /\ b.returned = upper[u].returned
  <2>1. SentMoves(i, upper[u], b, reply, chans)
    BY <1>2, <1>4, <1>6, SentWaits
  <2>. QED BY <2>1 DEF SentMoves
<1>15. TakeTied(new, [upper |-> upper', chans |-> chans'])
  BY <1>3, <1>9, <1>10, <1>11, <1>12, <1>13 DEF TakeTied
<1>16. \A v \in 1 .. DramUppers : ToldTyped(new, upper'[v])
  BY <1>9, <1>10, <1>11, <1>14 DEF ToldTyped
<1>17. \A y \in dramAnswered : y.waiter \in Ids
  BY DEF WaitInv
<1>18. ASSUME NEW j \in Ids, dramAsked[j].reply PROVE Placed(j)'
  <2>. DEFINE v == dramAsked[j].upper
  <2>1. Placed(j) /\ v \in 1 .. DramUppers /\ j # i
    BY <1>5, <1>18, OwnerIs DEF WaitInv
  <2>2. Answered(j)' = Answered(j) /\ dramAsked'[j] = dramAsked[j]
    BY <1>3, <1>7 DEF Answered
  <2>3. /\ NoneWaits(upper[v], chans, j) => NoneWaits(upper'[v], chans', j)
        /\ OneWaits(upper[v], chans, j) => OneWaits(upper'[v], chans', j)
        /\ upper'[v].returned = upper[v].returned
    BY <1>3, <1>11, <1>14, <2>1
  <2>. QED BY <2>1, <2>2, <2>3 DEF Placed
<1>19. ASSUME reply PROVE Placed(i)'
  <2>1. NoneWaits(upper[u], chans, i) /\ NoneIn(upper[u].returned, i)
    BY <1>2, <1>5, FreshNowhere
  <2>2. OneWaits(upper'[u], chans', i) /\ NoneIn(upper'[u].returned, i)
    BY <1>3, <1>11, <1>14, <1>19, <2>1
  <2>3. dramAsked'[i].upper = u
    BY <1>7
  <2>4. ~Answered(i)'
    BY <1>3, <1>5, <1>17 DEF Answered
  <2>. QED BY <2>2, <2>3, <2>4 DEF Placed
<1>20. ASSUME NEW j \in Ids', dramAsked'[j].reply PROVE Placed(j)'
  <2>1. CASE j = i
    BY <1>7, <1>19, <1>20, <2>1
  <2>2. CASE j # i
    BY <1>7, <1>18, <1>20, <2>2
  <2>. QED BY <2>1, <2>2
<1>. QED BY <1>3, <1>7, <1>15, <1>16, <1>17, <1>20 DEF WaitInv, new

LEMMA ReceiveKeeps == ASSUME DramIInv, WaitInv, Received PROVE WaitInv'
<1>1. PICK u \in 1 .. DramUppers : DramReceive(u)
  BY DEF Received
<1>. DEFINE q == upper[u].returned
            T == UNION {{[upper |-> u, waiter |-> i] : i \in r.waiters} : r \in Range(q)}
<1>2. /\ upper' = [upper EXCEPT ![u].returned = << >>]
      /\ dramAnswered' = dramAnswered \cup T
      /\ UNCHANGED <<chans, dramAsked>>
  BY <1>1 DEF DramReceive
<1>3. Ids' = Ids /\ Owner' = Owner
  BY <1>2 DEF Ids, Owner
<1>4. DOMAIN upper = 1 .. DramUppers /\ DOMAIN upper[u] = {"RQ", "WQ", "PQ", "returned"}
  BY DEF DramIInv, UpperOK
<1>5. /\ \A v \in 1 .. DramUppers : v # u => upper'[v] = upper[v]
      /\ upper'[u].RQ = upper[u].RQ /\ upper'[u].PQ = upper[u].PQ /\ upper'[u].WQ = upper[u].WQ
      /\ upper'[u].returned = << >>
  BY <1>2, <1>4
<1>6. TakeTied(Owner, [upper |-> upper', chans |-> chans'])
  <2>. DEFINE own == Owner
  <2>1. TakeTied(own, [upper |-> upper, chans |-> chans])
    BY DEF WaitInv
  <2>. HIDE DEF own
  <2>2. \A v \in 1 .. DramUppers : UpperTied(own, v, upper'[v])
    BY <1>5, <2>1 DEF TakeTied, UpperTied
  <2>3. TakeTied(own, [upper |-> upper', chans |-> chans'])
    BY <1>2, <2>1, <2>2 DEF TakeTied
  <2>. QED BY <2>3 DEF own
<1>7. \A v \in 1 .. DramUppers : ToldTyped(Owner, upper'[v])
  BY <1>5, EmptySeq DEF WaitInv, ToldTyped
<1>8. \A i : [upper |-> u, waiter |-> i] \in T <=> \E k \in DOMAIN q : i \in q[k].waiters
  <2>1. Range(q) = {q[k] : k \in DOMAIN q}
    BY DEF Range
  <2>. HIDE DEF q
  <2>2. ASSUME NEW i, NEW k \in DOMAIN q, i \in q[k].waiters
        PROVE  [upper |-> u, waiter |-> i] \in T
    BY <2>1, <2>2
  <2>3. ASSUME NEW i, [upper |-> u, waiter |-> i] \in T
        PROVE  \E k \in DOMAIN q : i \in q[k].waiters
    <3>. DEFINE D(r) == {[upper |-> u, waiter |-> j] : j \in r.waiters}
                e    == [upper |-> u, waiter |-> i]
    <3>0. e \in UNION {D(r) : r \in Range(q)}
      BY <2>3, Zenon
    <3>. HIDE DEF D, e, T
    <3>1. PICK r \in Range(q) : e \in D(r)
      BY <3>0
    <3>. USE DEF D, e
    <3>2. PICK j \in r.waiters : [upper |-> u, waiter |-> i] = [upper |-> u, waiter |-> j]
      BY <3>1, Zenon
    <3>3. [upper |-> u, waiter |-> i].waiter = i /\ [upper |-> u, waiter |-> j].waiter = j
      OBVIOUS
    <3>4. j = i
      BY <3>2, <3>3
    <3>. QED BY <2>1, <3>4
  <2>. HIDE DEF T
  <2>. QED BY <2>2, <2>3
<1>9. \A y \in T : y.upper = u /\ \E k \in DOMAIN q : y.waiter \in q[k].waiters
  BY DEF Range
<1>10. \A k \in DOMAIN q : q[k].waiters \subseteq Ids
  <2>1. q \in Seq(Tellings(Owner))
    BY DEF WaitInv, ToldTyped
  <2>2. \A e \in Tellings(Owner) : e.waiters \subseteq Ids
    BY DEF Tellings, Owner
  <2>. HIDE DEF q
  <2>3. \A k \in DOMAIN q : q[k] \in Tellings(Owner)
    BY <2>1, ElementOfSeq, LenProperties
  <2>. QED BY <2>2, <2>3
<1>. HIDE DEF T
<1>11. \A y \in dramAnswered' : y.waiter \in Ids
  BY <1>2, <1>9, <1>10 DEF WaitInv
<1>12. ASSUME NEW i \in Ids, dramAsked[i].reply PROVE Placed(i)'
  <2>. DEFINE v == dramAsked[i].upper
  <2>1. Placed(i) /\ v \in 1 .. DramUppers
    BY <1>12, OwnerIs DEF WaitInv
  <2>2. CASE v # u
    <3>1. [upper |-> v, waiter |-> i] \notin T
      BY <1>9, <2>2
    <3>2. Answered(i)' = Answered(i)
      BY <1>2, <3>1 DEF Answered
    <3>3. upper'[v] = upper[v]
      BY <1>5, <2>1, <2>2
    <3>. QED BY <1>2, <2>1, <3>2, <3>3 DEF Placed
  <2>3. CASE v = u
    <3>1. /\ NoneWaits(upper[u], chans, i) => NoneWaits(upper'[u], chans', i)
          /\ OneWaits(upper[u], chans, i) => OneWaits(upper'[u], chans', i)
      BY <1>2, <1>5 DEF NoneWaits, OneWaits
    <3>2. NoneIn(upper'[u].returned, i)
      BY <1>5 DEF NoneIn
    <3>3. /\ NoneIn(q, i) => (Answered(i)' <=> Answered(i))
          /\ OneIn(q, i) => Answered(i)'
      <4>1. Answered(i)' <=> [upper |-> u, waiter |-> i] \in dramAnswered'
        BY <1>2, <2>3 DEF Answered
      <4>2. Answered(i) <=> [upper |-> u, waiter |-> i] \in dramAnswered
        BY <2>3 DEF Answered
      <4>. QED BY <1>2, <1>8, <4>1, <4>2 DEF NoneIn, OneIn
    <3>. HIDE DEF q
    <3>4. \/ OneWaits(upper[u], chans, i)  /\ NoneIn(q, i) /\ ~Answered(i)
          \/ NoneWaits(upper[u], chans, i) /\ OneIn(q, i)  /\ ~Answered(i)
          \/ NoneWaits(upper[u], chans, i) /\ NoneIn(q, i) /\ Answered(i)
      BY <2>1, <2>3 DEF Placed, q
    <3>. QED BY <1>2, <2>3, <3>1, <3>2, <3>3, <3>4 DEF Placed
  <2>. QED BY <2>2, <2>3
<1>. QED BY <1>2, <1>3, <1>6, <1>7, <1>11, <1>12 DEF WaitInv

LEMMA StillKeeps ==
    ASSUME WaitInv, UNCHANGED <<upper, chans, dramAsked, dramAnswered>> PROVE WaitInv'
<1>1. Ids' = Ids /\ Owner' = Owner
  BY DEF Ids, Owner
<1>2. \A i \in Ids : Placed(i)' <=> Placed(i)
  BY DEF Placed, Answered
<1>. QED BY <1>1, <1>2 DEF WaitInv

LEMMA WaitStep == ASSUME DramIInv, WaitInv, [DramNext]_dramVars PROVE WaitInv'
<1>1. CASE DramOperate
  BY <1>1, OperateKeeps
<1>2. CASE DramRequested
  BY <1>2, SendKeeps
<1>3. CASE Received
  BY <1>3, ReceiveKeeps
<1>4. CASE EndWarmup
  BY <1>4, StillKeeps DEF EndWarmup
<1>5. CASE UNCHANGED dramVars
  BY <1>5, StillKeeps DEF dramVars
<1>. QED BY <1>1, <1>2, <1>3, <1>4, <1>5 DEF DramNext

-----------------------------------------------------------------------------
(* Counting the places                                                     *)

LEMMA CountNone == ASSUME NEW S, S = {} PROVE Cardinality(S) = 0
BY FS_EmptySet

LEMMA CountOne == ASSUME NEW S, NEW x, x \in S, \A y \in S : y = x PROVE Cardinality(S) = 1
<1>1. S = {x}
  OBVIOUS
<1>. QED BY <1>1, FS_Singleton

LEMMA WaitsCounts ==
    ASSUME NEW q, NEW i
    PROVE  /\ NoneIn(q, i) => Waits(q, i) = 0
           /\ OneIn(q, i) => Waits(q, i) = 1
<1>. DEFINE S == {k \in DOMAIN q : i \in q[k].waiters}
<1>1. Waits(q, i) = Cardinality(S)
  BY DEF Waits
<1>2. NoneIn(q, i) => S = {}
  BY DEF NoneIn
<1>3. OneIn(q, i) => \E x : x \in S /\ \A y \in S : y = x
  BY DEF OneIn
<1>. HIDE DEF S
<1>. QED BY <1>1, <1>2, <1>3, CountNone, CountOne

LEMMA SentCounts ==
    ASSUME NEW own, NEW u, NEW i, Mine(own, u, i), NEW c, Tied(own, c), DOMAIN c.RQ = Slots("RQ")
    PROVE  /\ NoneHeld(c, i) => Sent(c, u, i) = 0
           /\ OneHeld(c, i) => Sent(c, u, i) = 1
<1>. DEFINE S == {k \in Used(c.RQ) : i \in c.RQ[k].waiters /\ u \in c.RQ[k].to}
<1>1. Sent(c, u, i) = Cardinality(S)
  BY DEF Sent
<1>2. \A k : k \in S <=> k \in Slots("RQ") /\ HoldsAt(c, i, k)
  <2>1. \A k \in Slots("RQ") : HoldsAt(c, i, k) => u \in c.RQ[k].to
    BY DEF Tied, HoldsAt, Informs, Mine
  <2>. QED BY <2>1 DEF Used, HoldsAt
<1>. HIDE DEF S
<1>3. NoneHeld(c, i) => S = {}
  BY <1>2 DEF NoneHeld
<1>4. OneHeld(c, i) => \E x : x \in S /\ \A y \in S : y = x
  BY <1>2 DEF OneHeld
<1>. QED BY <1>1, <1>3, <1>4, CountNone, CountOne

SumStep(par, n, c) == n + Sent(c, par.u, par.i)

SumInv(par, k, n) ==
    /\ (\A l \in 1 .. k : NoneHeld(par.chs[l], par.i)) => n = 0
    /\ (\E l \in 1 .. k : OneHeld(par.chs[l], par.i)) /\ OneSent(par.chs, par.i) => n = 1

SumLoop == INSTANCE FoldInduction WITH Op <- SumStep, Inv <- SumInv

LEMMA SumKeeps ==
    ASSUME NEW par,
           \A n \in 1 .. Channels : /\ NoneHeld(par.chs[n], par.i) => Sent(par.chs[n], par.u, par.i) = 0
                                    /\ OneHeld(par.chs[n], par.i) => Sent(par.chs[n], par.u, par.i) = 1
    PROVE  SumInv(par, 0, 0) /\ SumLoop!KeepsTo(par, par.chs, Channels)
<1>. DEFINE chs == par.chs
            i == par.i
<1>1. SumInv(par, 0, 0)
  BY DEF SumInv
<1>2. ASSUME NEW k \in 1 .. Channels, NEW n, SumInv(par, k - 1, n)
      PROVE  SumInv(par, k, SumStep(par, n, chs[k]))
  <2>. DEFINE m == SumStep(par, n, chs[k])
  <2>1. m = n + Sent(chs[k], par.u, i)
    BY DEF SumStep
  <2>. HIDE DEF m
  <2>2. \A l : l \in 1 .. k <=> l \in 1 .. k - 1 \/ l = k
    OBVIOUS
  <2>3. k \in 1 .. k /\ (\A l \in 1 .. k - 1 : l # k) /\ \A l \in 1 .. k : l \in 1 .. Channels
    BY DramConstants
  <2>4. ASSUME \A l \in 1 .. k : NoneHeld(chs[l], i) PROVE m = 0
    <3>1. n = 0 /\ Sent(chs[k], par.u, i) = 0
      BY <1>2, <2>2, <2>3, <2>4 DEF SumInv
    <3>. QED BY <2>1, <3>1
  <2>5. ASSUME NEW l \in 1 .. k, OneHeld(chs[l], i), OneSent(chs, i) PROVE m = 1
    <3>1. \A j \in 1 .. k : j # l => NoneHeld(chs[j], i)
      BY <2>3, <2>5 DEF OneSent, OneHeld, NoneHeld
    <3>2. CASE l = k
      <4>1. n = 0
        BY <1>2, <2>2, <2>3, <3>1, <3>2 DEF SumInv
      <4>2. Sent(chs[k], par.u, i) = 1
        BY <2>5, <3>2
      <4>. QED BY <2>1, <4>1, <4>2
    <3>3. CASE l # k
      <4>1. n = 1
        BY <1>2, <2>2, <2>5, <3>3 DEF SumInv
      <4>2. Sent(chs[k], par.u, i) = 0
        BY <2>3, <3>1, <3>3
      <4>. QED BY <2>1, <4>1, <4>2
    <3>. QED BY <3>2, <3>3
  <2>6. SumInv(par, k, m)
    BY <2>4, <2>5 DEF SumInv
  <2>. QED BY <2>6 DEF m
<1>. QED BY <1>1, <1>2 DEF SumLoop!KeepsTo

\* The slots of all channels with request i of level u
AllSent(u, i, chs) == FoldLeft(LAMBDA n, c : n + Sent(c, u, i), 0, chs)

LEMMA SumCounts ==
    ASSUME NEW own, NEW u, NEW i, Mine(own, u, i), NEW chs, DOMAIN chs = 1 .. Channels,
           \A n \in 1 .. Channels : Tied(own, chs[n]) /\ DOMAIN chs[n].RQ = Slots("RQ")
    PROVE  /\ NoneSent(chs, i) => AllSent(u, i, chs) = 0
           /\ OneSent(chs, i) => AllSent(u, i, chs) = 1
<1>. DEFINE sum == AllSent(u, i, chs)
            par == [u |-> u, i |-> i, chs |-> chs]
<1>0. par.u = u /\ par.i = i /\ par.chs = chs
  OBVIOUS
<1>. HIDE DEF par
<1>1. sum = SumLoop!Fold(par, 0, chs)
  BY <1>0 DEF AllSent, SumLoop!Fold, SumStep, FoldLeft, SumLoop!FoldLeft,
         MapThenFoldSet, SumLoop!MapThenFoldSet, Max, SumLoop!Max
<1>2. \A n \in 1 .. Channels : /\ NoneHeld(chs[n], i) => Sent(chs[n], u, i) = 0
                               /\ OneHeld(chs[n], i) => Sent(chs[n], u, i) = 1
  BY SentCounts
<1>. HIDE DEF sum
<1>3. SumInv(par, 0, 0) /\ SumLoop!KeepsTo(par, chs, Channels)
  BY <1>0, <1>2, SumKeeps
<1>4. SumInv(par, Channels, sum)
  BY <1>1, <1>3, DramConstants, SumLoop!FoldKeepsTo
<1>5. (NoneSent(chs, i) => sum = 0) /\ (OneSent(chs, i) => sum = 1)
  BY <1>0, <1>4 DEF SumInv, NoneSent, OneSent
<1>. QED BY <1>5 DEF sum

LEMMA PlacedCounts ==
    ASSUME DramIInv, WaitInv, NEW i \in Ids, Placed(i)
    PROVE  Places(i) = 1
<1>. DEFINE u == dramAsked[i].upper
            x == upper[u]
            sum == AllSent(u, i, chans)
            A == {y \in dramAnswered : y = [upper |-> u, waiter |-> i]}
            a == Cardinality(A)
<1>1. u \in 1 .. DramUppers /\ Mine(Owner, u, i)
  BY OwnerIs
<1>2. /\ NoneSent(chans, i) => sum = 0
      /\ OneSent(chans, i) => sum = 1
  <2>. DEFINE own == Owner
  <2>1. \A n \in 1 .. Channels : Tied(own, chans[n])
    BY DEF WaitInv, TakeTied
  <2>2. DOMAIN chans = 1 .. Channels /\ \A n \in 1 .. Channels : DOMAIN chans[n].RQ = Slots("RQ")
    BY DEF DramIInv, DramChannelOK, ShapeOK, Modes
  <2>3. Mine(own, u, i)
    BY <1>1
  <2>. HIDE DEF own, u, sum
  <2>4. (NoneSent(chans, i) => sum = 0) /\ (OneSent(chans, i) => sum = 1)
    BY <2>1, <2>2, <2>3, SumCounts DEF sum
  <2>. QED BY <2>4
<1>3. /\ Answered(i) => a = 1
      /\ ~Answered(i) => a = 0
  <2>1. Answered(i) => [upper |-> u, waiter |-> i] \in A /\ \A y \in A : y = [upper |-> u, waiter |-> i]
    BY DEF Answered
  <2>2. ~Answered(i) => A = {}
    BY DEF Answered
  <2>. HIDE DEF A
  <2>. QED BY <2>1, <2>2, CountNone, CountOne
<1>4. Places(i) = Waits(x.RQ, i) + Waits(x.PQ, i) + Waits(x.returned, i) + sum + a
  BY Zenon DEF Places, AllSent
<1>5. \/ OneWaits(x, chans, i)  /\ NoneIn(x.returned, i) /\ ~Answered(i)
      \/ NoneWaits(x, chans, i) /\ OneIn(x.returned, i)  /\ ~Answered(i)
      \/ NoneWaits(x, chans, i) /\ NoneIn(x.returned, i) /\ Answered(i)
  BY DEF Placed
<1>. HIDE DEF sum, a, x
<1>6. \A q : /\ NoneIn(q, i) => Waits(q, i) = 0
             /\ OneIn(q, i) => Waits(q, i) = 1
  BY WaitsCounts
<1>. QED BY <1>2, <1>3, <1>4, <1>5, <1>6 DEF NoneWaits, OneWaits

LEMMA WaitAlways == DramSpec => [](DramIInv /\ WaitInv)
<1>1. DramInit => DramIInv /\ WaitInv
  BY DramInitial, WaitInitial
<1>2. (DramIInv /\ WaitInv) /\ [DramNext]_dramVars => (DramIInv /\ WaitInv)'
  BY DramStep, WaitStep
<1>. QED BY <1>1, <1>2, PTL DEF DramSpec

\* A read is in exactly one place until the cache that asked is told, and is told once:
\* neither the merging of two requests into one slot, nor the forwarding from a write,
\* nor a change of mode with requests on the banks, nor the warmup loses or doubles it;
\* and the banks match the slots meanwhile (MEMORY_CONTROLLER::initiate_requests and
\* operate, DRAM_CHANNEL::check_collision, finish_dbus_request).
THEOREM ReadsAreAnsweredOnce == DramSpec => []DramSound
<1>1. DramIInv /\ WaitInv => DramAnsweredOnce
  BY PlacedCounts DEF WaitInv, DramAnsweredOnce
<1>. QED BY <1>1, WaitAlways, BanksAlwaysMatch, PTL DEF DramSound
=============================================================================
