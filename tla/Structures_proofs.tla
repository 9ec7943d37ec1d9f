-------------------------- MODULE Structures_proofs --------------------------
(***************************************************************************)
(* Proofs about the structures the simulator is built on: VirtualMemory,   *)
(* for any number of cores, pages and levels; LruTable, for any number of  *)
(* ways and tags; and ChannelUse, for queues of any size and any addresses. *)
(*                                                                         *)
(* NothingShared is not inductive: a frame about to be handed out could be *)
(* in use.  IInv adds that frames and slots are handed out in order, so    *)
(* that whatever is in use lies before the two pointers, and that the      *)
(* frame being filled with page-table pages is no page's.                  *)
(*                                                                         *)
(* OneWayPerTag is not inductive either: TableIInv adds that no two used   *)
(* ways were used last by the same access, and none after the newest.      *)
(* What std::minmax_element returns is proved by induction over the pairs  *)
(* of ways it goes through (FoldInduction), and that the table implements  *)
(* LruSet step by step: each call maps to the set's call of that name.     *)
(*                                                                         *)
(* That each waiter is answered once becomes inductive when it is said of  *)
(* places: a waiter is named by one request or response of the channel and *)
(* no other, and UseIInv adds that who is named is who still waits.  That  *)
(* no read passes an older write needs that a checked request overlaps no  *)
(* older write.  check_collision goes through three queues, and each of    *)
(* its loops is a fold whose invariant is proved by FoldInduction.         *)
(*                                                                         *)
(* That a branch is given to a core with its target needs that a reader    *)
(* never runs empty before its file does, so that what it hands out goes   *)
(* on in its buffer: LoopIInv says so of what the core has and of what the *)
(* buffer holds together.  For the length of a phase it adds that a core   *)
(* that is not complete has not reached it, and for the watchdog that the  *)
(* count of idle cycles is the least of those of the cores.                *)
(***************************************************************************)
EXTENDS VirtualMemory, LruTable, ChannelUse, Simulation,
        FiniteSetTheorems, SequenceTheorems, WellFoundedInduction, TLAPS

Memories == [pages     : [PageKeys -> Nat],
             tables    : [TableKeys -> Nat \X Nat],
             nextFrame : Nat,
             nextSlot  : Nat \X Nat,
             aborted   : BOOLEAN]

\* Slot s lies before slot t.
Before(s, t) == s[1] < t[1] \/ (s[1] = t[1] /\ s[2] < t[2])

PagesBelow(m) ==
    \A k \in PageKeys : m.pages[k] # 0 =>
        /\ FirstFrame <= m.pages[k]
        /\ m.pages[k] < m.nextFrame
        /\ m.pages[k] # m.nextSlot[1]

PagesDiffer(m) ==
    \A j, k \in PageKeys : m.pages[j] = m.pages[k] /\ m.pages[k] # 0 => j = k

TablesBelow(m) ==
    \A k \in TableKeys : m.tables[k] # NoSlot =>
        /\ FirstFrame <= m.tables[k][1]
        /\ m.tables[k][2] < SlotsPerFrame
        /\ \/ Before(m.tables[k], m.nextSlot)
           \/ m.aborted /\ m.tables[k] = m.nextSlot

TablesDiffer(m) ==
    \A j, k \in TableKeys :
        m.tables[j] = m.tables[k] /\ m.tables[k] # NoSlot => j = k

Apart(m) ==
    \A j \in PageKeys, k \in TableKeys :
        m.pages[j] # 0 => m.pages[j] # m.tables[k][1]

SlotOpen(m) ==
    m.nextSlot # NoSlot =>
        /\ FirstFrame <= m.nextSlot[1]
        /\ m.nextSlot[1] < m.nextFrame
        /\ m.nextSlot[2] < SlotsPerFrame

Pointers(m) ==
    /\ FirstFrame <= m.nextFrame
    /\ m.nextFrame <= LastFrame
    /\ m.aborted => m.nextFrame = LastFrame

Good(m) ==
    /\ m \in Memories
    /\ PagesBelow(m) /\ PagesDiffer(m)
    /\ TablesBelow(m) /\ TablesDiffer(m)
    /\ Apart(m) /\ SlotOpen(m) /\ Pointers(m)

IInv == Good(vm)
-----------------------------------------------------------------------------
\* What the proofs use of the constants.
LEMMA Constants ==
    /\ FirstFrame \in Nat /\ 0 < FirstFrame
    /\ LastFrame \in Nat /\ FirstFrame < LastFrame
    /\ SlotsPerFrame \in Nat /\ 0 < SlotsPerFrame
BY MemoryAssumption

\* A memory that stops keeps its maps and pointers.
LEMMA AbortedGood ==
    ASSUME NEW m, Good(m), ~FrameLeft(m)
    PROVE  Good(Aborted(m))
<1> DEFINE n == Aborted(m)
<1>1. n = [pages |-> m.pages, tables |-> m.tables, nextFrame |-> m.nextFrame,
           nextSlot |-> m.nextSlot, aborted |-> TRUE]
  BY DEF Aborted
<1>2. n \in Memories
  BY <1>1 DEF Good, Memories
<1>3. PagesBelow(n) /\ PagesDiffer(n)
  BY <1>1 DEF Good, PagesBelow, PagesDiffer
<1>4. TablesBelow(n) /\ TablesDiffer(n) /\ Apart(n) /\ SlotOpen(n)
  BY <1>1 DEF Good, TablesBelow, TablesDiffer, Apart, SlotOpen
<1>5. Pointers(n)
  BY <1>1, Constants DEF Good, Pointers, FrameLeft, Memories
<1> QED
  BY <1>2, <1>3, <1>4, <1>5 DEF Good

\* Taking a frame for page-table pages.
LEMMA FreshFrameGood ==
    ASSUME NEW m, Good(m), ~m.aborted
    PROVE  /\ Good(FreshFrame(m))
           /\ FreshFrame(m).pages = m.pages
           /\ FreshFrame(m).tables = m.tables
           /\ ~FreshFrame(m).aborted => FreshFrame(m).nextSlot # NoSlot
<1>1. CASE ~FrameLeft(m)
  BY <1>1, AbortedGood DEF FreshFrame, Aborted
<1>2. CASE FrameLeft(m)
  <2> DEFINE n == FreshFrame(m)
  <2>1. n = [pages |-> m.pages, tables |-> m.tables,
             nextFrame |-> m.nextFrame + 1,
             nextSlot |-> <<m.nextFrame, 0>>, aborted |-> FALSE]
    BY <1>2 DEF FreshFrame
  <2>2. m \in Memories
    BY DEF Good
  <2>3. n \in Memories
    BY <2>1, <2>2 DEF Memories
  <2>4. m.nextSlot[1] < m.nextFrame
    BY Constants, <2>2 DEF Good, SlotOpen, Pointers, Memories, NoSlot
  <2>5. PagesBelow(n) /\ PagesDiffer(n)
    BY <2>1, <2>2 DEF Good, PagesBelow, PagesDiffer, Memories
  <2>6. TablesBelow(n)
    BY <2>1, <2>2, <2>4 DEF Good, TablesBelow, Before, Memories
  <2>7. TablesDiffer(n) /\ Apart(n)
    BY <2>1 DEF Good, TablesDiffer, Apart
  <2>8. SlotOpen(n) /\ Pointers(n)
    BY <2>1, <2>2, <1>2, Constants DEF Good, SlotOpen, Pointers, Memories, FrameLeft
  <2>9. n.nextSlot # NoSlot
    BY <2>1, <2>2, Constants DEF Good, Pointers, Memories, NoSlot
  <2> QED
    BY <2>1, <2>3, <2>5, <2>6, <2>7, <2>8, <2>9 DEF Good
<1> QED
  BY <1>1, <1>2

\* Mapping a virtual page.
LEMMA VaToPaGood ==
    ASSUME NEW m, Good(m), ~m.aborted, NEW key \in PageKeys
    PROVE  Good(VaToPa(m, key))
<1>1. CASE ~FrameLeft(m)
  BY <1>1, AbortedGood DEF VaToPa
<1>2. CASE FrameLeft(m) /\ m.pages[key] # 0
  BY <1>2 DEF VaToPa
<1>3. CASE FrameLeft(m) /\ m.pages[key] = 0
  <2> DEFINE n == VaToPa(m, key)
  <2>1. n = [pages |-> [m.pages EXCEPT ![key] = m.nextFrame],
             tables |-> m.tables, nextFrame |-> m.nextFrame + 1,
             nextSlot |-> m.nextSlot, aborted |-> FALSE]
    BY <1>3 DEF VaToPa
  <2>2. m \in Memories
    BY DEF Good
  <2>3. n \in Memories
    BY <2>1, <2>2 DEF Memories
  <2>4. m.nextSlot[1] < m.nextFrame
    BY Constants, <2>2 DEF Good, SlotOpen, Pointers, Memories, NoSlot
  <2>5. \A k \in TableKeys : m.tables[k][1] < m.nextFrame
    BY <2>2, <2>4, Constants
       DEF Good, TablesBelow, Before, Memories, NoSlot, Pointers
  <2>6. PagesBelow(n)
    BY <2>1, <2>2, <2>4, Constants DEF Good, PagesBelow, Memories, Pointers
  <2>7. PagesDiffer(n)
    BY <2>1, <2>2 DEF Good, PagesBelow, PagesDiffer, Memories
  <2>8. TablesBelow(n) /\ TablesDiffer(n)
    BY <2>1 DEF Good, TablesBelow, TablesDiffer
  <2>9. Apart(n)
    BY <2>1, <2>2, <2>5 DEF Good, Apart, Memories
  <2>10. SlotOpen(n) /\ Pointers(n)
    BY <2>1, <2>2, <1>3, Constants DEF Good, SlotOpen, Pointers, Memories, FrameLeft
  <2> QED
    BY <2>3, <2>6, <2>7, <2>8, <2>9, <2>10 DEF Good
<1> QED
  BY <1>1, <1>2, <1>3

\* Giving the next slot to a page of the page table.
LEMMA TableGivenGood ==
    ASSUME NEW m, Good(m), ~m.aborted, m.nextSlot # NoSlot,
           NEW key \in TableKeys, m.tables[key] = NoSlot
    PROVE  Good(TableGiven(m, key))
<1> DEFINE t == [m.tables EXCEPT ![key] = m.nextSlot]
           n == TableGiven(m, key)
<1>1. m \in Memories
  BY DEF Good
<1>2. t \in [TableKeys -> Nat \X Nat]
  BY <1>1 DEF Memories
<1>3. /\ FirstFrame <= m.nextSlot[1]
      /\ m.nextSlot[1] < m.nextFrame
      /\ m.nextSlot[2] < SlotsPerFrame
  BY DEF Good, SlotOpen
<1>4. \A k \in TableKeys : m.tables[k] # NoSlot => Before(m.tables[k], m.nextSlot)
  BY DEF Good, TablesBelow
<1>5. \A k \in TableKeys : m.tables[k] # NoSlot => m.tables[k] # m.nextSlot
  BY <1>1, <1>4 DEF Before, Memories
<1>6. \A j, k \in TableKeys : t[j] = t[k] /\ t[k] # NoSlot => j = k
  BY <1>1, <1>5 DEF Good, TablesDiffer, Memories
<1>7. \A k \in TableKeys : t[k] # NoSlot =>
         /\ FirstFrame <= t[k][1]
         /\ t[k][2] < SlotsPerFrame
         /\ t[k] = m.nextSlot \/ Before(t[k], m.nextSlot)
  BY <1>1, <1>3, <1>4 DEF Good, TablesBelow, Memories
<1>8. \A j \in PageKeys, k \in TableKeys : m.pages[j] # 0 => m.pages[j] # t[k][1]
  BY <1>1 DEF Good, PagesBelow, Apart, Memories
<1>9. CASE m.nextSlot[2] + 1 = SlotsPerFrame /\ ~FrameLeft(m)
  <2>1. n = [pages |-> m.pages, tables |-> t, nextFrame |-> m.nextFrame,
             nextSlot |-> m.nextSlot, aborted |-> TRUE]
    BY <1>9 DEF TableGiven, NextSlot, FreshFrame, Aborted, FrameLeft
  <2>2. n \in Memories
    BY <1>1, <1>2, <2>1 DEF Memories
  <2>3. PagesBelow(n) /\ PagesDiffer(n)
    BY <2>1 DEF Good, PagesBelow, PagesDiffer
  <2>4. TablesBelow(n) /\ TablesDiffer(n) /\ Apart(n)
    BY <2>1, <1>6, <1>7, <1>8 DEF TablesBelow, TablesDiffer, Apart
  <2>5. SlotOpen(n)
    BY <2>1, <1>3 DEF SlotOpen
  <2>6. m.nextFrame = LastFrame
    BY <1>1, <1>9, Constants DEF Good, Pointers, FrameLeft, Memories
  <2>7. Pointers(n)
    BY <2>1, <2>6, Constants DEF Pointers
  <2> QED
    BY <2>2, <2>3, <2>4, <2>5, <2>7 DEF Good
<1>10. CASE m.nextSlot[2] + 1 = SlotsPerFrame /\ FrameLeft(m)
  <2>1. n = [pages |-> m.pages, tables |-> t, nextFrame |-> m.nextFrame + 1,
             nextSlot |-> <<m.nextFrame, 0>>, aborted |-> FALSE]
    BY <1>10 DEF TableGiven, NextSlot, FreshFrame, FrameLeft
  <2>2. n \in Memories
    BY <1>1, <1>2, <2>1 DEF Memories
  <2>3. PagesBelow(n) /\ PagesDiffer(n)
    BY <2>1, <1>1 DEF Good, PagesBelow, PagesDiffer, Memories
  <2>4. \A k \in TableKeys : t[k] # NoSlot => Before(t[k], <<m.nextFrame, 0>>)
    BY <1>1, <1>2, <1>3, <1>7 DEF Before, Memories
  <2>5. TablesBelow(n) /\ TablesDiffer(n) /\ Apart(n)
    BY <2>1, <2>4, <1>6, <1>7, <1>8 DEF TablesBelow, TablesDiffer, Apart
  <2>6. SlotOpen(n) /\ Pointers(n)
    BY <2>1, <1>1, <1>10, Constants DEF Good, SlotOpen, Pointers, FrameLeft, Memories
  <2> QED
    BY <2>2, <2>3, <2>5, <2>6 DEF Good
<1>11. CASE m.nextSlot[2] + 1 # SlotsPerFrame
  <2>1. n = [pages |-> m.pages, tables |-> t, nextFrame |-> m.nextFrame,
             nextSlot |-> <<m.nextSlot[1], m.nextSlot[2] + 1>>, aborted |-> FALSE]
    BY <1>11 DEF TableGiven, NextSlot
  <2>2. n \in Memories
    BY <1>1, <1>2, <2>1 DEF Memories
  <2>3. PagesBelow(n) /\ PagesDiffer(n)
    BY <2>1 DEF Good, PagesBelow, PagesDiffer
  <2>4. \A k \in TableKeys : t[k] # NoSlot =>
           Before(t[k], <<m.nextSlot[1], m.nextSlot[2] + 1>>)
    BY <1>1, <1>2, <1>7 DEF Before, Memories
  <2>5. TablesBelow(n) /\ TablesDiffer(n) /\ Apart(n)
    BY <2>1, <2>4, <1>6, <1>7, <1>8 DEF TablesBelow, TablesDiffer, Apart
  <2>6. SlotOpen(n) /\ Pointers(n)
    BY <2>1, <1>1, <1>3, <1>11, Constants DEF Good, SlotOpen, Pointers, Memories
  <2> QED
    BY <2>2, <2>3, <2>5, <2>6 DEF Good
<1> QED
  BY <1>9, <1>10, <1>11

\* Mapping a part of the page table.
LEMMA GetPtePaGood ==
    ASSUME NEW m, Good(m), ~m.aborted, NEW key \in TableKeys
    PROVE  Good(GetPtePa(m, key))
<1> DEFINE ready == IF m.nextSlot = NoSlot THEN FreshFrame(m) ELSE m
<1>1. Good(ready) /\ (~ready.aborted => ready.nextSlot # NoSlot)
  BY FreshFrameGood
<1>2. CASE ready.aborted \/ ready.tables[key] # NoSlot
  BY <1>1, <1>2 DEF GetPtePa
<1>3. CASE ~ready.aborted /\ ready.tables[key] = NoSlot
  <2>1. GetPtePa(m, key) = TableGiven(ready, key)
    BY <1>3 DEF GetPtePa
  <2> HIDE DEF ready
  <2> QED
    BY <1>1, <1>3, <2>1, TableGivenGood
<1> QED
  BY <1>2, <1>3

\* Memory starts empty.
LEMMA InitGood == Init => IInv
<1> SUFFICES ASSUME Init PROVE Good(vm)
  BY DEF IInv
<1>1. vm = [pages |-> [k \in PageKeys |-> 0], tables |-> [k \in TableKeys |-> NoSlot],
            nextFrame |-> FirstFrame, nextSlot |-> NoSlot, aborted |-> FALSE]
  BY DEF Init, NewMemory
<1>2. vm \in Memories
  BY <1>1, Constants DEF Memories, NoSlot
<1>3. PagesBelow(vm) /\ PagesDiffer(vm) /\ Apart(vm)
  BY <1>1 DEF PagesBelow, PagesDiffer, Apart
<1>4. TablesBelow(vm) /\ TablesDiffer(vm) /\ SlotOpen(vm)
  BY <1>1 DEF TablesBelow, TablesDiffer, SlotOpen
<1>5. Pointers(vm)
  BY <1>1, Constants DEF Pointers
<1> QED
  BY <1>2, <1>3, <1>4, <1>5 DEF Good

\* The two calls keep the memory in order.
LEMMA NextGood == IInv /\ [Next]_vm => IInv'
<1> SUFFICES ASSUME Good(vm), [Next]_vm PROVE Good(vm')
  BY DEF IInv
<1>1. CASE UNCHANGED vm
  BY <1>1
<1>2. ASSUME NEW key \in PageKeys, ~vm.aborted, vm' = VaToPa(vm, key)
      PROVE  Good(vm')
  BY <1>2, VaToPaGood
<1>3. ASSUME NEW key \in TableKeys, ~vm.aborted, vm' = GetPtePa(vm, key)
      PROVE  Good(vm')
  BY <1>3, GetPtePaGood
<1> QED
  BY <1>1, <1>2, <1>3 DEF Next

\* The inductive invariant holds in every reachable state.
LEMMA AlwaysGood == Spec => []IInv
BY InitGood, NextGood, PTL DEF Spec

\* The maps keep their types and the pointers their bounds, whatever the calls.
THEOREM TypeCorrect == Spec => []TypeOK
<1>1. IInv => TypeOK
  <2> SUFFICES ASSUME Good(vm) PROVE TypeOK
    BY DEF IInv
  <2>1. vm \in Memories
    BY DEF Good
  <2>2. vm.nextFrame \in FirstFrame .. LastFrame
    BY <2>1, Constants DEF Good, Pointers, Memories
  <2>3. vm.nextSlot \in Nat \X (0 .. SlotsPerFrame - 1)
    <3>1. PICK f \in Nat, s \in Nat : vm.nextSlot = <<f, s>>
      BY <2>1 DEF Memories
    <3>2. s < SlotsPerFrame
      BY <3>1, Constants DEF Good, SlotOpen, NoSlot
    <3> QED
      BY <3>1, <3>2, Constants
  <2> QED
    BY <2>1, <2>2, <2>3 DEF Memories, TypeOK
<1> QED
  BY <1>1, AlwaysGood, PTL

\* However va_to_pa and get_pte_pa are interleaved, no frame and no slot ever
\* has two owners.
THEOREM FramesNotShared == Spec => []NothingShared
<1>1. IInv => NothingShared
  BY DEF IInv, Good, PagesDiffer, TablesDiffer, Apart, NothingShared
<1> QED
  BY <1>1, AlwaysGood, PTL

\* Everything handed out lies in memory, above the reserve.
THEOREM StaysInMemory == Spec => []InMemory
<1>1. IInv => InMemory
  <2> SUFFICES ASSUME Good(vm) PROVE InMemory
    BY DEF IInv
  <2>1. vm \in Memories
    BY DEF Good
  <2>2. ASSUME NEW k \in PageKeys
        PROVE  vm.pages[k] \in {0} \cup FirstFrame .. LastFrame - 1
    BY <2>1, Constants DEF Good, Memories, PagesBelow, Pointers
  <2>3. ASSUME NEW k \in TableKeys, vm.tables[k] # NoSlot
        PROVE  /\ vm.tables[k][1] \in FirstFrame .. LastFrame - 1
               /\ vm.tables[k][2] \in 0 .. SlotsPerFrame - 1
    <3>1. vm.nextSlot[1] < LastFrame
      BY <2>1, Constants DEF Good, Memories, SlotOpen, Pointers, NoSlot
    <3>2. vm.tables[k][1] < LastFrame
      BY <2>1, <2>3, <3>1, Constants DEF Good, TablesBelow, Before, Memories
    <3> QED
      BY <2>1, <2>3, <3>2, Constants DEF Good, TablesBelow, Memories
  <2> QED
    BY <2>2, <2>3 DEF InMemory
<1> QED
  BY <1>1, AlwaysGood, PTL

\* A call that maps a virtual page gives it a frame nobody has.
LEMMA VaToPaGives ==
    ASSUME Good(vm), ~vm.aborted, NEW key \in PageKeys, vm' = VaToPa(vm, key)
    PROVE  [Owners!OwnerNext]_(Owners!ownerVars)
<1>1. CASE ~FrameLeft(vm) \/ vm.pages[key] # 0
  BY <1>1 DEF VaToPa, Aborted, Owners!ownerVars
<1>2. CASE FrameLeft(vm) /\ vm.pages[key] = 0
  <2>1. vm \in Memories
    BY DEF Good
  <2>2. /\ vm'.pages = [vm.pages EXCEPT ![key] = vm.nextFrame]
        /\ vm'.tables = vm.tables
    BY <1>2 DEF VaToPa
  <2>3. vm.nextFrame \in FirstFrame .. LastFrame - 1
    BY <1>2, <2>1, Constants DEF Good, Pointers, FrameLeft, Memories
  <2>4. \A k \in PageKeys : vm.pages[k] # vm.nextFrame
    BY <2>1, <2>3, Constants DEF Good, PagesBelow, Memories
  <2>5. vm.nextSlot[1] < vm.nextFrame
    BY Constants, <2>1 DEF Good, SlotOpen, Pointers, Memories, NoSlot
  <2>6. \A k \in TableKeys : vm.tables[k][1] # vm.nextFrame
    BY <2>1, <2>5, Constants
       DEF Good, TablesBelow, Before, Memories, NoSlot, Pointers
  <2>7. Owners!GivePage(key, vm.nextFrame)
    BY <1>2, <2>2, <2>4, <2>6
       DEF Owners!GivePage, Owners!HoldsPage, Owners!HoldsTable
  <2> QED
    BY <2>3, <2>7 DEF Owners!OwnerNext
<1> QED
  BY <1>1, <1>2

\* A call that maps a part of the page table gives it a slot nobody has.
LEMMA GetPtePaGives ==
    ASSUME Good(vm), ~vm.aborted, NEW key \in TableKeys, vm' = GetPtePa(vm, key)
    PROVE  [Owners!OwnerNext]_(Owners!ownerVars)
<1> DEFINE ready == IF vm.nextSlot = NoSlot THEN FreshFrame(vm) ELSE vm
<1>1. /\ Good(ready)
      /\ ready.pages = vm.pages
      /\ ready.tables = vm.tables
      /\ ~ready.aborted => ready.nextSlot # NoSlot
  BY FreshFrameGood
<1>2. CASE ready.aborted \/ ready.tables[key] # NoSlot
  <2>1. vm' = ready
    BY <1>2 DEF GetPtePa
  <2> QED
    BY <1>1, <2>1 DEF Owners!ownerVars
<1>3. CASE ~ready.aborted /\ ready.tables[key] = NoSlot
  <2>1. vm' = TableGiven(ready, key)
    BY <1>3 DEF GetPtePa
  <2> HIDE DEF ready
  <2>2. /\ vm'.pages = ready.pages
        /\ vm'.tables = [ready.tables EXCEPT ![key] = ready.nextSlot]
    BY <2>1 DEF TableGiven, NextSlot, FreshFrame, Aborted
  <2>3. ready \in Memories
    BY <1>1 DEF Good
  <2>4. PICK f \in Nat, s \in Nat : ready.nextSlot = <<f, s>>
    BY <2>3 DEF Memories
  <2>5. f \in FirstFrame .. LastFrame - 1 /\ s \in 0 .. SlotsPerFrame - 1
    BY <1>1, <1>3, <2>3, <2>4, Constants DEF Good, SlotOpen, Pointers, Memories
  <2>6. \A k \in PageKeys : vm.pages[k] # f
    BY <1>1, <2>3, <2>4, <2>5, Constants DEF Good, PagesBelow, Memories
  <2>7. \A k \in TableKeys : vm.tables[k] # <<f, s>>
    BY <1>1, <1>3, <2>3, <2>4 DEF Good, TablesBelow, Before, Memories
  <2>8. vm.tables[key] = Owners!NoSlot
    BY <1>1, <1>3 DEF Owners!NoSlot, NoSlot
  <2>9. Owners!GiveTable(key, f, s)
    BY <1>1, <2>2, <2>4, <2>6, <2>7, <2>8 DEF Owners!GiveTable, Owners!HoldsPage
  <2> QED
    BY <2>5, <2>9 DEF Owners!OwnerNext
<1> QED
  BY <1>2, <1>3

\* VirtualMemory implements FrameOwnership: its maps only ever give free places
\* away, and never take one back.
THEOREM OwnershipImplemented == Spec => ImplementsOwnership
<1>1. Init => Owners!OwnerInit
  BY DEF Init, NewMemory, Owners!OwnerInit, Owners!NoSlot, NoSlot
<1>2. IInv /\ [Next]_vm => [Owners!OwnerNext]_(Owners!ownerVars)
  <2> SUFFICES ASSUME Good(vm), [Next]_vm
               PROVE  [Owners!OwnerNext]_(Owners!ownerVars)
    BY DEF IInv
  <2>1. CASE UNCHANGED vm
    BY <2>1 DEF Owners!ownerVars
  <2>2. CASE Next
    BY <2>2, VaToPaGives, GetPtePaGives DEF Next
  <2> QED
    BY <2>1, <2>2
<1> QED
  BY <1>1, <1>2, AlwaysGood, PTL DEF Spec, ImplementsOwnership, Owners!OwnerSpec
-----------------------------------------------------------------------------
\* The least-recently-used table.
TableTypeOK ==
    /\ block \in [Way -> [lastUsed : Nat, tag : Tags]]
    /\ accessCount \in Nat

\* No two ways were used last by the same access.
StampsDiffer ==
    /\ \A w \in Way : block[w].lastUsed <= accessCount
    /\ \A v, w \in Way : Valid(v) /\ block[v].lastUsed = block[w].lastUsed => v = w

TableIInv == TableTypeOK /\ StampsDiffer /\ OneWayPerTag

-----------------------------------------------------------------------------
\* The comparison of two ways, though an unused way is less than itself.
Smaller(tag, x, y) == IF Less(tag, x, y) THEN x ELSE y
Larger(tag, x, y)  == IF Less(tag, x, y) THEN y ELSE x

Holds(tag, w) == Valid(w) /\ block[w].tag = tag

\* An unused way is the smaller, and of two that do not hold the tag, the older.
LEMMA SmallerOfTwo ==
    ASSUME TableTypeOK, NEW tag, NEW x \in Way, NEW y \in Way
    PROVE  /\ Smaller(tag, x, y) \in {x, y}
           /\ ~Valid(x) \/ ~Valid(y) => ~Valid(Smaller(tag, x, y))
           /\ ~Holds(tag, x) /\ ~Holds(tag, y) /\ Valid(x) /\ Valid(y) =>
                \A z \in {x, y} : block[Smaller(tag, x, y)].lastUsed <= block[z].lastUsed
BY DEF TableTypeOK, Smaller, Less, Holds, Valid

\* A way that holds the tag is the larger, and a used one before an unused one.
LEMMA LargerOfTwo ==
    ASSUME TableTypeOK, NEW tag, NEW x \in Way, NEW y \in Way
    PROVE  /\ Larger(tag, x, y) \in {x, y}
           /\ Valid(x) \/ Valid(y) => Valid(Larger(tag, x, y))
           /\ Holds(tag, x) \/ Holds(tag, y) => Holds(tag, Larger(tag, x, y))
BY DEF TableTypeOK, Larger, Less, Holds, Valid

\* What is known of the extremes of the first n ways.
Extremes(tag, n, ends) ==
    /\ ends[1] \in 1 .. n /\ ends[2] \in 1 .. n
    /\ \A w \in 1 .. n : ~Valid(w) => ~Valid(ends[1])
    /\ (\A w \in 1 .. n : Valid(w) /\ ~Holds(tag, w)) =>
            \A w \in 1 .. n : block[ends[1]].lastUsed <= block[w].lastUsed
    /\ \A w \in 1 .. n : Valid(w) => Valid(ends[2])
    /\ \A w \in 1 .. n : Holds(tag, w) => Holds(tag, ends[2])

LEMMA OrderedIsExtreme ==
    ASSUME TableTypeOK, NEW tag, NEW w \in Way, w + 1 \in Way
    PROVE  Ordered(tag, w) = <<Smaller(tag, w + 1, w), Larger(tag, w + 1, w)>>
BY DEF Ordered, Smaller, Larger

\* The next two ways, or the last one.
LEMMA WiderIsExtreme ==
    ASSUME TableTypeOK, NEW tag, NEW n \in 1 .. Ways - 1, NEW ends, Extremes(tag, n, ends)
    PROVE  IF n + 1 = Ways THEN Extremes(tag, n + 1, Wider(tag, ends, n + 1))
           ELSE Extremes(tag, n + 2, Wider(tag, ends, n + 1))
<1>. DEFINE x == ends[1]
            y == ends[2]
            u == n + 1
            v == n + 2
<1>0. /\ Ways \in Nat \ {0} /\ n \in Nat /\ u \in Way /\ x \in Way /\ y \in Way
      /\ 1 .. n + 1 = 1 .. n \cup {u} /\ 1 .. n + 2 = 1 .. n \cup {u, v}
      /\ x \in 1 .. n /\ y \in 1 .. n /\ \A w \in 1 .. n : w \in Way
  BY TableAssumption DEF Way, Extremes
<1>1. CASE n + 1 = Ways
  <2>1. Smaller(tag, u, x) = IF Less(tag, u, x) THEN u ELSE x
    BY DEF Smaller
  <2>2. CASE Less(tag, u, x)
    <3>1. Wider(tag, ends, u) = <<u, y>> /\ Smaller(tag, u, x) = u
      BY <1>1, <2>1, <2>2 DEF Wider
    <3>2. /\ Valid(u) => Valid(x)
          /\ Holds(tag, u) => Holds(tag, x)
      BY <1>0, <2>2 DEF Less, Holds, Valid, TableTypeOK
    <3>3. Extremes(tag, n + 1, <<u, y>>)
      <4>. HIDE DEF x, y, u
      <4>1. /\ ~Valid(u) \/ ~Valid(x) => ~Valid(u)
            /\ ~Holds(tag, u) /\ ~Holds(tag, x) /\ Valid(u) /\ Valid(x) =>
                    block[u].lastUsed <= block[x].lastUsed
        BY <1>0, <3>1, SmallerOfTwo
      <4>. QED
        <5>1. /\ u \in 1 .. n + 1 /\ y \in 1 .. n + 1
          BY <1>0
        <5>2. /\ \A w \in 1 .. n : ~Valid(w) => ~Valid(x)
              /\ (\A w \in 1 .. n : Valid(w) /\ ~Holds(tag, w)) =>
                    \A w \in 1 .. n : block[x].lastUsed <= block[w].lastUsed
              /\ \A w \in 1 .. n : Valid(w) => Valid(y)
              /\ \A w \in 1 .. n : Holds(tag, w) => Holds(tag, y)
          BY DEF Extremes, x, y
        <5>3. \A w \in 1 .. n + 1 : block[w].lastUsed \in Nat
          BY <1>0 DEF TableTypeOK
        <5>4. (\A w \in 1 .. n + 1 : Valid(w) /\ ~Holds(tag, w)) =>
                    \A w \in 1 .. n + 1 : block[u].lastUsed <= block[w].lastUsed
          BY <1>0, <4>1, <5>2, <5>3
        <5>. QED BY <1>0, <3>2, <4>1, <5>1, <5>2, <5>4 DEF Extremes
    <3>. QED BY <1>1, <3>1, <3>3
  <2>3. CASE ~Less(tag, u, x)
    <3>1. /\ Smaller(tag, u, x) = x
          /\ Wider(tag, ends, u)[1] = x /\ Wider(tag, ends, u)[2] = Larger(tag, u, y)
      <4>1. /\ Smaller(tag, u, x) = x
            /\ Larger(tag, u, y) = IF Less(tag, u, y) THEN y ELSE u
        BY <2>3 DEF Smaller, Larger
      <4>2. Wider(tag, ends, u) = IF ~Less(tag, u, y) THEN <<x, u>> ELSE ends
        BY <1>1, <2>3 DEF Wider
      <4>. HIDE DEF u
      <4>. QED BY <4>1, <4>2
    <3>. DEFINE g == Larger(tag, u, y)
                e == Wider(tag, ends, u)
    <3>2. e[1] = x /\ e[2] = g
      BY <3>1
    <3>3. Extremes(tag, n + 1, e)
      <4>1. /\ ~Valid(u) \/ ~Valid(x) => ~Valid(x)
            /\ ~Holds(tag, u) /\ ~Holds(tag, x) /\ Valid(u) /\ Valid(x) =>
                    block[x].lastUsed <= block[u].lastUsed
        <5>. HIDE DEF x, u, g, e
        <5>1. /\ ~Valid(u) \/ ~Valid(x) => ~Valid(Smaller(tag, u, x))
              /\ ~Holds(tag, u) /\ ~Holds(tag, x) /\ Valid(u) /\ Valid(x) =>
                    \A z \in {u, x} : block[Smaller(tag, u, x)].lastUsed <= block[z].lastUsed
          BY <1>0, SmallerOfTwo
        <5>2. Smaller(tag, u, x) = x
          BY <3>1
        <5>. QED BY <5>1, <5>2
      <4>2. /\ g \in {u, y} /\ (Valid(u) \/ Valid(y) => Valid(g))
            /\ Holds(tag, u) \/ Holds(tag, y) => Holds(tag, g)
        BY <1>0, LargerOfTwo
      <4>3. /\ \A w \in 1 .. n : ~Valid(w) => ~Valid(x)
            /\ (\A w \in 1 .. n : Valid(w) /\ ~Holds(tag, w)) =>
                    \A w \in 1 .. n : block[x].lastUsed <= block[w].lastUsed
            /\ \A w \in 1 .. n : Valid(w) => Valid(y)
            /\ \A w \in 1 .. n : Holds(tag, w) => Holds(tag, y)
        BY DEF Extremes
      <4>. HIDE DEF x, y, u, e, g
      <4>4. e[1] \in 1 .. n + 1 /\ e[2] \in 1 .. n + 1
        BY <1>0, <3>2, <4>2
      <4>5. (\A w \in 1 .. n + 1 : Valid(w) /\ ~Holds(tag, w)) =>
                    \A w \in 1 .. n + 1 : block[x].lastUsed <= block[w].lastUsed
        BY <1>0, <4>1, <4>3
      <4>. QED BY <1>0, <3>2, <4>1, <4>2, <4>3, <4>4, <4>5 DEF Extremes
    <3>. QED BY <1>1, <3>3
  <2>. QED BY <2>2, <2>3
<1>2. CASE n + 1 # Ways
  <2>. DEFINE a == Smaller(tag, v, u)
              b == Larger(tag, v, u)
              f == Smaller(tag, a, x)
              g == Larger(tag, b, y)
              e == Wider(tag, ends, u)
  <2>1. v \in Way /\ v = u + 1
    BY <1>0, <1>2, TableAssumption DEF Way
  <2>2. Ordered(tag, u) = <<a, b>>
    BY <1>0, <2>1, OrderedIsExtreme
  <2>3. e[1] = f /\ e[2] = g
    <3>. HIDE DEF a, b
    <3>. QED BY <1>2, <2>2 DEF Wider, Smaller, Larger
  <2>4. /\ a \in {u, v} /\ (~Valid(u) \/ ~Valid(v) => ~Valid(a))
        /\ ~Holds(tag, u) /\ ~Holds(tag, v) /\ Valid(u) /\ Valid(v) =>
                \A z \in {u, v} : block[a].lastUsed <= block[z].lastUsed
    <3>. HIDE DEF x, y, u, v
    <3>1. /\ a \in {v, u} /\ (~Valid(v) \/ ~Valid(u) => ~Valid(a))
          /\ ~Holds(tag, v) /\ ~Holds(tag, u) /\ Valid(v) /\ Valid(u) =>
                \A z \in {v, u} : block[a].lastUsed <= block[z].lastUsed
      <4>1. v \in Way /\ u \in Way
        BY <1>0, <2>1
      <4>. QED BY <4>1, SmallerOfTwo
    <3>. HIDE DEF a
    <3>. QED BY <3>1
  <2>5. /\ b \in {u, v} /\ (Valid(u) \/ Valid(v) => Valid(b))
        /\ Holds(tag, u) \/ Holds(tag, v) => Holds(tag, b)
    BY <1>0, <2>1, LargerOfTwo
  <2>6. /\ f \in {a, x} /\ (~Valid(a) \/ ~Valid(x) => ~Valid(f))
        /\ ~Holds(tag, a) /\ ~Holds(tag, x) /\ Valid(a) /\ Valid(x) =>
                \A z \in {a, x} : block[f].lastUsed <= block[z].lastUsed
    <3>. HIDE DEF a
    <3>. QED BY <1>0, <2>1, <2>4, SmallerOfTwo
  <2>7. /\ g \in {b, y} /\ (Valid(b) \/ Valid(y) => Valid(g))
        /\ Holds(tag, b) \/ Holds(tag, y) => Holds(tag, g)
    <3>. HIDE DEF b
    <3>. QED BY <1>0, <2>1, <2>5, LargerOfTwo
  <2>8. /\ \A w \in 1 .. n : ~Valid(w) => ~Valid(x)
        /\ (\A w \in 1 .. n : Valid(w) /\ ~Holds(tag, w)) =>
                \A w \in 1 .. n : block[x].lastUsed <= block[w].lastUsed
        /\ \A w \in 1 .. n : Valid(w) => Valid(y)
        /\ \A w \in 1 .. n : Holds(tag, w) => Holds(tag, y)
    BY DEF Extremes
  <2>9. \A w \in Way : block[w].lastUsed \in Nat
    BY DEF TableTypeOK
  <2>. HIDE DEF x, y, u, v, a, b, e, f, g
  <2>10. e[1] \in 1 .. n + 2 /\ e[2] \in 1 .. n + 2
    BY <1>0, <2>3, <2>4, <2>5, <2>6, <2>7
  <2>11. \A w \in 1 .. n + 2 : ~Valid(w) => ~Valid(f)
    BY <1>0, <2>4, <2>6, <2>8
  <2>12. /\ \A w \in 1 .. n + 2 : Valid(w) => Valid(g)
         /\ \A w \in 1 .. n + 2 : Holds(tag, w) => Holds(tag, g)
    BY <1>0, <2>5, <2>7, <2>8
  <2>13. ASSUME \A w \in 1 .. n + 2 : Valid(w) /\ ~Holds(tag, w), NEW w \in 1 .. n + 2
         PROVE  block[f].lastUsed <= block[w].lastUsed
    <3>1. /\ block[f].lastUsed <= block[x].lastUsed /\ block[f].lastUsed <= block[a].lastUsed
          /\ block[a].lastUsed <= block[u].lastUsed /\ block[a].lastUsed <= block[v].lastUsed
      BY <1>0, <2>4, <2>6, <2>13
    <3>2. \A z \in 1 .. n : block[x].lastUsed <= block[z].lastUsed
      BY <1>0, <2>8, <2>13
    <3>3. /\ a \in Way /\ f \in Way /\ w \in Way
          /\ w = u \/ w = v \/ w \in 1 .. n
      BY <1>0, <2>1, <2>4, <2>6
    <3>4. /\ block[f].lastUsed \in Nat /\ block[x].lastUsed \in Nat
          /\ block[a].lastUsed \in Nat /\ block[w].lastUsed \in Nat
      BY <1>0, <2>1, <2>9, <3>3
    <3>5. CASE w = u \/ w = v
      <4>1. block[a].lastUsed <= block[w].lastUsed
        BY <3>1, <3>5
      <4>. QED BY <3>1, <3>4, <4>1
    <3>6. CASE w \in 1 .. n
      <4>1. block[x].lastUsed <= block[w].lastUsed
        BY <3>2, <3>6
      <4>. QED BY <3>1, <3>4, <4>1
    <3>. QED BY <3>3, <3>5, <3>6
  <2>14. Extremes(tag, n + 2, e)
    BY <2>3, <2>10, <2>11, <2>12, <2>13 DEF Extremes
  <2>. QED BY <1>2, <2>14 DEF e, u
<1>. QED BY <1>1, <1>2

\* The operators of the fold, for its induction: the loop compares two ways at a time.
WiderAt(tag, ends, k) == Wider(tag, ends, 2 * k + 1)

ExtremesAfter(tag, k, ends) ==
    Extremes(tag, IF 2 * k + 2 <= Ways THEN 2 * k + 2 ELSE Ways, ends)

Search == INSTANCE FoldInduction WITH Op <- WiderAt, Inv <- ExtremesAfter

LEMMA MinMaxIsExtreme ==
    ASSUME TableTypeOK, NEW tag
    PROVE  Extremes(tag, Ways, MinMax(tag))
<1>. DEFINE n == (Ways - 1) \div 2
            s == [k \in 1 .. n |-> k]
            base == IF Ways = 1 THEN <<1, 1>> ELSE Ordered(tag, 1)
<1>1. /\ Ways \in Nat \ {0} /\ n \in Nat
      /\ 2 * n <= Ways - 1 /\ Ways - 1 <= 2 * n + 1
  BY TableAssumption
<1>2. s \in Seq(Nat) /\ Len(s) = n /\ \A k \in 1 .. n : s[k] = k
  <2>. HIDE DEF n
  <2>. QED BY <1>1
<1>3. MinMax(tag) = Search!Fold(tag, base, s)
  BY DEF MinMax, Search!Fold, WiderAt, FoldLeft, Search!FoldLeft, MapThenFoldSet,
         Search!MapThenFoldSet, Max, Search!Max
<1>4. ExtremesAfter(tag, 0, base)
  <2>1. CASE Ways = 1
    <3>1. base = <<1, 1>>
      BY <2>1
    <3>2. 1 .. 1 = {1} /\ block[1].lastUsed \in Nat
      BY <2>1 DEF TableTypeOK, Way
    <3>3. Extremes(tag, 1, <<1, 1>>)
      BY <3>2 DEF Extremes
    <3>. HIDE DEF base
    <3>. QED BY <2>1, <3>1, <3>3 DEF ExtremesAfter
  <2>2. CASE Ways # 1
    <3>1. 1 \in Way /\ 1 + 1 \in Way /\ 2 \in Way /\ 1 .. 2 = {1, 2}
      BY <1>1, <2>2 DEF Way
    <3>2. base = <<Smaller(tag, 2, 1), Larger(tag, 2, 1)>>
      BY <2>2, <3>1, OrderedIsExtreme
    <3>. DEFINE a == Smaller(tag, 2, 1)
                b == Larger(tag, 2, 1)
    <3>3. /\ a \in {2, 1} /\ (~Valid(2) \/ ~Valid(1) => ~Valid(a))
          /\ ~Holds(tag, 2) /\ ~Holds(tag, 1) /\ Valid(2) /\ Valid(1) =>
                \A z \in {2, 1} : block[a].lastUsed <= block[z].lastUsed
      BY <3>1, SmallerOfTwo
    <3>4. /\ b \in {2, 1} /\ (Valid(2) \/ Valid(1) => Valid(b))
          /\ Holds(tag, 2) \/ Holds(tag, 1) => Holds(tag, b)
      BY <3>1, LargerOfTwo
    <3>. HIDE DEF base, a, b
    <3>5. Extremes(tag, 2, base)
      BY <3>1, <3>2, <3>3, <3>4 DEF Extremes, a, b
    <3>6. (IF 2 * 0 + 2 <= Ways THEN 2 * 0 + 2 ELSE Ways) = 2
      BY <1>1, <2>2
    <3>. QED BY <3>5, <3>6 DEF ExtremesAfter
  <2>. QED BY <2>1, <2>2
<1>5. Search!Keeps(tag, s)
  <2>. SUFFICES ASSUME NEW k \in 1 .. n, NEW ends, ExtremesAfter(tag, k - 1, ends)
                PROVE  ExtremesAfter(tag, k, WiderAt(tag, ends, k))
    <3>. HIDE DEF s, n
    <3>. QED BY <1>2 DEF Search!Keeps
  <2>. DEFINE m == 2 * k
  <2>1. /\ k \in Nat /\ 2 * (k - 1) + 2 = m /\ m \in 1 .. Ways - 1 /\ m <= Ways
        /\ 2 * k + 1 = m + 1 /\ m \in Nat
    BY <1>1
  <2>. HIDE DEF m, n
  <2>2. Extremes(tag, m, ends)
    BY <2>1 DEF ExtremesAfter
  <2>3. IF m + 1 = Ways THEN Extremes(tag, m + 1, Wider(tag, ends, m + 1))
        ELSE Extremes(tag, m + 2, Wider(tag, ends, m + 1))
    BY <2>1, <2>2, WiderIsExtreme
  <2>4. IF m + 2 <= Ways THEN m + 1 # Ways ELSE m + 1 = Ways
    BY <1>1, <2>1
  <2>5. ExtremesAfter(tag, k, ends) <=> Extremes(tag, IF m + 2 <= Ways THEN m + 2 ELSE Ways, ends)
    BY DEF ExtremesAfter, m
  <2>6. WiderAt(tag, ends, k) = Wider(tag, ends, m + 1)
    BY <2>1 DEF WiderAt
  <2>. QED BY <2>3, <2>4, <2>6 DEF ExtremesAfter, m
<1>6. ExtremesAfter(tag, n, MinMax(tag))
  <2>. HIDE DEF base, s, n
  <2>. QED BY <1>2, <1>3, <1>4, <1>5, Search!FoldKeeps
<1>7. (IF 2 * n + 2 <= Ways THEN 2 * n + 2 ELSE Ways) = Ways
  <2>. HIDE DEF n
  <2>. QED BY <1>1
<1>. HIDE DEF n
<1>. QED BY <1>6, <1>7 DEF ExtremesAfter

\* The way that fill writes: the one that holds the tag, else an unused one, else the
\* one used longest ago.
FillWay(tag) == IF block[MinMax(tag)[2]].tag = tag THEN MinMax(tag)[2] ELSE MinMax(tag)[1]

LEMMA FillWayIsRight ==
    ASSUME TableTypeOK, NEW tag
    PROVE  /\ FillWay(tag) \in Way
           /\ \A w \in Way : Holds(tag, w) => Holds(tag, FillWay(tag))
           /\ (\A w \in Way : ~Holds(tag, w)) =>
                /\ \A w \in Way : ~Valid(w) => ~Valid(FillWay(tag))
                /\ (\A w \in Way : Valid(w)) =>
                        \A w \in Way : block[FillWay(tag)].lastUsed <= block[w].lastUsed
<1>. DEFINE e == MinMax(tag)
<1>1. Extremes(tag, Ways, e) /\ Way = 1 .. Ways
  BY MinMaxIsExtreme DEF Way
<1>. HIDE DEF e
<1>2. FillWay(tag) = IF block[e[2]].tag = tag THEN e[2] ELSE e[1]
  BY DEF FillWay, e
<1>. QED BY <1>1, <1>2 DEF Extremes, Holds
-----------------------------------------------------------------------------
\* Some way holds a tag before a way holds another: what the order says.
LEMMA InRecency ==
    ASSUME NEW t, NEW u
    PROVE  <<t, u>> \in Recency <=>
                \E v, w \in Way : /\ Holds(t, v) /\ Holds(u, w)
                                  /\ block[v].lastUsed >= block[w].lastUsed
<1>. DEFINE used == {w \in Way : Valid(w)}
            pairs == {q \in used \X used : block[q[1]].lastUsed >= block[q[2]].lastUsed}
<1>1. Recency = {<<block[p[1]].tag, block[p[2]].tag>> : p \in pairs}
  BY DEF Recency
<1>2. ASSUME <<t, u>> \in Recency
      PROVE  \E v, w \in Way : /\ Holds(t, v) /\ Holds(u, w)
                               /\ block[v].lastUsed >= block[w].lastUsed
  <2>1. PICK p \in pairs : <<t, u>> = <<block[p[1]].tag, block[p[2]].tag>>
    <3>. HIDE DEF pairs
    <3>. QED BY <1>1, <1>2
  <2>2. /\ p[1] \in Way /\ p[2] \in Way /\ Valid(p[1]) /\ Valid(p[2])
        /\ block[p[1]].lastUsed >= block[p[2]].lastUsed
    OBVIOUS
  <2>3. t = block[p[1]].tag /\ u = block[p[2]].tag
    BY <2>1
  <2>. QED BY <2>2, <2>3 DEF Holds
<1>3. ASSUME NEW v \in Way, NEW w \in Way, Holds(t, v), Holds(u, w),
             block[v].lastUsed >= block[w].lastUsed
      PROVE  <<t, u>> \in Recency
  <2>. DEFINE p == <<v, w>>
  <2>1. p \in pairs /\ p[1] = v /\ p[2] = w
    BY <1>3 DEF Holds
  <2>2. <<t, u>> = <<block[p[1]].tag, block[p[2]].tag>>
    BY <1>3, <2>1 DEF Holds
  <2>. HIDE DEF p, pairs
  <2>. QED BY <1>1, <2>1, <2>2
<1>. QED BY <1>2, <1>3

RecencyIsRight ==
    \A t, u : <<t, u>> \in Recency <=>
        \E v, w \in Way : /\ Holds(t, v) /\ Holds(u, w)
                          /\ block[v].lastUsed >= block[w].lastUsed

LEMMA RecencyHolds == RecencyIsRight
BY InRecency DEF RecencyIsRight

LEMMA RecencyIsPairs ==
    TableTypeOK => \A p \in Recency : p = <<p[1], p[2]>> /\ p[1] \in Tags /\ p[2] \in Tags
<1>. SUFFICES ASSUME TableTypeOK, NEW p \in Recency
              PROVE  p = <<p[1], p[2]>> /\ p[1] \in Tags /\ p[2] \in Tags
  OBVIOUS
<1>. DEFINE used == {w \in Way : Valid(w)}
            pairs == {q \in used \X used : block[q[1]].lastUsed >= block[q[2]].lastUsed}
<1>1. PICK q \in pairs : p = <<block[q[1]].tag, block[q[2]].tag>>
  BY DEF Recency
<1>2. q[1] \in Way /\ q[2] \in Way
  OBVIOUS
<1>. HIDE DEF pairs
<1>3. block[q[1]].tag \in Tags /\ block[q[2]].tag \in Tags
  BY <1>2 DEF TableTypeOK
<1>. QED BY <1>1, <1>3

\* A tag is remembered when a way holds it, and only one does.
LEMMA HeldTags ==
    ASSUME TableIInv
    PROVE  /\ \A t \in Tags : t \in Set!Held <=> \E w \in Way : Holds(t, w)
           /\ \A t \in Tags : \A v, w \in Way : Holds(t, v) /\ Holds(t, w) => v = w
           /\ \A w \in Way : Valid(w) => block[w].tag \in Set!Held /\ Holds(block[w].tag, w)
           /\ Set!Held \subseteq Tags
<1>1. \A t \in Tags : \A v, w \in Way : Holds(t, v) /\ Holds(t, w) => v = w
  BY DEF TableIInv, OneWayPerTag, Matches, Holds
<1>2. \A t \in Tags : t \in Set!Held <=> \E w \in Way : Holds(t, w)
  <2>1. \A w \in Way : block[w].lastUsed >= block[w].lastUsed
    BY DEF TableIInv, TableTypeOK
  <2>. SUFFICES ASSUME NEW t \in Tags PROVE <<t, t>> \in Recency <=> \E w \in Way : Holds(t, w)
    BY DEF Set!Held
  <2>. QED BY <2>1, InRecency
<1>3. \A w \in Way : block[w].tag \in Tags
  BY DEF TableIInv, TableTypeOK
<1>. QED BY <1>1, <1>2, <1>3 DEF Holds, Set!Held

LEMMA SameCardinality == ASSUME NEW S PROVE Set!Cardinality(S) = Cardinality(S)
BY DEF Cardinality, Set!Cardinality

\* The set is full when all ways are used.
LEMMA FullSet ==
    ASSUME TableIInv
    PROVE  (\A w \in Way : Valid(w)) <=> ~(Set!Cardinality(Set!Held) < Ways)
<1>. DEFINE used == {w \in Way : Valid(w)}
            f == [w \in used |-> block[w].tag]
<1>1. IsFiniteSet(Way) /\ Cardinality(Way) = Ways /\ Ways \in Nat
  BY TableAssumption, FS_Interval DEF Way
<1>2. /\ used \in SUBSET Way /\ IsFiniteSet(used) /\ Cardinality(used) <= Ways
      /\ Cardinality(used) = Ways => used = Way
  <2>1. used \in SUBSET Way
    OBVIOUS
  <2>. HIDE DEF used
  <2>. QED BY <1>1, <2>1, FS_Subset
<1>3. f \in Surjection(used, Set!Held)
  <2>1. f \in [used -> Set!Held]
    BY HeldTags
  <2>2. \A t \in Set!Held : \E w \in used : f[w] = t
    BY HeldTags DEF Holds
  <2>. QED BY <2>1, <2>2 DEF Surjection
<1>4. f \in Injection(used, Set!Held)
  <2>1. f \in [used -> Set!Held]
    BY HeldTags
  <2>2. \A v, w \in used : f[v] = f[w] => v = w
    BY HeldTags DEF Holds
  <2>. QED BY <2>1, <2>2 DEF Injection, IsInjective
<1>5. Cardinality(Set!Held) = Cardinality(used) /\ Cardinality(used) \in Nat
  <2>. HIDE DEF f, used
  <2>. QED BY <1>2, <1>3, <1>4, FS_Surjection, FS_CardinalityType
<1>6. (\A w \in Way : Valid(w)) <=> used = Way
  OBVIOUS
<1>. HIDE DEF used
<1>. QED BY <1>1, <1>2, <1>5, <1>6, SameCardinality

-----------------------------------------------------------------------------
\* A way is used for a tag: the one that held it, else an unused one or the oldest.
RightWay(w, tag) ==
    /\ w \in Way
    /\ \A v \in Way : Holds(tag, v) => v = w
    /\ (\A v \in Way : ~Holds(tag, v)) =>
        /\ \A v \in Way : ~Valid(v) => ~Valid(w)
        /\ (\A v \in Way : Valid(v)) =>
                \A v \in Way : block[w].lastUsed <= block[v].lastUsed

UsedFor(w, tag) ==
    /\ accessCount' = accessCount + 1
    /\ block' = [block EXCEPT ![w] = [lastUsed |-> accessCount + 1, tag |-> tag]]

\* The order of the ways other than w
OthersThan(w) ==
    {p \in Tags \X Tags :
        \E u, v \in Way \ {w} : /\ Holds(p[1], u) /\ Holds(p[2], v)
                                /\ block[u].lastUsed >= block[v].lastUsed}

LEMMA UsedForIInv ==
    ASSUME TableIInv, NEW tag \in Tags, NEW w, RightWay(w, tag), UsedFor(w, tag)
    PROVE  TableIInv'
<1>1. /\ block \in [Way -> [lastUsed : Nat, tag : Tags]] /\ accessCount \in Nat /\ w \in Way
      /\ block' \in [Way -> [lastUsed : Nat, tag : Tags]] /\ accessCount' \in Nat
      /\ block'[w] = [lastUsed |-> accessCount + 1, tag |-> tag]
      /\ \A v \in Way : v # w => block'[v] = block[v]
      /\ accessCount' = accessCount + 1
  BY DEF TableIInv, TableTypeOK, UsedFor, RightWay
<1>2. TableTypeOK'
  BY <1>1 DEF TableTypeOK
<1>3. StampsDiffer'
  <2>1. \A v \in Way : block[v].lastUsed <= accessCount /\ block[v].lastUsed \in Nat
    BY <1>1 DEF TableIInv, StampsDiffer
  <2>2. \A v \in Way : block'[v].lastUsed <= accessCount'
    BY <1>1, <2>1
  <2>3. ASSUME NEW u \in Way, NEW v \in Way, Valid(u)', block'[u].lastUsed = block'[v].lastUsed
        PROVE  u = v
    BY <1>1, <2>1, <2>3 DEF TableIInv, StampsDiffer, Valid
  <2>. QED BY <2>2, <2>3 DEF StampsDiffer
<1>4. OneWayPerTag'
  <2>. SUFFICES ASSUME NEW t \in Tags, NEW u \in Way, NEW v \in Way,
                       Valid(u)', Valid(v)', block'[u].tag = t, block'[v].tag = t
                PROVE  u = v
    BY DEF OneWayPerTag, Matches
  <2>1. \A x \in Way : x # w => (Valid(x)' <=> Valid(x))
    BY <1>1 DEF Valid
  <2>2. \A x \in Way : Holds(tag, x) => x = w
    BY DEF RightWay
  <2>. QED BY <1>1, <2>1, <2>2, HeldTags DEF Holds
<1>. QED BY <1>2, <1>3, <1>4 DEF TableIInv

LEMMA RestIsOthers ==
    ASSUME TableIInv, NEW tag \in Tags, NEW w, RightWay(w, tag)
    PROVE  (IF tag \in Set!Held \/ Set!Cardinality(Set!Held) < Ways THEN Set!Without(tag)
            ELSE Set!Without(Set!Oldest)) = OthersThan(w)
<1>0. TableTypeOK /\ w \in Way
  BY DEF TableIInv, RightWay
<1>1. \A t, u : <<t, u>> \in OthersThan(w) <=>
            /\ t \in Tags /\ u \in Tags
            /\ \E x, y \in Way \ {w} : /\ Holds(t, x) /\ Holds(u, y)
                                       /\ block[x].lastUsed >= block[y].lastUsed
  BY DEF OthersThan
<1>2. \A p \in OthersThan(w) : p = <<p[1], p[2]>>
  BY DEF OthersThan
<1>3. ASSUME NEW t \in Tags, \A v \in Way \ {w} : ~Holds(t, v),
             Valid(w) => Holds(t, w)
      PROVE  Set!Without(t) = OthersThan(w)
  <2>1. ASSUME NEW p \in Set!Without(t) PROVE p \in OthersThan(w)
    <3>1. p \in Recency /\ p[1] # t /\ p[2] # t
      BY DEF Set!Without
    <3>2. p = <<p[1], p[2]>> /\ p[1] \in Tags /\ p[2] \in Tags
      BY <1>0, <3>1, RecencyIsPairs
    <3>3. PICK x \in Way, y \in Way : /\ Holds(p[1], x) /\ Holds(p[2], y)
                                      /\ block[x].lastUsed >= block[y].lastUsed
      BY <3>1, <3>2, InRecency
    <3>4. x # w /\ y # w
      BY <1>3, <3>1, <3>3 DEF Holds
    <3>. QED BY <1>1, <3>2, <3>3, <3>4
  <2>2. ASSUME NEW p \in OthersThan(w) PROVE p \in Set!Without(t)
    <3>1. p = <<p[1], p[2]>>
      BY <1>2
    <3>2. PICK x \in Way \ {w}, y \in Way \ {w} :
                /\ Holds(p[1], x) /\ Holds(p[2], y)
                /\ block[x].lastUsed >= block[y].lastUsed
      BY <1>1, <3>1
    <3>3. p \in Recency
      BY <3>1, <3>2, InRecency
    <3>4. p[1] # t /\ p[2] # t
      BY <1>3, <3>2
    <3>. QED BY <3>3, <3>4 DEF Set!Without
  <2>. QED BY <2>1, <2>2
<1>4. CASE \E v \in Way : Holds(tag, v)
  <2>1. Holds(tag, w) /\ tag \in Set!Held /\ \A v \in Way \ {w} : ~Holds(tag, v)
    BY <1>4, HeldTags DEF RightWay
  <2>. QED BY <1>3, <2>1
<1>5. CASE ~(\E v \in Way : Holds(tag, v)) /\ ~(\A v \in Way : Valid(v))
  <2>1. tag \notin Set!Held /\ Set!Cardinality(Set!Held) < Ways /\ ~Valid(w)
    BY <1>5, HeldTags, FullSet DEF RightWay
  <2>2. Set!Without(tag) = OthersThan(w)
    BY <1>3, <1>5, <2>1
  <2>. QED BY <2>1, <2>2
<1>6. CASE ~(\E v \in Way : Holds(tag, v)) /\ (\A v \in Way : Valid(v))
  <2>. DEFINE t == block[w].tag
  <2>1. tag \notin Set!Held /\ ~(Set!Cardinality(Set!Held) < Ways)
    BY <1>6, HeldTags, FullSet
  <2>2. t \in Set!Held /\ t \in Tags /\ Holds(t, w)
    BY <1>0, <1>6, HeldTags
  <2>3. \A v \in Way : block[w].lastUsed <= block[v].lastUsed
    BY <1>6 DEF RightWay
  <2>4. \A v \in Way : block[v].lastUsed \in Nat
    BY <1>0 DEF TableTypeOK
  <2>5. ASSUME NEW u \in Set!Held PROVE <<u, t>> \in Recency
    <3>1. PICK v \in Way : Holds(u, v)
      BY HeldTags
    <3>2. block[v].lastUsed >= block[w].lastUsed
      BY <1>0, <2>3, <2>4
    <3>. QED BY <1>0, <2>2, <3>1, <3>2, InRecency
  <2>6. ASSUME NEW o \in Set!Held, <<t, o>> \in Recency PROVE o = t
    <3>1. PICK x \in Way, y \in Way : /\ Holds(t, x) /\ Holds(o, y)
                                      /\ block[x].lastUsed >= block[y].lastUsed
      BY <2>6, InRecency
    <3>2. x = w
      BY <1>0, <2>2, <3>1, HeldTags
    <3>3. block[w].lastUsed = block[y].lastUsed
      BY <1>0, <2>3, <2>4, <3>1, <3>2
    <3>4. w = y
      BY <1>0, <1>6, <3>3 DEF TableIInv, StampsDiffer
    <3>. QED BY <3>1, <3>4 DEF Holds
  <2>7. Set!Oldest = t
    <3>. HIDE DEF t
    <3>. QED BY <2>2, <2>5, <2>6 DEF Set!Oldest
  <2>8. \A v \in Way \ {w} : ~Holds(t, v)
    BY <1>0, <2>2, HeldTags
  <2>9. Set!Without(t) = OthersThan(w)
    <3>. HIDE DEF t
    <3>. QED BY <1>3, <2>2, <2>8
  <2>. QED BY <2>1, <2>7, <2>9
<1>. QED BY <1>4, <1>5, <1>6

LEMMA UsedForRefines ==
    ASSUME TableIInv, NEW tag \in Tags, NEW w, RightWay(w, tag), UsedFor(w, tag)
    PROVE  Recency' = Set!Used(tag)
<1>. DEFINE R == OthersThan(w)
            front == {<<tag, t>> : t \in {tag} \cup {u \in Tags : <<u, u>> \in R}}
<1>1. Set!Used(tag) = R \cup front
  <2>1. (IF tag \in Set!Held \/ Set!Cardinality(Set!Held) < Ways THEN Set!Without(tag)
         ELSE Set!Without(Set!Oldest)) = R
    BY RestIsOthers
  <2>. HIDE DEF R
  <2>. QED BY Zenon, <2>1 DEF Set!Used
<1>2. /\ w \in Way /\ block \in [Way -> [lastUsed : Nat, tag : Tags]] /\ accessCount \in Nat
      /\ block'[w] = [lastUsed |-> accessCount + 1, tag |-> tag]
      /\ \A v \in Way : v # w => block'[v] = block[v]
      /\ \A v \in Way : block[v].lastUsed <= accessCount
  BY DEF TableIInv, TableTypeOK, StampsDiffer, UsedFor, RightWay
<1>3. /\ \A v \in Way \ {w} : \A t : Holds(t, v)' <=> Holds(t, v)
      /\ \A t : Holds(t, w)' <=> t = tag
      /\ \A v \in Way \ {w} : /\ block'[v].lastUsed = block[v].lastUsed
                              /\ block'[v].lastUsed < block'[w].lastUsed
      /\ block'[w].lastUsed \in Nat
  BY <1>2 DEF Holds, Valid
<1>4. \A t, u : <<t, u>> \in Recency' <=>
            \E x, y \in Way : /\ Holds(t, x)' /\ Holds(u, y)'
                              /\ block'[x].lastUsed >= block'[y].lastUsed
  <2>1. RecencyIsRight'
    BY RecencyHolds, PTL
  <2>. QED BY <2>1 DEF RecencyIsRight
<1>5. \A p \in R \cup front : p = <<p[1], p[2]>>
  <2>1. \A p \in R : p = <<p[1], p[2]>>
    BY DEF OthersThan
  <2>2. \A p \in front : \E t : p = <<tag, t>>
    BY Zenon
  <2>. HIDE DEF R, front
  <2>. QED BY <2>1, <2>2
<1>6. \A p \in Recency' : p = <<p[1], p[2]>>
  <2>1. TableTypeOK'
    BY UsedForIInv DEF TableIInv
  <2>2. (TableTypeOK => \A p \in Recency : p = <<p[1], p[2]>> /\ p[1] \in Tags /\ p[2] \in Tags)'
    BY RecencyIsPairs, PTL
  <2>. QED BY <2>1, <2>2
<1>7. \A t, u : <<t, u>> \in Recency' <=> <<t, u>> \in R \cup front
  <2>. SUFFICES ASSUME NEW t, NEW u PROVE <<t, u>> \in Recency' <=> <<t, u>> \in R \cup front
    OBVIOUS
  <2>1. <<t, u>> \in R <=> /\ t \in Tags /\ u \in Tags
                           /\ \E x, y \in Way \ {w} :
                                 /\ Holds(t, x) /\ Holds(u, y)
                                 /\ block[x].lastUsed >= block[y].lastUsed
    BY DEF OthersThan
  <2>2. \A v \in Tags : <<v, v>> \in R <=> \E x \in Way \ {w} : Holds(v, x)
    <3>1. \A v \in Tags : \A x, y \in Way : Holds(v, x) /\ Holds(v, y) => x = y
      BY HeldTags
    <3>2. \A x \in Way : block[x].lastUsed >= block[x].lastUsed
      BY <1>2
    <3>. QED BY <3>1, <3>2 DEF OthersThan
  <2>3. <<t, u>> \in front <=> t = tag /\ (u = tag \/ (u \in Tags /\ <<u, u>> \in R))
    <3>. HIDE DEF R
    <3>. QED OBVIOUS
  <2>4. \A x \in Way \ {w} : \A v : Holds(v, x) => v \in Tags
    BY <1>2 DEF Holds
  <2>. HIDE DEF R, front
  <2>5. ASSUME <<t, u>> \in Recency' PROVE <<t, u>> \in R \cup front
    <3>1. PICK x \in Way, y \in Way : /\ Holds(t, x)' /\ Holds(u, y)'
                                      /\ block'[x].lastUsed >= block'[y].lastUsed
      BY <1>4, <2>5
    <3>2. CASE x = w
      BY <1>3, <2>2, <2>3, <2>4, <3>1, <3>2
    <3>3. CASE x # w
      <4>1. y # w
        BY <1>2, <1>3, <3>1, <3>3
      <4>. QED BY <1>3, <2>1, <2>4, <3>1, <3>3, <4>1
    <3>. QED BY <3>2, <3>3
  <2>6. ASSUME <<t, u>> \in R \cup front PROVE <<t, u>> \in Recency'
    <3>1. CASE <<t, u>> \in R
      BY <1>3, <1>4, <2>1, <3>1
    <3>2. CASE <<t, u>> \in front
      <4>1. Holds(t, w)' /\ block'[w].lastUsed >= block'[w].lastUsed
        BY <1>3, <2>3, <3>2
      <4>2. CASE u = tag
        BY <1>2, <1>3, <1>4, <4>1, <4>2
      <4>3. CASE u # tag
        <5>1. PICK x \in Way \ {w} : Holds(u, x)
          BY <2>2, <2>3, <3>2, <4>3
        <5>2. Holds(u, x)' /\ block'[w].lastUsed >= block'[x].lastUsed
          BY <1>2, <1>3, <5>1
        <5>. QED BY <1>2, <1>4, <4>1, <5>2
      <4>. QED BY <4>2, <4>3
    <3>. QED BY <2>6, <3>1, <3>2
  <2>. QED BY <2>5, <2>6
<1>. HIDE DEF R, front
<1>. QED BY <1>1, <1>5, <1>6, <1>7
-----------------------------------------------------------------------------
\* What the calls do, to the table and to the set it implements.
LEMMA HitWayIsRight ==
    ASSUME TableIInv, NEW tag \in Tags, Matches(tag) # {}
    PROVE  Holds(tag, HitWay(tag)) /\ RightWay(HitWay(tag), tag)
<1>1. PICK w \in Way : Holds(tag, w)
  BY DEF Matches, Holds
<1>2. \A v \in Matches(tag) : v = w
  BY <1>1, HeldTags DEF Matches, Holds
<1>3. w \in Matches(tag) /\ w \in Nat
  BY <1>1 DEF Matches, Holds, Way
<1>4. HitWay(tag) = w
  <2>1. \A v \in Matches(tag) : w <= v
    BY <1>2, <1>3
  <2>2. HitWay(tag) \in Matches(tag)
    <3>. HIDE DEF Matches
    <3>. QED BY <1>3, <2>1, Zenon DEF HitWay
  <2>. QED BY <1>2, <2>2
<1>. QED BY <1>1, <1>4, HeldTags DEF RightWay

LEMMA MatchesHeld ==
    ASSUME TableIInv, NEW tag \in Tags
    PROVE  (Matches(tag) # {}) = (tag \in Set!Held)
<1>1. Matches(tag) # {} <=> \E w \in Way : Holds(tag, w)
  BY DEF Matches, Holds
<1>. QED BY <1>1, HeldTags

LEMMA AnsweredIsCalled ==
    ASSUME TableIInv, NEW tag \in Tags, NEW call, Answered(call, tag)
    PROVE  Set!Called(call, tag)
BY MatchesHeld DEF Answered, Set!Called

LEMMA CheckHitStep ==
    ASSUME TableIInv, NEW tag \in Tags, CheckHit(tag)
    PROVE  TableIInv' /\ Set!Lookup(tag)
<1>1. Set!Called("check_hit", tag)
  BY AnsweredIsCalled DEF CheckHit
<1>2. CASE Matches(tag) = {}
  <2>1. UNCHANGED <<block, accessCount>>
    BY <1>2 DEF CheckHit
  <2>2. TableIInv'
    BY <2>1 DEF TableIInv, TableTypeOK, StampsDiffer, OneWayPerTag, Matches, Valid
  <2>3. Recency' = Recency
    BY <2>1 DEF Recency, Valid
  <2>. QED BY <1>1, <1>2, <2>2, <2>3, MatchesHeld DEF Set!Lookup
<1>3. CASE Matches(tag) # {}
  <2>. DEFINE w == HitWay(tag)
  <2>1. RightWay(w, tag) /\ Holds(tag, w) /\ w \in Way
    BY <1>3, HitWayIsRight DEF RightWay
  <2>2. /\ accessCount' = accessCount + 1
        /\ block' = [block EXCEPT ![w].lastUsed = accessCount + 1]
    BY <1>3 DEF CheckHit
  <2>. HIDE DEF w
  <2>3. UsedFor(w, tag)
    <3>1. block \in [Way -> [lastUsed : Nat, tag : Tags]]
      BY DEF TableIInv, TableTypeOK
    <3>2. [block[w] EXCEPT !.lastUsed = accessCount + 1]
            = [lastUsed |-> accessCount + 1, tag |-> tag]
      BY <2>1, <3>1 DEF Holds
    <3>. QED BY <2>2, <3>2 DEF UsedFor
  <2>4. TableIInv' /\ Recency' = Set!Used(tag)
    BY <2>1, <2>3, UsedForIInv, UsedForRefines
  <2>. QED BY <1>1, <1>3, <2>4, MatchesHeld DEF Set!Lookup
<1>. QED BY <1>2, <1>3

LEMMA FillStep ==
    ASSUME TableIInv, NEW tag \in Tags, Fill(tag)
    PROVE  TableIInv' /\ Set!Insert(tag)
<1>. DEFINE w == FillWay(tag)
<1>1. UsedFor(w, tag)
  BY DEF Fill, UsedFor, FillWay
<1>2. RightWay(w, tag)
  <2>1. TableTypeOK
    BY DEF TableIInv
  <2>2. \A v \in Way : Holds(tag, v) => v = w
    BY <2>1, FillWayIsRight, HeldTags
  <2>. QED BY <2>1, <2>2, FillWayIsRight DEF RightWay
<1>3. Set!Called("fill", tag)
  BY AnsweredIsCalled DEF Fill
<1>. HIDE DEF w
<1>. QED BY <1>1, <1>2, <1>3, UsedForIInv, UsedForRefines DEF Set!Insert

LEMMA InvalidateStep ==
    ASSUME TableIInv, NEW tag \in Tags, Invalidate(tag)
    PROVE  TableIInv' /\ Set!Drop(tag)
<1>1. Set!Called("invalidate", tag) /\ accessCount' = accessCount
  BY AnsweredIsCalled DEF Invalidate
<1>0. TableTypeOK /\ \A p \in Recency : p = <<p[1], p[2]>> /\ p[1] \in Tags /\ p[2] \in Tags
  BY RecencyIsPairs DEF TableIInv
<1>2. CASE Matches(tag) = {}
  <2>1. block' = block
    BY <1>2 DEF Invalidate
  <2>2. TableIInv'
    BY <1>1, <2>1 DEF TableIInv, TableTypeOK, StampsDiffer, OneWayPerTag, Matches, Valid
  <2>3. Recency' = Recency
    BY <2>1 DEF Recency, Valid
  <2>4. ASSUME NEW p \in Recency PROVE p[1] # tag /\ p[2] # tag
    <3>1. PICK v \in Way, w \in Way : Holds(p[1], v) /\ Holds(p[2], w)
      BY <1>0, InRecency
    <3>. QED BY <1>2, <3>1 DEF Matches, Holds
  <2>5. Set!Without(tag) = Recency
    BY <2>4 DEF Set!Without
  <2>. QED BY <1>1, <2>2, <2>3, <2>5 DEF Set!Drop
<1>3. CASE Matches(tag) # {}
  <2>0. PICK w \in Way : w = HitWay(tag)
    BY <1>3, HitWayIsRight DEF RightWay
  <2>1. RightWay(w, tag) /\ Holds(tag, w) /\ w \in Way
    BY <1>3, <2>0, HitWayIsRight
  <2>2. block' = [block EXCEPT ![w] = NoBlock]
    BY <1>3, <2>0 DEF Invalidate
  <2>3. /\ block \in [Way -> [lastUsed : Nat, tag : Tags]] /\ accessCount \in Nat
        /\ NoBlock \in [lastUsed : Nat, tag : Tags] /\ NoBlock.lastUsed = 0
    BY TableAssumption DEF TableIInv, TableTypeOK, NoBlock
  <2>4. /\ block' \in [Way -> [lastUsed : Nat, tag : Tags]]
        /\ block'[w] = NoBlock /\ \A v \in Way : v # w => block'[v] = block[v]
    BY <2>1, <2>2, <2>3
  <2>5. /\ ~Valid(w)' /\ \A t : ~Holds(t, w)'
        /\ \A v \in Way \ {w} : \A t : Holds(t, v)' <=> Holds(t, v)
        /\ \A v \in Way \ {w} : Valid(v)' <=> Valid(v)
    BY <2>3, <2>4 DEF Holds, Valid
  <2>6. TableTypeOK'
    BY <1>1, <2>3, <2>4 DEF TableTypeOK
  <2>7. StampsDiffer'
    <3>1. \A v \in Way : block'[v].lastUsed <= accessCount'
      BY <1>1, <2>1, <2>3, <2>4 DEF TableIInv, StampsDiffer
    <3>2. ASSUME NEW u \in Way, NEW v \in Way, Valid(u)',
                 block'[u].lastUsed = block'[v].lastUsed
          PROVE  u = v
      <4>1. u # w /\ v # w
        BY <2>1, <2>3, <2>4, <2>5, <3>2 DEF Valid
      <4>. QED BY <2>4, <2>5, <3>2, <4>1 DEF TableIInv, StampsDiffer
    <3>. QED BY <3>1, <3>2 DEF StampsDiffer
  <2>8. OneWayPerTag'
    <3>. SUFFICES ASSUME NEW t \in Tags, NEW u \in Way, NEW v \in Way,
                         Valid(u)', Valid(v)', block'[u].tag = t, block'[v].tag = t
                  PROVE  u = v
      BY DEF OneWayPerTag, Matches
    <3>1. u # w /\ v # w
      BY <2>5
    <3>. QED BY <2>4, <2>5, <3>1, HeldTags DEF Holds
  <2>9. \A t, u : <<t, u>> \in Recency' <=> <<t, u>> \in Set!Without(tag)
    <3>. SUFFICES ASSUME NEW t, NEW u
                  PROVE  <<t, u>> \in Recency' <=> <<t, u>> \in Set!Without(tag)
      OBVIOUS
    <3>1. <<t, u>> \in Set!Without(tag) <=> <<t, u>> \in Recency /\ t # tag /\ u # tag
      BY DEF Set!Without
    <3>2. RecencyIsRight'
      BY RecencyHolds, PTL
    <3>3. \A v \in Way : Holds(tag, v) => v = w
      BY <2>1 DEF RightWay
    <3>4. ASSUME <<t, u>> \in Recency' PROVE <<t, u>> \in Recency /\ t # tag /\ u # tag
      <4>1. PICK x \in Way, y \in Way : /\ Holds(t, x)' /\ Holds(u, y)'
                                        /\ block'[x].lastUsed >= block'[y].lastUsed
        BY <3>2, <3>4 DEF RecencyIsRight
      <4>2. /\ x # w /\ y # w /\ Holds(t, x) /\ Holds(u, y)
            /\ block[x].lastUsed >= block[y].lastUsed
        BY <2>4, <2>5, <4>1
      <4>. QED BY <3>3, <4>2, InRecency
    <3>5. ASSUME <<t, u>> \in Recency, t # tag, u # tag PROVE <<t, u>> \in Recency'
      <4>1. PICK x \in Way, y \in Way : /\ Holds(t, x) /\ Holds(u, y)
                                        /\ block[x].lastUsed >= block[y].lastUsed
        BY <3>5, InRecency
      <4>2. x # w /\ y # w
        BY <2>1, <3>5, <4>1 DEF Holds
      <4>. QED BY <2>4, <2>5, <3>2, <4>1, <4>2 DEF RecencyIsRight
    <3>. QED BY <3>1, <3>4, <3>5
  <2>10. \A p \in Recency' : p = <<p[1], p[2]>>
    <3>1. (TableTypeOK => \A p \in Recency : p = <<p[1], p[2]>> /\ p[1] \in Tags /\ p[2] \in Tags)'
      BY RecencyIsPairs, PTL
    <3>. QED BY <2>6, <3>1
  <2>11. \A p \in Set!Without(tag) : p = <<p[1], p[2]>>
    BY <1>0 DEF Set!Without
  <2>12. Recency' = Set!Without(tag)
    BY <2>9, <2>10, <2>11
  <2>. QED BY <1>1, <2>6, <2>7, <2>8, <2>12 DEF TableIInv, Set!Drop
<1>. QED BY <1>2, <1>3

LEMMA InitTable == TableInit => TableIInv /\ Set!SetInit
<1>. SUFFICES ASSUME TableInit PROVE TableIInv /\ Set!SetInit
  OBVIOUS
<1>1. /\ block \in [Way -> [lastUsed : Nat, tag : Tags]] /\ accessCount = 0
      /\ \A w \in Way : block[w].lastUsed = 0
  BY TableAssumption DEF TableInit, NoBlock
<1>2. \A w \in Way : ~Valid(w)
  BY <1>1 DEF Valid
<1>3. TableIInv
  BY <1>1, <1>2 DEF TableIInv, TableTypeOK, StampsDiffer, OneWayPerTag, Matches
<1>4. Recency = {}
  <2>1. \A t, u : <<t, u>> \notin Recency
    BY <1>2, InRecency DEF Holds
  <2>2. \A p \in Recency : p = <<p[1], p[2]>>
    BY <1>3, RecencyIsPairs DEF TableIInv
  <2>. QED BY <2>1, <2>2
<1>. QED BY <1>3, <1>4 DEF TableInit, Set!SetInit

LEMMA NextTable ==
    TableIInv /\ [TableNext]_tableVars => TableIInv' /\ [Set!SetNext]_Set!setVars
<1>. SUFFICES ASSUME TableIInv, [TableNext]_tableVars
              PROVE  TableIInv' /\ [Set!SetNext]_Set!setVars
  OBVIOUS
<1>1. CASE UNCHANGED tableVars
  <2>1. TableIInv'
    BY <1>1 DEF tableVars, TableIInv, TableTypeOK, StampsDiffer, OneWayPerTag, Matches, Valid
  <2>2. UNCHANGED Set!setVars
    BY <1>1 DEF tableVars, Set!setVars, Recency, Valid
  <2>. QED BY <2>1, <2>2
<1>2. ASSUME NEW tag \in Tags, CheckHit(tag) \/ Fill(tag) \/ Invalidate(tag)
      PROVE  TableIInv' /\ [Set!SetNext]_Set!setVars
  BY <1>2, CheckHitStep, FillStep, InvalidateStep DEF Set!SetNext
<1>. QED BY <1>1, <1>2 DEF TableNext

\* Whatever is looked up, filled and invalidated in whatever order, a set of the table
\* holds each tag once, finds exactly the tags used last, as many as it has ways, and
\* replaces the one used longest ago: the comparison of match_and_check, though it is
\* not an order (an unused way is less than itself), lets minmax_element find both the
\* way that holds the tag and the one to replace (fill).
THEOREM TableIsLeastRecentlyUsed == TableSpec => TableIsLru
<1>1. TableSpec => []TableIInv
  BY InitTable, NextTable, PTL DEF TableSpec
<1>2. TableIInv => OneWayPerTag
  BY DEF TableIInv
<1>3. TableSpec => ImplementsLru
  BY <1>1, InitTable, NextTable, PTL DEF TableSpec, ImplementsLru, Set!SetSpec
<1>. QED BY <1>1, <1>2, <1>3, PTL DEF TableIsLru
-----------------------------------------------------------------------------
\* The channel.
Requests(n) ==
    [addr : Nat, vaddr : 1 .. n, type : Types, translated : Translations,
     reply : BOOLEAN, waiters : SUBSET (1 .. n), checked : BOOLEAN]

Responses(n) == [addr : Nat, vaddr : 1 .. n, waiters : SUBSET (1 .. n)]

Names(s, i) == \E k \in 1 .. Len(s) : i \in s[k].waiters

NamedOnce(s) ==
    \A j, k \in 1 .. Len(s) : \A i \in s[j].waiters \cap s[k].waiters : j = k

AskedFor(q) == \A k \in 1 .. Len(q) : q[k].waiters # {} => q[k].reply

OneKind == \A s, t \in Translations : s = t

BlocksApart(q) ==
    \A i, j \in 1 .. Len(q) :
        i < j /\ q[i].checked /\ q[j].checked => ~Overlaps(q[i], q[j], ReadUnit)

NoneOlder(q, wq) ==
    \A i \in 1 .. Len(q), j \in 1 .. Len(wq) :
        q[i].checked /\ wq[j].vaddr < q[i].vaddr => ~Overlaps(wq[j], q[i], WriteUnit)

\* Who a channel will answer.
Waited(c, i) == Names(c.RQ, i) \/ Names(c.PQ, i) \/ Names(c.returned, i)

SoundChannel(n, c) ==
    /\ c \in [RQ : Seq(Requests(n)), WQ : Seq(Requests(n)), PQ : Seq(Requests(n)),
              returned : Seq(Responses(n))]
    /\ AskedFor(c.RQ) /\ AskedFor(c.PQ)
    /\ \A k \in 1 .. Len(c.WQ) : c.WQ[k].waiters = {}
    /\ NamedOnce(c.RQ) /\ NamedOnce(c.PQ) /\ NamedOnce(c.returned)
    /\ \A i : /\ ~(Names(c.RQ, i) /\ Names(c.PQ, i))
              /\ ~(Names(c.RQ, i) /\ Names(c.returned, i))
              /\ ~(Names(c.PQ, i) /\ Names(c.returned, i))
    /\ OneKind => /\ BlocksApart(c.RQ) /\ BlocksApart(c.PQ)
                  /\ NoneOlder(c.RQ, c.WQ) /\ NoneOlder(c.PQ, c.WQ)

UseIInv ==
    /\ asked \in Seq([addr : Addrs, translated : Translations])
    /\ SoundChannel(Len(asked), chan)
    /\ \A i : i \in waiting <=> Waited(chan, i)
    /\ overtook \in BOOLEAN /\ (OneKind => ~overtook)

-----------------------------------------------------------------------------
LEMMA LeastOfSet ==
    ASSUME NEW S \in SUBSET Nat, S # {}
    PROVE  Min(S) \in S /\ \A y \in S : Min(S) <= y
<1>1. PICK m \in S : \A y \in S : ~(<<y, m>> \in OpToRel(<, Nat))
  BY WFMin, NatLessThanWellFounded
<1>2. ASSUME NEW y \in S PROVE y \in Nat /\ m \in Nat /\ m <= y
  <2>1. y \in Nat /\ m \in Nat
    OBVIOUS
  <2>2. ~(y < m)
    BY <1>1, <2>1 DEF OpToRel
  <2>. QED BY <2>1, <2>2
<1>3. \E x \in S : \A y \in S : x =< y
  BY <1>2
<1>. QED BY <1>3, Zenon DEF Min

\* do_collision_for: the first request that overlaps.
LEMMA FirstOverlapFound ==
    ASSUME NEW q, Len(q) \in Nat, NEW r, NEW unit
    PROVE  /\ FirstOverlap(q, r, unit) \in 0 .. Len(q)
           /\ FirstOverlap(q, r, unit) # 0 => Overlaps(q[FirstOverlap(q, r, unit)], r, unit)
           /\ FirstOverlap(q, r, unit) = 0 => \A j \in 1 .. Len(q) : ~Overlaps(q[j], r, unit)
<1>. DEFINE S == {i \in 1 .. Len(q) : Overlaps(q[i], r, unit)}
<1>1. FirstOverlap(q, r, unit) = IF S # {} THEN Min(S) ELSE 0
  BY DEF FirstOverlap, SelectInSeq
<1>2. CASE S = {}
  BY <1>1, <1>2
<1>3. CASE S # {}
  <2>0. S \in SUBSET Nat
    OBVIOUS
  <2>. HIDE DEF S
  <2>1. Min(S) \in S
    BY <1>3, <2>0, LeastOfSet
  <2>. USE DEF S
  <2>. QED BY <1>1, <1>3, <2>1
<1>. QED BY <1>2, <1>3

\* find_if_not of forward_checked: what lies before it is checked.
LEMMA FirstUncheckedFound ==
    ASSUME NEW q, Len(q) \in Nat
    PROVE  /\ FirstUnchecked(q) \in 1 .. Len(q) + 1
           /\ \A j \in 1 .. FirstUnchecked(q) - 1 : q[j].checked
<1>. DEFINE S == {i \in 1 .. Len(q) : ~q[i].checked}
<1>1. FirstUnchecked(q) = IF S # {} /\ Min(S) # 0 THEN Min(S) ELSE Len(q) + 1
  BY DEF FirstUnchecked, SelectInSeq
<1>2. CASE S = {}
  <2>1. FirstUnchecked(q) = Len(q) + 1
    BY <1>1, <1>2
  <2>2. \A j \in 1 .. Len(q) : q[j].checked
    BY <1>2
  <2>. QED BY <2>1, <2>2
<1>3. CASE S # {}
  <2>0. S \in SUBSET Nat
    OBVIOUS
  <2>. HIDE DEF S
  <2>1. Min(S) \in S /\ \A y \in S : Min(S) <= y
    BY <1>3, <2>0, LeastOfSet
  <2>. USE DEF S
  <2>2. FirstUnchecked(q) = Min(S) /\ Min(S) \in 1 .. Len(q)
    BY <1>1, <1>3, <2>1
  <2>3. ASSUME NEW j \in 1 .. Min(S) - 1 PROVE q[j].checked
    <3>1. j \in 1 .. Len(q) /\ ~(Min(S) <= j)
      BY <2>2
    <3>2. j \notin S
      BY <2>1, <3>1
    <3>. QED BY <3>1, <3>2
  <2>. HIDE DEF S
  <2>. QED BY <2>2, <2>3
<1>. QED BY <1>2, <1>3

-----------------------------------------------------------------------------
\* What merging one request into a queue does: it loses no waiter, names none twice, and
\* leaves the requests that were there where they were.
SameAccess(x, y) ==
    x.addr = y.addr /\ x.vaddr = y.vaddr /\ x.translated = y.translated

LEMMA AbsorbedIs ==
    ASSUME NEW n \in Nat, NEW q \in Seq(Requests(n)), NEW r \in Requests(n), NEW unit
    PROVE  LET i == FirstOverlap(q, r, unit)
               p == Absorbed(q, r, unit)
           IN  /\ p \in Seq(Requests(n))
               /\ Collides(q, r, unit) =>
                    /\ i \in 1 .. Len(q) /\ Len(p) = Len(q)
                    /\ \A j \in 1 .. Len(q) : j # i => p[j] = q[j]
                    /\ SameAccess(p[i], q[i]) /\ p[i].checked = q[i].checked
                    /\ p[i].reply = (q[i].reply \/ r.reply)
                    /\ p[i].waiters = q[i].waiters \cup r.waiters
               /\ ~Collides(q, r, unit) =>
                    /\ Len(p) = Len(q) + 1
                    /\ \A j \in 1 .. Len(q) : p[j] = q[j]
                    /\ SameAccess(p[Len(p)], r) /\ p[Len(p)].checked
                    /\ p[Len(p)].reply = r.reply /\ p[Len(p)].waiters = r.waiters
<1>. DEFINE i == FirstOverlap(q, r, unit)
            p == Absorbed(q, r, unit)
<1>1. Len(q) \in Nat /\ \A j \in 1 .. Len(q) : q[j] \in Requests(n)
  BY ElementOfSeq, LenProperties
<1>2. CASE Collides(q, r, unit)
  <2>1. i \in 1 .. Len(q)
    BY <1>1, <1>2, FirstOverlapFound DEF Collides
  <2>2. p = [q EXCEPT ![i].reply = @ \/ r.reply, ![i].waiters = @ \cup r.waiters]
    BY <1>2 DEF Absorbed, Merged
  <2>. DEFINE x == [[q[i] EXCEPT !.reply = @ \/ r.reply] EXCEPT !.waiters = @ \cup r.waiters]
  <2>. HIDE DEF i
  <2>3. p = [q EXCEPT ![i] = x]
    <3>. DEFINE y == [q[i] EXCEPT !.reply = @ \/ r.reply]
                g == [q EXCEPT ![i].reply = @ \/ r.reply]
    <3>1. i \in DOMAIN q
      BY <2>1, LenProperties
    <3>2. g = [q EXCEPT ![i] = y] /\ g[i] = y
      BY <3>1
    <3>3. p = [g EXCEPT ![i].waiters = @ \cup r.waiters]
      BY <2>2
    <3>4. p = [g EXCEPT ![i] = [y EXCEPT !.waiters = @ \cup r.waiters]]
      <4>. HIDE DEF g, y, p
      <4>. QED BY <3>2, <3>3
    <3>5. x = [y EXCEPT !.waiters = @ \cup r.waiters]
      OBVIOUS
    <3>. HIDE DEF x, y, g, p
    <3>. QED BY <3>1, <3>2, <3>4, <3>5
  <2>4. q[i] \in Requests(n)
    BY <1>1, <2>1
  <2>5. /\ x \in Requests(n) /\ SameAccess(x, q[i]) /\ x.checked = q[i].checked
        /\ x.reply = (q[i].reply \/ r.reply) /\ x.waiters = q[i].waiters \cup r.waiters
    BY <2>4 DEF Requests, SameAccess
  <2>. HIDE DEF x, p
  <2>6. /\ p \in Seq(Requests(n)) /\ Len(p) = Len(q) /\ p[i] = x
        /\ \A j \in 1 .. Len(q) : j # i => p[j] = q[j]
    BY <1>1, <2>1, <2>3, <2>5, ExceptSeq, LenProperties
  <2>. QED BY <1>2, <2>1, <2>5, <2>6 DEF i, p
<1>3. CASE ~Collides(q, r, unit)
  <2>. DEFINE x == [r EXCEPT !.checked = TRUE]
  <2>1. p = Append(q, x)
    BY <1>3 DEF Absorbed
  <2>2. /\ x \in Requests(n) /\ SameAccess(x, r) /\ x.checked
        /\ x.reply = r.reply /\ x.waiters = r.waiters
    BY DEF Requests, SameAccess
  <2>. HIDE DEF x, p
  <2>3. /\ p \in Seq(Requests(n)) /\ Len(p) = Len(q) + 1 /\ p[Len(q) + 1] = x
        /\ \A j \in 1 .. Len(q) : p[j] = q[j]
    BY <1>1, <2>1, <2>2, AppendProperties
  <2>. QED BY <1>3, <2>2, <2>3 DEF p
<1>. QED BY <1>2, <1>3

LEMMA AbsorbedPlaces ==
    ASSUME NEW n \in Nat, NEW q \in Seq(Requests(n)), NEW r \in Requests(n), NEW unit,
           NamedOnce(q), AskedFor(q), r.waiters # {} => r.reply,
           \A i \in r.waiters : ~Names(q, i)
    PROVE  /\ NamedOnce(Absorbed(q, r, unit)) /\ AskedFor(Absorbed(q, r, unit))
           /\ \A i : Names(Absorbed(q, r, unit), i) <=> Names(q, i) \/ i \in r.waiters
<1>. DEFINE c == FirstOverlap(q, r, unit)
            p == Absorbed(q, r, unit)
<1>1. Len(q) \in Nat
  BY LenProperties
<1>2. CASE Collides(q, r, unit)
  <2>1. /\ c \in 1 .. Len(q) /\ Len(p) = Len(q)
        /\ \A j \in 1 .. Len(q) : j # c => p[j] = q[j]
        /\ p[c].reply = (q[c].reply \/ r.reply)
        /\ p[c].waiters = q[c].waiters \cup r.waiters
    BY <1>2, AbsorbedIs
  <2>. HIDE DEF c, p
  <2>2. NamedOnce(p)
    BY <2>1 DEF NamedOnce, Names
  <2>3. AskedFor(p)
    BY <2>1 DEF AskedFor
  <2>4. \A i : Names(p, i) <=> Names(q, i) \/ i \in r.waiters
    BY <2>1 DEF Names
  <2>. QED BY <2>2, <2>3, <2>4 DEF p
<1>3. CASE ~Collides(q, r, unit)
  <2>1. /\ Len(p) = Len(q) + 1 /\ \A j \in 1 .. Len(q) : p[j] = q[j]
        /\ p[Len(p)].reply = r.reply /\ p[Len(p)].waiters = r.waiters
    BY <1>3, AbsorbedIs
  <2>. HIDE DEF p
  <2>5. \A j \in 1 .. Len(p) : j \in 1 .. Len(q) \/ j = Len(p)
    BY <1>1, <2>1
  <2>6. Len(p) \in 1 .. Len(p) /\ \A j \in 1 .. Len(q) : j \in 1 .. Len(p)
    BY <1>1, <2>1
  <2>2. NamedOnce(p)
    BY <2>1, <2>5 DEF NamedOnce, Names
  <2>3. AskedFor(p)
    BY <2>1, <2>5 DEF AskedFor
  <2>4. \A i : Names(p, i) <=> Names(q, i) \/ i \in r.waiters
    BY <2>1, <2>5, <2>6 DEF Names
  <2>. QED BY <2>2, <2>3, <2>4 DEF p
<1>. QED BY <1>2, <1>3

\* Where the requests are of one kind, one that does not collide overlaps none.
LEMMA CollidesAll ==
    ASSUME NEW n \in Nat, NEW q \in Seq(Requests(n)), NEW r \in Requests(n), NEW unit,
           OneKind, ~Collides(q, r, unit)
    PROVE  \A j \in 1 .. Len(q) : ~Overlaps(q[j], r, unit)
<1>. DEFINE c == FirstOverlap(q, r, unit)
<1>0. Len(q) \in Nat /\ \A j \in 1 .. Len(q) : q[j] \in Requests(n)
  BY ElementOfSeq, LenProperties
<1>1. Len(q) \in Nat /\ \A j \in 1 .. Len(q) : q[j].translated = r.translated
  <2>1. r.translated \in Translations /\ \A j \in 1 .. Len(q) : q[j].translated \in Translations
    BY <1>0 DEF Requests
  <2>. QED BY <1>0, <2>1 DEF OneKind
<1>2. c = 0
  BY <1>1, FirstOverlapFound DEF Collides
<1>. QED BY <1>1, <1>2, FirstOverlapFound

AllChecked(q) == \A j \in 1 .. Len(q) : q[j].checked

LEMMA AbsorbedOrder ==
    ASSUME NEW n \in Nat, NEW q \in Seq(Requests(n)), NEW r \in Requests(n),
           AllChecked(q)
    PROVE  /\ AllChecked(Absorbed(q, r, ReadUnit))
           /\ OneKind /\ BlocksApart(q) => BlocksApart(Absorbed(q, r, ReadUnit))
           /\ \A wq : NoneOlder(q, wq) /\ (\A j \in 1 .. Len(wq) : ~Overlaps(wq[j], r, WriteUnit))
                        => NoneOlder(Absorbed(q, r, ReadUnit), wq)
<1>. DEFINE c == FirstOverlap(q, r, ReadUnit)
            p == Absorbed(q, r, ReadUnit)
<1>1. Len(q) \in Nat
  BY LenProperties
<1>2. CASE Collides(q, r, ReadUnit)
  <2>1. /\ Len(p) = Len(q)
        /\ \A j \in 1 .. Len(q) : SameAccess(p[j], q[j]) /\ p[j].checked = q[j].checked
    <3>1. /\ Len(p) = Len(q) /\ \A j \in 1 .. Len(q) : j # c => p[j] = q[j]
          /\ SameAccess(p[c], q[c]) /\ p[c].checked = q[c].checked
      BY <1>2, AbsorbedIs
    <3>. HIDE DEF c, p
    <3>. QED BY <3>1 DEF SameAccess
  <2>. HIDE DEF p
  <2>2. AllChecked(p)
    BY <2>1 DEF AllChecked
  <2>3. BlocksApart(q) => BlocksApart(p)
    BY <2>1 DEF BlocksApart, Overlaps, SameAccess
  <2>4. \A wq : NoneOlder(q, wq) => NoneOlder(p, wq)
    BY <2>1 DEF NoneOlder, Overlaps, SameAccess
  <2>. QED BY <2>2, <2>3, <2>4 DEF p
<1>3. CASE ~Collides(q, r, ReadUnit)
  <2>1. /\ Len(p) = Len(q) + 1 /\ \A j \in 1 .. Len(q) : p[j] = q[j]
        /\ SameAccess(p[Len(q) + 1], r) /\ p[Len(q) + 1].checked
    BY <1>3, AbsorbedIs
  <2>. HIDE DEF p
  <2>2. \A j \in 1 .. Len(p) : j \in 1 .. Len(q) \/ j = Len(q) + 1
    BY <1>1, <2>1
  <2>3. AllChecked(p)
    BY <2>1, <2>2 DEF AllChecked
  <2>4. OneKind /\ BlocksApart(q) => BlocksApart(p)
    <3>. SUFFICES ASSUME OneKind, BlocksApart(q),
                         NEW i \in 1 .. Len(p), NEW j \in 1 .. Len(p), i < j
                  PROVE  ~Overlaps(p[i], p[j], ReadUnit)
      BY DEF BlocksApart
    <3>1. i \in 1 .. Len(q) /\ p[i] = q[i] /\ q[i].checked
      BY <1>1, <2>1, <2>2 DEF AllChecked
    <3>2. CASE j \in 1 .. Len(q)
      BY <2>1, <3>1, <3>2 DEF BlocksApart, AllChecked
    <3>3. CASE j = Len(q) + 1
      <4>1. ~Overlaps(q[i], r, ReadUnit)
        BY <1>3, <3>1, CollidesAll
      <4>. QED BY <2>1, <3>1, <3>3, <4>1 DEF Overlaps, SameAccess
    <3>. QED BY <2>2, <3>2, <3>3
  <2>5. ASSUME NEW wq, NoneOlder(q, wq), \A j \in 1 .. Len(wq) : ~Overlaps(wq[j], r, WriteUnit)
        PROVE  NoneOlder(p, wq)
    <3>. SUFFICES ASSUME NEW i \in 1 .. Len(p), NEW j \in 1 .. Len(wq), p[i].checked,
                         wq[j].vaddr < p[i].vaddr
                  PROVE  ~Overlaps(wq[j], p[i], WriteUnit)
      BY DEF NoneOlder
    <3>1. CASE i \in 1 .. Len(q)
      BY <2>1, <2>5, <3>1 DEF NoneOlder
    <3>2. CASE i = Len(q) + 1
      BY <2>1, <2>5, <3>2 DEF Overlaps, SameAccess
    <3>. QED BY <2>2, <3>1, <3>2
  <2>. QED BY <2>3, <2>4, <2>5 DEF p
<1>. QED BY <1>2, <1>3
-----------------------------------------------------------------------------
\* The writes: merged among themselves.
WqStep(par, q, r) == Absorbed(q, r, WriteUnit)

WqInv(par, k, q) ==
    /\ q \in Seq(Requests(par.n))
    /\ \A j \in 1 .. Len(q) :
          /\ q[j].waiters = {}
          /\ \E i \in 1 .. Len(par.wq) : SameAccess(q[j], par.wq[i])

WqLoop == INSTANCE FoldInduction WITH Op <- WqStep, Inv <- WqInv

WqChecked(q) ==
    FoldLeft(LAMBDA p, r : Absorbed(p, r, WriteUnit), CheckedPart(q), UncheckedPart(q))

\* The requests of a queue from the first one that is not checked.
LEMMA PartsOf ==
    ASSUME NEW S, NEW q \in Seq(S)
    PROVE  LET f == FirstUnchecked(q)
           IN  /\ Len(q) \in Nat /\ f \in 1 .. Len(q) + 1
               /\ CheckedPart(q) \in Seq(S) /\ Len(CheckedPart(q)) = f - 1
               /\ \A j \in 1 .. f - 1 : CheckedPart(q)[j] = q[j] /\ q[j].checked
               /\ UncheckedPart(q) \in Seq(S) /\ Len(UncheckedPart(q)) = Len(q) + 1 - f
               /\ \A k \in 1 .. Len(q) + 1 - f :
                    f + k - 1 \in 1 .. Len(q) /\ UncheckedPart(q)[k] = q[f + k - 1]
<1>. DEFINE f == FirstUnchecked(q)
<1>1. Len(q) \in Nat
  BY LenProperties
<1>2. f \in 1 .. Len(q) + 1 /\ \A j \in 1 .. f - 1 : q[j].checked
  BY <1>1, FirstUncheckedFound
<1>3. CheckedPart(q) = SubSeq(q, 1, f - 1) /\ UncheckedPart(q) = SubSeq(q, f, Len(q))
  BY DEF CheckedPart, UncheckedPart
<1>. HIDE DEF f
<1>4. \A k \in 1 .. f - 1 : 1 + k - 1 = k
  BY <1>1, <1>2
<1>5. /\ SubSeq(q, 1, f - 1) \in Seq(S) /\ Len(SubSeq(q, 1, f - 1)) = f - 1
      /\ \A k \in 1 .. f - 1 : SubSeq(q, 1, f - 1)[k] = q[k]
  BY <1>1, <1>2
<1>6. /\ SubSeq(q, f, Len(q)) \in Seq(S) /\ Len(SubSeq(q, f, Len(q))) = Len(q) + 1 - f
      /\ \A k \in 1 .. Len(q) + 1 - f : SubSeq(q, f, Len(q))[k] = q[f + k - 1]
  BY <1>1, <1>2
<1>7. \A k \in 1 .. Len(q) + 1 - f : f + k - 1 \in 1 .. Len(q)
  BY <1>1, <1>2
<1>. QED BY <1>1, <1>2, <1>3, <1>5, <1>6, <1>7 DEF f

LEMMA WqCheckedIs ==
    ASSUME NEW n \in Nat, NEW q \in Seq(Requests(n)),
           \A j \in 1 .. Len(q) : q[j].waiters = {}
    PROVE  /\ WqChecked(q) \in Seq(Requests(n))
           /\ \A j \in 1 .. Len(WqChecked(q)) :
                /\ WqChecked(q)[j].waiters = {}
                /\ \E i \in 1 .. Len(q) : SameAccess(WqChecked(q)[j], q[i])
<1>. DEFINE par == [n |-> n, wq |-> q]
            base == CheckedPart(q)
            s == UncheckedPart(q)
            f == FirstUnchecked(q)
<1>1. WqChecked(q) = WqLoop!Fold(par, base, s)
  BY DEF WqChecked, WqLoop!Fold, WqStep, FoldLeft, WqLoop!FoldLeft, MapThenFoldSet,
         WqLoop!MapThenFoldSet, Max, WqLoop!Max
<1>2. /\ Len(q) \in Nat /\ f \in 1 .. Len(q) + 1
      /\ base \in Seq(Requests(n)) /\ Len(base) = f - 1
      /\ \A j \in 1 .. f - 1 : base[j] = q[j]
      /\ s \in Seq(Requests(n)) /\ Len(s) = Len(q) + 1 - f
      /\ \A k \in 1 .. Len(q) + 1 - f : f + k - 1 \in 1 .. Len(q) /\ s[k] = q[f + k - 1]
  BY PartsOf
<1>3. par.n = n /\ par.wq = q
  OBVIOUS
<1>. HIDE DEF par, base, s, f
<1>4. WqInv(par, 0, base)
  <2>1. ASSUME NEW j \in 1 .. Len(base)
        PROVE  base[j].waiters = {} /\ \E i \in 1 .. Len(q) : SameAccess(base[j], q[i])
    <3>1. j \in 1 .. Len(q) /\ base[j] = q[j]
      BY <1>2
    <3>. QED BY <3>1 DEF SameAccess
  <2>. QED BY <1>2, <1>3, <2>1 DEF WqInv
<1>5. WqLoop!Keeps(par, s)
  <2>. SUFFICES ASSUME NEW k \in 1 .. Len(s), NEW p, WqInv(par, k - 1, p)
                PROVE  WqInv(par, k, WqStep(par, p, s[k]))
    BY DEF WqLoop!Keeps
  <2>. DEFINE r == s[k]
              o == Absorbed(p, r, WriteUnit)
  <2>1. /\ p \in Seq(Requests(n)) /\ Len(p) \in Nat
        /\ \A j \in 1 .. Len(p) : /\ p[j].waiters = {}
                                  /\ \E i \in 1 .. Len(q) : SameAccess(p[j], q[i])
    BY <1>3, LenProperties DEF WqInv
  <2>2. /\ r \in Requests(n) /\ r.waiters = {} /\ \E i \in 1 .. Len(q) : SameAccess(r, q[i])
    <3>1. r = q[f + k - 1] /\ f + k - 1 \in 1 .. Len(q)
      BY <1>2
    <3>. HIDE DEF r
    <3>. QED BY <3>1, ElementOfSeq DEF SameAccess
  <2>. HIDE DEF r
  <2>3. o \in Seq(Requests(n))
    BY <2>1, <2>2, AbsorbedIs
  <2>4. ASSUME NEW j \in 1 .. Len(o)
        PROVE  o[j].waiters = {} /\ \E i \in 1 .. Len(q) : SameAccess(o[j], q[i])
    <3>1. CASE Collides(p, r, WriteUnit)
      <4>. DEFINE c == FirstOverlap(p, r, WriteUnit)
      <4>1. /\ c \in 1 .. Len(p) /\ Len(o) = Len(p)
            /\ \A m \in 1 .. Len(p) : m # c => o[m] = p[m]
            /\ SameAccess(o[c], p[c]) /\ o[c].waiters = p[c].waiters \cup r.waiters
        <5>1. p \in Seq(Requests(n)) /\ r \in Requests(n)
          BY <2>1, <2>2
        <5>. QED BY ONLY <3>1, <5>1, n \in Nat, AbsorbedIs
      <4>. HIDE DEF c, o
      <4>2. j \in 1 .. Len(p) /\ SameAccess(o[j], p[j]) /\ o[j].waiters = {}
        BY <2>1, <2>2, <4>1 DEF SameAccess
      <4>. QED BY <2>1, <4>2 DEF SameAccess
    <3>2. CASE ~Collides(p, r, WriteUnit)
      <4>1. /\ Len(o) = Len(p) + 1 /\ \A m \in 1 .. Len(p) : o[m] = p[m]
            /\ SameAccess(o[Len(o)], r) /\ o[Len(o)].waiters = r.waiters
        <5>1. p \in Seq(Requests(n)) /\ r \in Requests(n)
          BY <2>1, <2>2
        <5>. QED BY ONLY <3>2, <5>1, n \in Nat, AbsorbedIs
      <4>. HIDE DEF o
      <4>2. j \in 1 .. Len(p) \/ j = Len(o)
        BY <2>1, <4>1
      <4>3. CASE j \in 1 .. Len(p)
        BY <2>1, <4>1, <4>3
      <4>4. CASE j = Len(o)
        BY <2>2, <4>1, <4>4 DEF SameAccess
      <4>. QED BY <4>2, <4>3, <4>4
    <3>. QED BY <3>1, <3>2
  <2>5. WqStep(par, p, s[k]) = o
    BY DEF WqStep, r
  <2>. HIDE DEF o
  <2>. QED BY <1>3, <2>3, <2>4, <2>5 DEF WqInv
<1>6. WqInv(par, Len(s), WqLoop!Fold(par, base, s))
  BY <1>2, <1>4, <1>5, WqLoop!FoldKeeps
<1>. QED BY <1>1, <1>3, <1>6 DEF WqInv
-----------------------------------------------------------------------------
\* The reads and the prefetches: answered from the writes, or merged.
ForwardStep(par, s, r) == Forwarded(par.wq, s, r)

\* After k requests from the first one that was not checked: who was named in the queue
\* or by a response still is, once, there or by a request that is still to be checked.
ForwardInv(par, k, s) ==
    LET rest == FirstUnchecked(par.q) + k .. Len(par.q)
    IN  /\ s.queue \in Seq(Requests(par.n)) /\ s.returned \in Seq(Responses(par.n))
        /\ s = [queue |-> s.queue, returned |-> s.returned]
        /\ AllChecked(s.queue) /\ AskedFor(s.queue)
        /\ NamedOnce(s.queue) /\ NamedOnce(s.returned)
        /\ \A i : ~(Names(s.queue, i) /\ Names(s.returned, i))
        /\ \A j \in rest : \A i \in par.q[j].waiters :
                ~Names(s.queue, i) /\ ~Names(s.returned, i)
        /\ \A i : Names(par.q, i) \/ Names(par.returned, i) <=>
                \/ Names(s.queue, i) \/ Names(s.returned, i)
                \/ \E j \in rest : i \in par.q[j].waiters
        /\ OneKind => BlocksApart(s.queue) /\ NoneOlder(s.queue, par.wq)

ForwardLoop == INSTANCE FoldInduction WITH Op <- ForwardStep, Inv <- ForwardInv

\* A queue as it may be found, with the writes and responses of its channel.
FoundQueue(n, wq, q, returned) ==
    /\ n \in Nat
    /\ wq \in Seq(Requests(n)) /\ q \in Seq(Requests(n)) /\ returned \in Seq(Responses(n))
    /\ AskedFor(q) /\ NamedOnce(q) /\ NamedOnce(returned)
    /\ \A i : ~(Names(q, i) /\ Names(returned, i))
    /\ OneKind => BlocksApart(q) /\ NoneOlder(q, wq)

LEMMA AppendedResponse ==
    ASSUME NEW n \in Nat, NEW ret \in Seq(Responses(n)), NEW r \in Requests(n),
           NamedOnce(ret), \A i \in r.waiters : ~Names(ret, i)
    PROVE  /\ Append(ret, Response(r)) \in Seq(Responses(n))
           /\ NamedOnce(Append(ret, Response(r)))
           /\ \A i : Names(Append(ret, Response(r)), i) <=> Names(ret, i) \/ i \in r.waiters
<1>. DEFINE a == Response(r)
            p == Append(ret, a)
<1>1. a \in Responses(n) /\ a.waiters = r.waiters
  BY DEF Response, Responses, Requests
<1>. HIDE DEF a
<1>2. /\ Len(ret) \in Nat /\ p \in Seq(Responses(n)) /\ Len(p) = Len(ret) + 1
      /\ p[Len(p)] = a /\ \A j \in 1 .. Len(ret) : p[j] = ret[j]
  BY <1>1, AppendProperties, LenProperties
<1>. HIDE DEF p
<1>3. \A j \in 1 .. Len(p) : j \in 1 .. Len(ret) \/ j = Len(p)
  BY <1>2
<1>4. Len(p) \in 1 .. Len(p) /\ \A j \in 1 .. Len(ret) : j \in 1 .. Len(p)
  BY <1>2
<1>5. NamedOnce(p)
  BY <1>1, <1>2, <1>3 DEF NamedOnce, Names
<1>6. \A i : Names(p, i) <=> Names(ret, i) \/ i \in r.waiters
  BY <1>1, <1>2, <1>3, <1>4 DEF Names
<1>. QED BY <1>2, <1>5, <1>6 DEF p, a

LEMMA ForwardBase ==
    ASSUME NEW n, NEW wq, NEW q, NEW returned, FoundQueue(n, wq, q, returned)
    PROVE  ForwardInv([n |-> n, wq |-> wq, q |-> q, returned |-> returned], 0,
                      [queue |-> CheckedPart(q), returned |-> returned])
<1>. DEFINE f == FirstUnchecked(q)
            b == CheckedPart(q)
<1>1. /\ Len(q) \in Nat /\ f \in 1 .. Len(q) + 1
      /\ b \in Seq(Requests(n)) /\ Len(b) = f - 1
      /\ \A j \in 1 .. f - 1 : b[j] = q[j] /\ q[j].checked
  BY PartsOf DEF FoundQueue
<1>. HIDE DEF f, b
<1>2. /\ \A j \in 1 .. Len(b) : j \in 1 .. Len(q) /\ b[j] = q[j] /\ q[j].checked /\ j < f
      /\ \A j \in 1 .. Len(q) : j \in 1 .. Len(b) \/ j \in f + 0 .. Len(q)
      /\ \A j \in f + 0 .. Len(q) : j \in 1 .. Len(q) /\ ~(j < f)
  BY <1>1
<1>3. AllChecked(b) /\ AskedFor(b) /\ NamedOnce(b)
  BY <1>2 DEF AllChecked, AskedFor, NamedOnce, FoundQueue
<1>4. \A i : Names(b, i) => Names(q, i)
  BY <1>2 DEF Names
<1>5. \A i : Names(q, i) <=> Names(b, i) \/ \E j \in f + 0 .. Len(q) : i \in q[j].waiters
  BY <1>2 DEF Names
<1>6. \A j \in f + 0 .. Len(q) : \A i \in q[j].waiters : ~Names(b, i) /\ ~Names(returned, i)
  BY <1>2 DEF Names, NamedOnce, FoundQueue
<1>7. OneKind => BlocksApart(b) /\ NoneOlder(b, wq)
  BY <1>2 DEF BlocksApart, NoneOlder, FoundQueue
<1>. QED BY <1>1, <1>3, <1>4, <1>5, <1>6, <1>7 DEF ForwardInv, FoundQueue, f, b

LEMMA ForwardKeeps ==
    ASSUME NEW n, NEW wq, NEW q, NEW returned, FoundQueue(n, wq, q, returned),
           NEW k \in 1 .. Len(UncheckedPart(q)), NEW s,
           ForwardInv([n |-> n, wq |-> wq, q |-> q, returned |-> returned], k - 1, s)
    PROVE  ForwardInv([n |-> n, wq |-> wq, q |-> q, returned |-> returned], k,
                      Forwarded(wq, s, UncheckedPart(q)[k]))
<1>. DEFINE f    == FirstUnchecked(q)
            r    == UncheckedPart(q)[k]
            p    == s.queue
            ret  == s.returned
            left == f + (k - 1) .. Len(q)
            rest == f + k .. Len(q)
<1>1. /\ Len(q) \in Nat /\ f \in 1 .. Len(q) + 1
      /\ Len(UncheckedPart(q)) = Len(q) + 1 - f
      /\ f + k - 1 \in 1 .. Len(q) /\ r = q[f + k - 1]
  BY PartsOf DEF FoundQueue
<1>2. n \in Nat /\ r \in Requests(n) /\ (r.waiters # {} => r.reply)
  BY <1>1, ElementOfSeq DEF FoundQueue, AskedFor
<1>3. /\ p \in Seq(Requests(n)) /\ ret \in Seq(Responses(n))
      /\ s = [queue |-> p, returned |-> ret]
      /\ AllChecked(p) /\ AskedFor(p) /\ NamedOnce(p) /\ NamedOnce(ret)
      /\ \A i : ~(Names(p, i) /\ Names(ret, i))
      /\ \A j \in left : \A i \in q[j].waiters : ~Names(p, i) /\ ~Names(ret, i)
      /\ \A i : Names(q, i) \/ Names(returned, i) <=>
                \/ Names(p, i) \/ Names(ret, i)
                \/ \E j \in left : i \in q[j].waiters
      /\ OneKind => BlocksApart(p) /\ NoneOlder(p, wq)
  BY DEF ForwardInv
<1>4. /\ f + (k - 1) \in left /\ f + k - 1 = f + (k - 1)
      /\ \A j \in left : j = f + (k - 1) \/ j \in rest
      /\ \A j \in rest : j \in left /\ j \in 1 .. Len(q) /\ j # f + (k - 1)
  BY <1>1
<1>5. /\ \A i \in r.waiters : ~Names(p, i) /\ ~Names(ret, i)
      /\ \A j \in rest : \A i \in q[j].waiters : i \notin r.waiters /\ ~Names(p, i) /\ ~Names(ret, i)
      /\ \A i : (\E j \in left : i \in q[j].waiters) <=>
                    i \in r.waiters \/ \E j \in rest : i \in q[j].waiters
  <2>1. \A j, m \in 1 .. Len(q) : \A i \in q[j].waiters \cap q[m].waiters : j = m
    BY DEF FoundQueue, NamedOnce
  <2>. HIDE DEF r, p, ret, left, rest, f
  <2>. QED BY <1>1, <1>3, <1>4, <2>1
<1>. DEFINE o == Forwarded(wq, s, r)
<1>6. \A x : ForwardInv([n |-> n, wq |-> wq, q |-> q, returned |-> returned], k, x) <=>
        /\ x.queue \in Seq(Requests(n)) /\ x.returned \in Seq(Responses(n))
        /\ x = [queue |-> x.queue, returned |-> x.returned]
        /\ AllChecked(x.queue) /\ AskedFor(x.queue)
        /\ NamedOnce(x.queue) /\ NamedOnce(x.returned)
        /\ \A i : ~(Names(x.queue, i) /\ Names(x.returned, i))
        /\ \A j \in rest : \A i \in q[j].waiters : ~Names(x.queue, i) /\ ~Names(x.returned, i)
        /\ \A i : Names(q, i) \/ Names(returned, i) <=>
                \/ Names(x.queue, i) \/ Names(x.returned, i)
                \/ \E j \in rest : i \in q[j].waiters
        /\ OneKind => BlocksApart(x.queue) /\ NoneOlder(x.queue, wq)
  BY DEF ForwardInv
<1>. HIDE DEF r, p, ret, left, rest, f
<1>7. CASE Collides(wq, r, WriteUnit)
  <2>. DEFINE t == IF r.reply THEN Append(ret, Response(r)) ELSE ret
  <2>1. o = [queue |-> p, returned |-> t]
    <3>1. o = [s EXCEPT !.returned = IF r.reply THEN Append(@, Response(r)) ELSE @]
      BY <1>7 DEF Forwarded
    <3>. QED BY <1>3, <3>1
  <2>2. /\ t \in Seq(Responses(n)) /\ NamedOnce(t)
        /\ \A i : Names(t, i) <=> Names(ret, i) \/ i \in r.waiters
    <3>1. CASE r.reply
      BY <1>2, <1>3, <1>5, <3>1, AppendedResponse
    <3>2. CASE ~r.reply
      BY <1>2, <1>3, <3>2
    <3>. QED BY <3>1, <3>2
  <2>. HIDE DEF t, o
  <2>3. o.queue = p /\ o.returned = t
    BY <2>1
  <2>4. \A i : ~(Names(p, i) /\ Names(t, i))
    BY <1>3, <1>5, <2>2
  <2>5. \A j \in rest : \A i \in q[j].waiters : ~Names(p, i) /\ ~Names(t, i)
    BY <1>5, <2>2
  <2>6. \A i : Names(q, i) \/ Names(returned, i) <=>
                Names(p, i) \/ Names(t, i) \/ \E j \in rest : i \in q[j].waiters
    BY <1>3, <1>5, <2>2
  <2>. QED BY <1>3, <1>6, <2>1, <2>2, <2>3, <2>4, <2>5, <2>6 DEF o, r
<1>8. CASE ~Collides(wq, r, WriteUnit)
  <2>. DEFINE t == Absorbed(p, r, ReadUnit)
  <2>1. o = [queue |-> t, returned |-> ret]
    <3>1. o = [s EXCEPT !.queue = Absorbed(@, r, ReadUnit)]
      BY <1>8 DEF Forwarded
    <3>. QED BY <1>3, <3>1
  <2>2. /\ NamedOnce(t) /\ AskedFor(t)
        /\ \A i : Names(t, i) <=> Names(p, i) \/ i \in r.waiters
    BY <1>2, <1>3, <1>5, AbsorbedPlaces
  <2>3. t \in Seq(Requests(n))
    BY <1>2, <1>3, AbsorbedIs
  <2>4. AllChecked(t) /\ (OneKind => BlocksApart(t) /\ NoneOlder(t, wq))
    <3>1. OneKind => \A j \in 1 .. Len(wq) : ~Overlaps(wq[j], r, WriteUnit)
      BY <1>2, <1>8, CollidesAll DEF FoundQueue
    <3>. QED BY <1>2, <1>3, <3>1, AbsorbedOrder
  <2>. HIDE DEF t, o
  <2>5. o.queue = t /\ o.returned = ret
    BY <2>1
  <2>6. \A i : ~(Names(t, i) /\ Names(ret, i))
    BY <1>3, <1>5, <2>2
  <2>7. \A j \in rest : \A i \in q[j].waiters : ~Names(t, i) /\ ~Names(ret, i)
    BY <1>5, <2>2
  <2>8. \A i : Names(q, i) \/ Names(returned, i) <=>
                Names(t, i) \/ Names(ret, i) \/ \E j \in rest : i \in q[j].waiters
    BY <1>3, <1>5, <2>2
  <2>. QED BY <1>3, <1>6, <2>1, <2>2, <2>3, <2>4, <2>5, <2>6, <2>7, <2>8 DEF o, r
<1>. QED BY <1>7, <1>8

\* check_collision for one of the two queues.
LEMMA CheckedIs ==
    ASSUME NEW n, NEW c, NEW q, FoundQueue(n, c.WQ, q, c.returned)
    PROVE  LET s == Checked(c, q)
           IN  /\ s.queue \in Seq(Requests(n)) /\ s.returned \in Seq(Responses(n))
               /\ AllChecked(s.queue) /\ AskedFor(s.queue)
               /\ NamedOnce(s.queue) /\ NamedOnce(s.returned)
               /\ \A i : ~(Names(s.queue, i) /\ Names(s.returned, i))
               /\ \A i : Names(q, i) \/ Names(c.returned, i) <=>
                            Names(s.queue, i) \/ Names(s.returned, i)
               /\ OneKind => BlocksApart(s.queue) /\ NoneOlder(s.queue, c.WQ)
<1>. DEFINE par == [n |-> n, wq |-> c.WQ, q |-> q, returned |-> c.returned]
            base == [queue |-> CheckedPart(q), returned |-> c.returned]
            e == UncheckedPart(q)
            s == Checked(c, q)
<1>1. s = ForwardLoop!Fold(par, base, e)
  BY DEF Checked, ForwardLoop!Fold, ForwardStep, FoldLeft, ForwardLoop!FoldLeft,
         MapThenFoldSet, ForwardLoop!MapThenFoldSet, Max, ForwardLoop!Max
<1>2. ForwardInv(par, 0, base)
  BY ForwardBase
<1>3. ForwardLoop!Keeps(par, e)
  BY ForwardKeeps DEF ForwardLoop!Keeps, ForwardStep
<1>4. /\ e \in Seq(Requests(n)) /\ Len(e) = Len(q) + 1 - FirstUnchecked(q)
      /\ FirstUnchecked(q) \in Nat /\ Len(q) \in Nat
  <2>1. q \in Seq(Requests(n))
    BY DEF FoundQueue
  <2>2. /\ e \in Seq(Requests(n)) /\ Len(e) = Len(q) + 1 - FirstUnchecked(q)
        /\ FirstUnchecked(q) \in 1 .. Len(q) + 1 /\ Len(q) \in Nat
    BY <2>1, PartsOf
  <2>. QED BY <2>2
<1>. HIDE DEF par, base, e, s
<1>5. ForwardInv(par, Len(e), s)
  BY <1>1, <1>2, <1>3, <1>4, ForwardLoop!FoldKeeps
<1>6. FirstUnchecked(q) + Len(e) .. Len(q) = {}
  BY <1>4
<1>. QED BY <1>5, <1>6 DEF ForwardInv, par, s
-----------------------------------------------------------------------------
\* The responses to what the cache took.
ReplyStep(par, p, t) == IF t.reply THEN Append(p, Response(t)) ELSE p

ReplyInv(par, k, p) ==
    /\ p \in Seq(Responses(par.n)) /\ NamedOnce(p)
    /\ \A i : Names(p, i) <=> \/ Names(par.returned, i)
                              \/ \E j \in 1 .. k : i \in par.taken[j].waiters

ReplyLoop == INSTANCE FoldInduction WITH Op <- ReplyStep, Inv <- ReplyInv

LEMMA RepliedIs ==
    ASSUME NEW n \in Nat, NEW returned \in Seq(Responses(n)), NEW taken \in Seq(Requests(n)),
           NamedOnce(returned), NamedOnce(taken), AskedFor(taken),
           \A i : ~(Names(returned, i) /\ Names(taken, i))
    PROVE  LET p == Replied(returned, taken)
           IN  /\ p \in Seq(Responses(n)) /\ NamedOnce(p)
               /\ \A i : Names(p, i) <=> Names(returned, i) \/ Names(taken, i)
<1>. DEFINE par == [n |-> n, returned |-> returned, taken |-> taken]
            p == Replied(returned, taken)
<1>1. p = ReplyLoop!Fold(par, returned, taken)
  BY DEF Replied, ReplyLoop!Fold, ReplyStep, FoldLeft, ReplyLoop!FoldLeft,
         MapThenFoldSet, ReplyLoop!MapThenFoldSet, Max, ReplyLoop!Max
<1>2. Len(taken) \in Nat /\ \A j \in 1 .. Len(taken) : taken[j] \in Requests(n)
  BY ElementOfSeq, LenProperties
<1>3. par.n = n /\ par.returned = returned /\ par.taken = taken
  OBVIOUS
<1>. HIDE DEF par, p
<1>4. ReplyInv(par, 0, returned)
  BY <1>3 DEF ReplyInv
<1>5. ReplyLoop!Keeps(par, taken)
  <2>. SUFFICES ASSUME NEW k \in 1 .. Len(taken), NEW x, ReplyInv(par, k - 1, x)
                PROVE  ReplyInv(par, k, ReplyStep(par, x, taken[k]))
    BY DEF ReplyLoop!Keeps
  <2>. DEFINE t == taken[k]
              y == ReplyStep(par, x, t)
  <2>1. /\ x \in Seq(Responses(n)) /\ NamedOnce(x)
        /\ \A i : Names(x, i) <=> \/ Names(returned, i)
                                  \/ \E j \in 1 .. k - 1 : i \in taken[j].waiters
    BY <1>3 DEF ReplyInv
  <2>2. t \in Requests(n) /\ (t.waiters # {} => t.reply)
    BY <1>2 DEF AskedFor
  <2>3. \A i \in t.waiters : ~Names(x, i)
    <3>1. \A j \in 1 .. k - 1 : \A i \in t.waiters : i \notin taken[j].waiters
      <4>1. \A j \in 1 .. k - 1 : j \in 1 .. Len(taken) /\ j # k
        BY <1>2
      <4>. QED BY <4>1 DEF NamedOnce
    <3>2. \A i \in t.waiters : ~Names(returned, i)
      BY DEF Names
    <3>. QED BY <2>1, <3>1, <3>2
  <2>. HIDE DEF t
  <2>4. /\ y \in Seq(Responses(n)) /\ NamedOnce(y)
        /\ \A i : Names(y, i) <=> Names(x, i) \/ i \in t.waiters
    <3>1. CASE t.reply
      <4>1. y = Append(x, Response(t))
        BY <3>1 DEF ReplyStep
      <4>. HIDE DEF y
      <4>. QED BY <2>1, <2>2, <2>3, <4>1, AppendedResponse
    <3>2. CASE ~t.reply
      <4>1. y = x
        BY <3>2 DEF ReplyStep
      <4>. HIDE DEF y
      <4>. QED BY <2>1, <2>2, <3>2, <4>1
    <3>. QED BY <3>1, <3>2
  <2>5. \A j \in 1 .. k : j = k \/ j \in 1 .. k - 1
    OBVIOUS
  <2>6. k \in 1 .. k /\ \A j \in 1 .. k - 1 : j \in 1 .. k
    OBVIOUS
  <2>. HIDE DEF y
  <2>7. \A i : Names(y, i) <=> \/ Names(returned, i)
                               \/ \E j \in 1 .. k : i \in taken[j].waiters
    BY <2>1, <2>4, <2>5, <2>6 DEF t
  <2>8. ReplyInv(par, k, y)
    BY <1>3, <2>4, <2>7 DEF ReplyInv
  <2>. QED BY <2>8 DEF y, t
<1>6. ReplyInv(par, Len(taken), p)
  BY <1>1, <1>4, <1>5, ReplyLoop!FoldKeeps
<1>. QED BY <1>3, <1>6 DEF ReplyInv, Names, p

-----------------------------------------------------------------------------
\* The requests that leave a queue and those that stay.
LEMMA SplitQueue ==
    ASSUME NEW S, NEW q \in Seq(S), NEW m \in Nat, m <= Len(q)
    PROVE  LET front == SubSeq(q, 1, m)
               rest  == SubSeq(q, m + 1, Len(q))
           IN  /\ front \in Seq(S) /\ Len(front) = m /\ \A j \in 1 .. m : front[j] = q[j]
               /\ rest \in Seq(S) /\ Len(rest) = Len(q) - m /\ Len(q) \in Nat
               /\ \A j \in 1 .. Len(q) - m : rest[j] = q[m + j]
               /\ \A j \in 1 .. m : j \in 1 .. Len(q)
               /\ \A j \in 1 .. Len(q) - m : m + j \in 1 .. Len(q) /\ m + j \notin 1 .. m
               /\ \A j \in 1 .. Len(q) : j \in 1 .. m \/ \E k \in 1 .. Len(q) - m : j = m + k
<1>1. Len(q) \in Nat /\ \A i \in 1 .. Len(q) : q[i] \in S
  BY ElementOfSeq, LenProperties
<1>2. \A i \in 1 .. m : i \in 1 .. Len(q) /\ 1 + i - 1 = i
  BY <1>1
<1>3. \A i \in m + 1 .. Len(q) : q[i] \in S
  BY <1>1
<1>4. /\ SubSeq(q, 1, m) \in Seq(S) /\ Len(SubSeq(q, 1, m)) = IF 1 <= m THEN m - 1 + 1 ELSE 0
      /\ \A i \in 1 .. m - 1 + 1 : SubSeq(q, 1, m)[i] = q[1 + i - 1]
  BY <1>1, <1>2, SubSeqProperties
<1>5. /\ SubSeq(q, m + 1, Len(q)) \in Seq(S)
      /\ Len(SubSeq(q, m + 1, Len(q))) = IF m + 1 <= Len(q) THEN Len(q) - (m + 1) + 1 ELSE 0
      /\ \A i \in 1 .. Len(q) - (m + 1) + 1 : SubSeq(q, m + 1, Len(q))[i] = q[m + 1 + i - 1]
  BY <1>1, <1>3, SubSeqProperties
<1>6. /\ \A i \in 1 .. m : i \in 1 .. m - 1 + 1
      /\ \A j \in 1 .. Len(q) - m : j \in 1 .. Len(q) - (m + 1) + 1 /\ m + 1 + j - 1 = m + j
  BY <1>1
<1>7. \A j \in 1 .. Len(q) - m : m + j \in 1 .. Len(q) /\ m + j \notin 1 .. m
  BY <1>1
<1>8. ASSUME NEW j \in 1 .. Len(q), j \notin 1 .. m PROVE \E k \in 1 .. Len(q) - m : j = m + k
  <2>1. j - m \in 1 .. Len(q) - m /\ j = m + (j - m)
    BY <1>1, <1>8
  <2>. QED BY <2>1
<1>. QED BY <1>1, <1>2, <1>4, <1>5, <1>6, <1>7, <1>8

LEMMA SplitPlaces ==
    ASSUME NEW n \in Nat, NEW q \in Seq(Requests(n)), NEW m \in Nat, m <= Len(q),
           NamedOnce(q), AskedFor(q), AllChecked(q)
    PROVE  LET front == SubSeq(q, 1, m)
               rest  == SubSeq(q, m + 1, Len(q))
           IN  /\ NamedOnce(front) /\ AskedFor(front) /\ AllChecked(front)
               /\ NamedOnce(rest) /\ AskedFor(rest) /\ AllChecked(rest)
               /\ \A i : ~(Names(front, i) /\ Names(rest, i))
               /\ \A i : Names(q, i) <=> Names(front, i) \/ Names(rest, i)
               /\ BlocksApart(q) => BlocksApart(rest)
               /\ \A wq : NoneOlder(q, wq) => NoneOlder(front, wq) /\ NoneOlder(rest, wq)
<1>. DEFINE front == SubSeq(q, 1, m)
            rest  == SubSeq(q, m + 1, Len(q))
<1>1. /\ Len(front) = m /\ \A j \in 1 .. m : front[j] = q[j]
      /\ Len(rest) = Len(q) - m /\ Len(q) \in Nat
      /\ \A j \in 1 .. Len(q) - m : rest[j] = q[m + j]
      /\ \A j \in 1 .. m : j \in 1 .. Len(q)
      /\ \A j \in 1 .. Len(q) - m : m + j \in 1 .. Len(q) /\ m + j \notin 1 .. m
      /\ \A j \in 1 .. Len(q) : j \in 1 .. m \/ \E k \in 1 .. Len(q) - m : j = m + k
  BY SplitQueue
<1>. HIDE DEF front, rest
<1>2. \A j, k \in 1 .. Len(q) - m : (m + j = m + k => j = k) /\ (j < k => m + j < m + k)
  <2>1. \A j \in 1 .. Len(q) - m : j \in Nat
    BY <1>1
  <2>2. \A j, k \in Nat : (m + j = m + k => j = k) /\ (j < k => m + j < m + k)
    OBVIOUS
  <2>. QED BY ONLY <2>1, <2>2
<1>3. NamedOnce(front) /\ NamedOnce(rest)
  <2>1. NamedOnce(front)
    BY <1>1 DEF NamedOnce
  <2>2. ASSUME NEW j \in 1 .. Len(rest), NEW k \in 1 .. Len(rest),
               NEW i \in rest[j].waiters \cap rest[k].waiters
        PROVE  j = k
    <3>1. i \in q[m + j].waiters \cap q[m + k].waiters
      BY <1>1
    <3>2. m + j = m + k
      BY <1>1, <3>1 DEF NamedOnce
    <3>. QED BY <1>1, <1>2, <3>2
  <2>. QED BY <2>1, <2>2 DEF NamedOnce
<1>4. AskedFor(front) /\ AskedFor(rest) /\ AllChecked(front) /\ AllChecked(rest)
  BY <1>1 DEF AskedFor, AllChecked
<1>5. \A i : ~(Names(front, i) /\ Names(rest, i))
  <2>. SUFFICES ASSUME NEW i, Names(front, i), Names(rest, i) PROVE FALSE
    OBVIOUS
  <2>1. PICK j \in 1 .. m : i \in q[j].waiters
    BY <1>1 DEF Names
  <2>2. PICK k \in 1 .. Len(q) - m : i \in q[m + k].waiters
    BY <1>1 DEF Names
  <2>3. j = m + k
    BY <1>1, <2>1, <2>2 DEF NamedOnce
  <2>. QED BY <1>1, <2>3
<1>6. \A i : Names(q, i) <=> Names(front, i) \/ Names(rest, i)
  <2>. SUFFICES ASSUME NEW i PROVE Names(q, i) <=> Names(front, i) \/ Names(rest, i)
    OBVIOUS
  <2>1. ASSUME Names(q, i) PROVE Names(front, i) \/ Names(rest, i)
    <3>1. PICK j \in 1 .. Len(q) : i \in q[j].waiters
      BY <2>1 DEF Names
    <3>2. CASE j \in 1 .. m
      BY <1>1, <3>1, <3>2 DEF Names
    <3>3. CASE j \notin 1 .. m
      <4>1. PICK k \in 1 .. Len(q) - m : j = m + k
        BY <1>1, <3>3
      <4>. QED BY <1>1, <3>1, <4>1 DEF Names
    <3>. QED BY <3>2, <3>3
  <2>2. ASSUME Names(front, i) PROVE Names(q, i)
    BY <1>1, <2>2 DEF Names
  <2>3. ASSUME Names(rest, i) PROVE Names(q, i)
    <3>1. PICK k \in 1 .. Len(q) - m : i \in q[m + k].waiters
      BY <1>1, <2>3 DEF Names
    <3>. QED BY <1>1, <3>1 DEF Names
  <2>. QED BY <2>1, <2>2, <2>3
<1>7. BlocksApart(q) => BlocksApart(rest)
  <2>. SUFFICES ASSUME BlocksApart(q), NEW j \in 1 .. Len(rest), NEW k \in 1 .. Len(rest),
                       j < k, rest[j].checked, rest[k].checked
                PROVE  ~Overlaps(rest[j], rest[k], ReadUnit)
    BY DEF BlocksApart
  <2>1. /\ rest[j] = q[m + j] /\ rest[k] = q[m + k] /\ m + j < m + k
        /\ m + j \in 1 .. Len(q) /\ m + k \in 1 .. Len(q)
    BY <1>1, <1>2
  <2>. QED BY <2>1 DEF BlocksApart
<1>8. \A wq : NoneOlder(q, wq) => NoneOlder(front, wq) /\ NoneOlder(rest, wq)
  BY <1>1 DEF NoneOlder
<1>. QED BY <1>3, <1>4, <1>5, <1>6, <1>7, <1>8 DEF front, rest
-----------------------------------------------------------------------------
\* check_collision as a whole.
LEMMA WqCheckedSound ==
    ASSUME NEW n \in Nat, NEW c, SoundChannel(n, c)
    PROVE  /\ SoundChannel(n, CheckWq(c))
           /\ \A i : Waited(CheckWq(c), i) <=> Waited(c, i)
<1>. DEFINE d == CheckWq(c)
            w == WqChecked(c.WQ)
<1>1. d = [c EXCEPT !.WQ = w]
  BY DEF CheckWq, WqChecked
<1>2. /\ c \in [RQ : Seq(Requests(n)), WQ : Seq(Requests(n)), PQ : Seq(Requests(n)),
                returned : Seq(Responses(n))]
      /\ \A k \in 1 .. Len(c.WQ) : c.WQ[k].waiters = {}
  BY DEF SoundChannel
<1>3. /\ w \in Seq(Requests(n))
      /\ \A j \in 1 .. Len(w) : w[j].waiters = {} /\ \E i \in 1 .. Len(c.WQ) : SameAccess(w[j], c.WQ[i])
  BY <1>2, WqCheckedIs
<1>. HIDE DEF w, d
<1>4. /\ d.RQ = c.RQ /\ d.WQ = w /\ d.PQ = c.PQ /\ d.returned = c.returned
      /\ d \in [RQ : Seq(Requests(n)), WQ : Seq(Requests(n)), PQ : Seq(Requests(n)),
                returned : Seq(Responses(n))]
  BY <1>1, <1>2, <1>3
<1>5. \A q : NoneOlder(q, c.WQ) => NoneOlder(q, w)
  BY <1>3 DEF NoneOlder, SameAccess, Overlaps
<1>6. SoundChannel(n, d)
  BY <1>3, <1>4, <1>5 DEF SoundChannel
<1>7. \A i : Waited(d, i) <=> Waited(c, i)
  BY <1>4 DEF Waited
<1>. QED BY <1>6, <1>7 DEF d

LEMMA RqCheckedSound ==
    ASSUME NEW n \in Nat, NEW c, SoundChannel(n, c)
    PROVE  /\ SoundChannel(n, CheckRq(c)) /\ AllChecked(CheckRq(c).RQ)
           /\ \A i : Waited(CheckRq(c), i) <=> Waited(c, i)
<1>. DEFINE d == CheckRq(c)
            s == Checked(c, c.RQ)
<1>1. d = [c EXCEPT !.RQ = s.queue, !.returned = s.returned]
  BY DEF CheckRq
<1>2. FoundQueue(n, c.WQ, c.RQ, c.returned)
  BY DEF SoundChannel, FoundQueue
<1>3. /\ s.queue \in Seq(Requests(n)) /\ s.returned \in Seq(Responses(n))
      /\ AllChecked(s.queue) /\ AskedFor(s.queue)
      /\ NamedOnce(s.queue) /\ NamedOnce(s.returned)
      /\ \A i : ~(Names(s.queue, i) /\ Names(s.returned, i))
      /\ \A i : Names(c.RQ, i) \/ Names(c.returned, i) <=>
                    Names(s.queue, i) \/ Names(s.returned, i)
      /\ OneKind => BlocksApart(s.queue) /\ NoneOlder(s.queue, c.WQ)
  BY <1>2, CheckedIs
<1>. HIDE DEF s, d
<1>4. /\ c \in [RQ : Seq(Requests(n)), WQ : Seq(Requests(n)), PQ : Seq(Requests(n)),
                returned : Seq(Responses(n))]
      /\ \A i : ~(Names(c.PQ, i) /\ (Names(c.RQ, i) \/ Names(c.returned, i)))
  BY DEF SoundChannel
<1>5. /\ d.RQ = s.queue /\ d.WQ = c.WQ /\ d.PQ = c.PQ /\ d.returned = s.returned
      /\ d \in [RQ : Seq(Requests(n)), WQ : Seq(Requests(n)), PQ : Seq(Requests(n)),
                returned : Seq(Responses(n))]
  BY <1>1, <1>3, <1>4
<1>6. SoundChannel(n, d)
  BY <1>3, <1>4, <1>5 DEF SoundChannel
<1>7. \A i : Waited(d, i) <=> Waited(c, i)
  BY <1>3, <1>5 DEF Waited
<1>. QED BY <1>3, <1>5, <1>6, <1>7 DEF d

LEMMA PqCheckedSound ==
    ASSUME NEW n \in Nat, NEW c, SoundChannel(n, c)
    PROVE  /\ SoundChannel(n, CheckPq(c)) /\ AllChecked(CheckPq(c).PQ)
           /\ CheckPq(c).RQ = c.RQ
           /\ \A i : Waited(CheckPq(c), i) <=> Waited(c, i)
<1>. DEFINE d == CheckPq(c)
            s == Checked(c, c.PQ)
<1>1. d = [c EXCEPT !.PQ = s.queue, !.returned = s.returned]
  BY DEF CheckPq
<1>2. FoundQueue(n, c.WQ, c.PQ, c.returned)
  BY DEF SoundChannel, FoundQueue
<1>3. /\ s.queue \in Seq(Requests(n)) /\ s.returned \in Seq(Responses(n))
      /\ AllChecked(s.queue) /\ AskedFor(s.queue)
      /\ NamedOnce(s.queue) /\ NamedOnce(s.returned)
      /\ \A i : ~(Names(s.queue, i) /\ Names(s.returned, i))
      /\ \A i : Names(c.PQ, i) \/ Names(c.returned, i) <=>
                    Names(s.queue, i) \/ Names(s.returned, i)
      /\ OneKind => BlocksApart(s.queue) /\ NoneOlder(s.queue, c.WQ)
  BY <1>2, CheckedIs
<1>. HIDE DEF s, d
<1>4. /\ c \in [RQ : Seq(Requests(n)), WQ : Seq(Requests(n)), PQ : Seq(Requests(n)),
                returned : Seq(Responses(n))]
      /\ \A i : ~(Names(c.RQ, i) /\ (Names(c.PQ, i) \/ Names(c.returned, i)))
  BY DEF SoundChannel
<1>5. /\ d.RQ = c.RQ /\ d.WQ = c.WQ /\ d.PQ = s.queue /\ d.returned = s.returned
      /\ d \in [RQ : Seq(Requests(n)), WQ : Seq(Requests(n)), PQ : Seq(Requests(n)),
                returned : Seq(Responses(n))]
  BY <1>1, <1>3, <1>4
<1>6. SoundChannel(n, d)
  BY <1>3, <1>4, <1>5 DEF SoundChannel
<1>7. \A i : Waited(d, i) <=> Waited(c, i)
  BY <1>3, <1>5 DEF Waited
<1>. QED BY <1>3, <1>5, <1>6, <1>7 DEF d

LEMMA CheckCollisionSound ==
    ASSUME NEW n \in Nat, NEW c, SoundChannel(n, c)
    PROVE  LET d == CheckCollision(c)
           IN  /\ SoundChannel(n, d) /\ AllChecked(d.RQ) /\ AllChecked(d.PQ)
               /\ \A i : Waited(d, i) <=> Waited(c, i)
<1>1. /\ SoundChannel(n, CheckWq(c))
      /\ \A i : Waited(CheckWq(c), i) <=> Waited(c, i)
  BY WqCheckedSound
<1>. DEFINE a == CheckWq(c)
            b == CheckRq(a)
<1>. HIDE DEF a
<1>2. /\ SoundChannel(n, b) /\ AllChecked(b.RQ)
      /\ \A i : Waited(b, i) <=> Waited(a, i)
  BY <1>1, RqCheckedSound DEF a
<1>. HIDE DEF b
<1>3. /\ SoundChannel(n, CheckPq(b)) /\ AllChecked(CheckPq(b).PQ) /\ CheckPq(b).RQ = b.RQ
      /\ \A i : Waited(CheckPq(b), i) <=> Waited(b, i)
  BY <1>2, PqCheckedSound
<1>4. CheckCollision(c) = CheckPq(b)
  <2>1. \A x : (CHOOSE d \in {x} : TRUE) = x
    OBVIOUS
  <2>2. {CheckPq(r) : r \in {CheckRq(w) : w \in {CheckWq(c)}}} = {CheckPq(b)}
    BY DEF a, b
  <2>. QED BY <2>1, <2>2 DEF CheckCollision
<1>. QED BY <1>1, <1>2, <1>3, <1>4 DEF a
-----------------------------------------------------------------------------
\* A new request at the end of a queue.
LEMMA RequestsGrow ==
    ASSUME NEW n \in Nat
    PROVE  /\ \A q \in Seq(Requests(n)) : q \in Seq(Requests(n + 1))
           /\ \A q \in Seq(Responses(n)) : q \in Seq(Responses(n + 1))
<1>1. \A i \in 1 .. n : i \in 1 .. n + 1
  OBVIOUS
<1>2. Requests(n) \subseteq Requests(n + 1)
  BY <1>1 DEF Requests
<1>3. Responses(n) \subseteq Responses(n + 1)
  BY <1>1 DEF Responses
<1>. QED BY <1>2, <1>3, SeqMonotonic

LEMMA AppendedRequest ==
    ASSUME NEW n \in Nat, NEW q \in Seq(Requests(n)), NEW r \in Requests(n + 1),
           ~r.checked, r.vaddr = n + 1,
           r.waiters \subseteq {n + 1}, r.waiters # {} => r.reply
    PROVE  LET p == Append(q, r)
           IN  /\ p \in Seq(Requests(n + 1))
               /\ NamedOnce(q) => NamedOnce(p)
               /\ AskedFor(q) => AskedFor(p)
               /\ \A i : Names(p, i) <=> Names(q, i) \/ i \in r.waiters
               /\ BlocksApart(q) => BlocksApart(p)
               /\ \A wq : NoneOlder(q, wq) => NoneOlder(p, wq)
               /\ \A o \in Seq(Requests(n)) : NoneOlder(o, q) => NoneOlder(o, p)
               /\ (\A k \in 1 .. Len(q) : q[k].waiters = {}) /\ r.waiters = {} =>
                        \A k \in 1 .. Len(p) : p[k].waiters = {}
<1>. DEFINE p == Append(q, r)
<1>1. /\ Len(q) \in Nat /\ \A j \in 1 .. Len(q) : q[j] \in Requests(n)
      /\ q \in Seq(Requests(n + 1))
  BY RequestsGrow, LenProperties, ElementOfSeq
<1>2. /\ p \in Seq(Requests(n + 1)) /\ Len(p) = Len(q) + 1
      /\ p[Len(q) + 1] = r /\ \A j \in 1 .. Len(q) : p[j] = q[j]
  BY <1>1, AppendProperties
<1>. HIDE DEF p
<1>3. /\ \A j \in 1 .. Len(p) : j \in 1 .. Len(q) \/ j = Len(q) + 1
      /\ Len(q) + 1 \in 1 .. Len(p) /\ \A j \in 1 .. Len(q) : j \in 1 .. Len(p)
  BY <1>1, <1>2
<1>4. \A j \in 1 .. Len(q) : n + 1 \notin q[j].waiters
  <2>1. n + 1 \notin 1 .. n
    OBVIOUS
  <2>2. \A j \in 1 .. Len(q) : q[j].waiters \subseteq 1 .. n
    BY <1>1 DEF Requests
  <2>. QED BY <2>1, <2>2
<1>5. NamedOnce(q) => NamedOnce(p)
  BY <1>2, <1>3, <1>4 DEF NamedOnce
<1>6. AskedFor(q) => AskedFor(p)
  BY <1>2, <1>3 DEF AskedFor
<1>7. \A i : Names(p, i) <=> Names(q, i) \/ i \in r.waiters
  BY <1>2, <1>3 DEF Names
<1>8. BlocksApart(q) => BlocksApart(p)
  BY <1>2, <1>3 DEF BlocksApart
<1>9. \A wq : NoneOlder(q, wq) => NoneOlder(p, wq)
  BY <1>2, <1>3 DEF NoneOlder
<1>10. ASSUME NEW o \in Seq(Requests(n)), NoneOlder(o, q) PROVE NoneOlder(o, p)
  <2>1. \A j \in 1 .. Len(o) : ~(n + 1 < o[j].vaddr)
    <3>1. \A j \in 1 .. Len(o) : o[j] \in Requests(n)
      BY ElementOfSeq
    <3>2. \A j \in 1 .. Len(o) : o[j].vaddr \in 1 .. n
      BY <3>1 DEF Requests
    <3>. QED BY <3>2
  <2>. QED BY <1>2, <1>3, <1>10, <2>1 DEF NoneOlder
<1>11. (\A k \in 1 .. Len(q) : q[k].waiters = {}) /\ r.waiters = {} =>
            \A k \in 1 .. Len(p) : p[k].waiters = {}
  BY <1>2, <1>3
<1>. QED BY <1>2, <1>5, <1>6, <1>7, <1>8, <1>9, <1>10, <1>11 DEF p

LEMMA AddStep ==
    ASSUME UseIInv, NEW addr \in Addrs, NEW translated \in Translations, NEW reply \in BOOLEAN,
           Add(addr, translated, reply)
    PROVE  UseIInv'
<1>. DEFINE n == Len(asked)
            i == n + 1
            A == [addr : Addrs, translated : Translations]
            r(type) == Request(addr, i, type, translated, reply, IF reply THEN {i} ELSE {})
<1>1. n \in Nat /\ asked \in Seq(A) /\ SoundChannel(n, chan) /\ i \in 1 .. n + 1
  BY LenProperties DEF UseIInv
<1>2. asked' \in Seq(A) /\ Len(asked') = n + 1
  BY <1>1, AppendProperties DEF Add
<1>3. ASSUME NEW type \in Types
      PROVE  /\ Unchecked(r(type)) \in Requests(n + 1)
             /\ ~Unchecked(r(type)).checked /\ Unchecked(r(type)).vaddr = n + 1
             /\ Unchecked(r(type)).waiters = IF reply THEN {n + 1} ELSE {}
             /\ Unchecked(r(type)).reply = reply
  <2>1. addr \in Nat
    BY UseAssumption
  <2>2. (IF reply THEN {i} ELSE {}) \subseteq 1 .. n + 1
    BY <1>1
  <2>. DEFINE w == IF reply THEN {i} ELSE {}
              u == [addr |-> addr, vaddr |-> i, type |-> type, translated |-> translated,
                    reply |-> reply, waiters |-> w, checked |-> FALSE]
  <2>3. i = n + 1 /\ w \subseteq 1 .. n + 1 /\ w = IF reply THEN {n + 1} ELSE {}
    BY <2>2
  <2>4. r(type) = u
    BY DEF Request
  <2>. HIDE DEF w, i, r
  <2>5. u \in Requests(n + 1) /\ ~u.checked /\ u.vaddr = i /\ u.waiters = w /\ u.reply = reply
    BY <1>1, <2>1, <2>3 DEF Requests
  <2>. HIDE DEF u
  <2>6. Unchecked(u) = u
    BY <2>5 DEF Unchecked, Requests
  <2>. QED BY <2>3, <2>4, <2>5, <2>6
<1>4. /\ chan \in [RQ : Seq(Requests(n)), WQ : Seq(Requests(n)), PQ : Seq(Requests(n)),
                   returned : Seq(Responses(n))]
      /\ chan.RQ \in Seq(Requests(n + 1)) /\ chan.WQ \in Seq(Requests(n + 1))
      /\ chan.PQ \in Seq(Requests(n + 1)) /\ chan.returned \in Seq(Responses(n + 1))
  BY <1>1, RequestsGrow DEF SoundChannel
<1>5. /\ \A j : j \in waiting <=> Waited(chan, j)
      /\ waiting' = IF reply THEN waiting \cup {n + 1} ELSE waiting
      /\ overtook' = overtook
  BY DEF UseIInv, Add
<1>6. ~Names(chan.RQ, n + 1) /\ ~Names(chan.PQ, n + 1) /\ ~Names(chan.returned, n + 1)
  <2>1. n + 1 \notin 1 .. n
    BY <1>1
  <2>2. /\ \A k \in 1 .. Len(chan.RQ) : chan.RQ[k] \in Requests(n)
        /\ \A k \in 1 .. Len(chan.PQ) : chan.PQ[k] \in Requests(n)
        /\ \A k \in 1 .. Len(chan.returned) : chan.returned[k] \in Responses(n)
    BY <1>4, ElementOfSeq
  <2>. HIDE DEF n
  <2>3. /\ \A k \in 1 .. Len(chan.RQ) : chan.RQ[k].waiters \subseteq 1 .. n
        /\ \A k \in 1 .. Len(chan.PQ) : chan.PQ[k].waiters \subseteq 1 .. n
        /\ \A k \in 1 .. Len(chan.returned) : chan.returned[k].waiters \subseteq 1 .. n
    BY <2>2 DEF Requests, Responses
  <2>. QED BY <2>1, <2>3 DEF Names
<1>. HIDE DEF n
<1>7. SoundChannel(n + 1, chan') /\ \A j : Waited(chan', j) <=> j \in waiting'
  <2>1. CASE chan' = AddRq(chan, r("LOAD"))
    <3>. DEFINE u == Unchecked(r("LOAD"))
                p == Append(chan.RQ, u)
    <3>1. /\ u \in Requests(n + 1) /\ ~u.checked /\ u.vaddr = n + 1
          /\ u.waiters = (IF reply THEN {n + 1} ELSE {}) /\ u.reply = reply
      BY <1>3 DEF Types
    <3>2. chan' = [chan EXCEPT !.RQ = p]
      BY <2>1 DEF AddRq
    <3>. HIDE DEF u
    <3>3. u.waiters \subseteq {n + 1} /\ (u.waiters # {} => u.reply)
      BY <3>1
    <3>4. /\ p \in Seq(Requests(n + 1))
          /\ NamedOnce(chan.RQ) => NamedOnce(p)
          /\ AskedFor(chan.RQ) => AskedFor(p)
          /\ \A j : Names(p, j) <=> Names(chan.RQ, j) \/ j \in u.waiters
          /\ BlocksApart(chan.RQ) => BlocksApart(p)
          /\ \A wq : NoneOlder(chan.RQ, wq) => NoneOlder(p, wq)
      BY <1>1, <1>4, <3>1, <3>3, AppendedRequest
    <3>. HIDE DEF p
    <3>5. /\ chan'.RQ = p /\ chan'.WQ = chan.WQ /\ chan'.PQ = chan.PQ
          /\ chan'.returned = chan.returned
          /\ chan' \in [RQ : Seq(Requests(n + 1)), WQ : Seq(Requests(n + 1)),
                        PQ : Seq(Requests(n + 1)), returned : Seq(Responses(n + 1))]
      BY <1>4, <3>2, <3>4
    <3>6. SoundChannel(n + 1, chan')
      BY <1>1, <1>6, <3>3, <3>4, <3>5 DEF SoundChannel
    <3>7. \A j : Waited(chan', j) <=> j \in waiting'
      BY <1>5, <3>1, <3>4, <3>5 DEF Waited
    <3>. QED BY <3>6, <3>7
  <2>2. CASE ~reply /\ chan' = AddWq(chan, r("WRITE"))
    <3>. DEFINE u == Unchecked(r("WRITE"))
                p == Append(chan.WQ, u)
    <3>1. u \in Requests(n + 1) /\ ~u.checked /\ u.vaddr = n + 1 /\ u.waiters = {}
      BY <1>3, <2>2 DEF Types
    <3>2. chan' = [chan EXCEPT !.WQ = p]
      BY <2>2 DEF AddWq
    <3>. HIDE DEF u
    <3>4. /\ p \in Seq(Requests(n + 1))
          /\ \A o \in Seq(Requests(n)) : NoneOlder(o, chan.WQ) => NoneOlder(o, p)
          /\ (\A k \in 1 .. Len(chan.WQ) : chan.WQ[k].waiters = {}) =>
                    \A k \in 1 .. Len(p) : p[k].waiters = {}
      BY <1>1, <1>4, <3>1, AppendedRequest
    <3>. HIDE DEF p
    <3>5. /\ chan'.RQ = chan.RQ /\ chan'.WQ = p /\ chan'.PQ = chan.PQ
          /\ chan'.returned = chan.returned
          /\ chan' \in [RQ : Seq(Requests(n + 1)), WQ : Seq(Requests(n + 1)),
                        PQ : Seq(Requests(n + 1)), returned : Seq(Responses(n + 1))]
      BY <1>4, <3>2, <3>4
    <3>6. SoundChannel(n + 1, chan')
      BY <1>1, <1>4, <3>4, <3>5 DEF SoundChannel
    <3>7. \A j : Waited(chan', j) <=> j \in waiting'
      BY <1>5, <2>2, <3>5 DEF Waited
    <3>. QED BY <3>6, <3>7
  <2>3. CASE chan' = AddPq(chan, r("PREFETCH"))
    <3>. DEFINE u == Unchecked(r("PREFETCH"))
                p == Append(chan.PQ, u)
    <3>1. /\ u \in Requests(n + 1) /\ ~u.checked /\ u.vaddr = n + 1
          /\ u.waiters = (IF reply THEN {n + 1} ELSE {}) /\ u.reply = reply
      BY <1>3 DEF Types
    <3>2. chan' = [chan EXCEPT !.PQ = p]
      BY <2>3 DEF AddPq
    <3>. HIDE DEF u
    <3>3. u.waiters \subseteq {n + 1} /\ (u.waiters # {} => u.reply)
      BY <3>1
    <3>4. /\ p \in Seq(Requests(n + 1))
          /\ NamedOnce(chan.PQ) => NamedOnce(p)
          /\ AskedFor(chan.PQ) => AskedFor(p)
          /\ \A j : Names(p, j) <=> Names(chan.PQ, j) \/ j \in u.waiters
          /\ BlocksApart(chan.PQ) => BlocksApart(p)
          /\ \A wq : NoneOlder(chan.PQ, wq) => NoneOlder(p, wq)
      BY <1>1, <1>4, <3>1, <3>3, AppendedRequest
    <3>. HIDE DEF p
    <3>5. /\ chan'.RQ = chan.RQ /\ chan'.WQ = chan.WQ /\ chan'.PQ = p
          /\ chan'.returned = chan.returned
          /\ chan' \in [RQ : Seq(Requests(n + 1)), WQ : Seq(Requests(n + 1)),
                        PQ : Seq(Requests(n + 1)), returned : Seq(Responses(n + 1))]
      BY <1>4, <3>2, <3>4
    <3>6. SoundChannel(n + 1, chan')
      BY <1>1, <1>6, <3>3, <3>4, <3>5 DEF SoundChannel
    <3>7. \A j : Waited(chan', j) <=> j \in waiting'
      BY <1>5, <3>1, <3>4, <3>5 DEF Waited
    <3>. QED BY <3>6, <3>7
  <2>. QED BY <2>1, <2>2, <2>3 DEF Add, n
<1>. QED BY <1>2, <1>5, <1>7 DEF UseIInv

LEMMA TakenPlaces ==
    ASSUME NEW n \in Nat, NEW p \in Seq(Requests(n)), NEW q \in Seq(Requests(n)),
           NamedOnce(p), NamedOnce(q), AskedFor(p), AskedFor(q), AllChecked(p), AllChecked(q),
           \A i : ~(Names(p, i) /\ Names(q, i))
    PROVE  /\ p \o q \in Seq(Requests(n))
           /\ NamedOnce(p \o q) /\ AskedFor(p \o q) /\ AllChecked(p \o q)
           /\ \A i : Names(p \o q, i) <=> Names(p, i) \/ Names(q, i)
           /\ \A wq : NoneOlder(p, wq) /\ NoneOlder(q, wq) => NoneOlder(p \o q, wq)
<1>. DEFINE t == p \o q
<1>1. /\ Len(p) \in Nat /\ Len(q) \in Nat
      /\ t \in Seq(Requests(n)) /\ Len(t) = Len(p) + Len(q)
      /\ \A k \in 1 .. Len(t) : t[k] = IF k <= Len(p) THEN p[k] ELSE q[k - Len(p)]
  BY LenProperties, ConcatProperties
<1>. HIDE DEF t
<1>2. ASSUME NEW k \in 1 .. Len(t)
      PROVE  \/ k \in 1 .. Len(p) /\ t[k] = p[k]
             \/ /\ k - Len(p) \in 1 .. Len(q) /\ k \notin 1 .. Len(p)
                /\ t[k] = q[k - Len(p)]
  BY <1>1
<1>3. \A k \in 1 .. Len(p) : k \in 1 .. Len(t) /\ t[k] = p[k]
  BY <1>1
<1>4. ASSUME NEW k \in 1 .. Len(q) PROVE Len(p) + k \in 1 .. Len(t) /\ t[Len(p) + k] = q[k]
  <2>1. Len(p) + k \in 1 .. Len(t) /\ ~(Len(p) + k <= Len(p)) /\ Len(p) + k - Len(p) = k
    BY <1>1
  <2>. QED BY <1>1, <2>1
<1>5. NamedOnce(t)
  <2>. SUFFICES ASSUME NEW j \in 1 .. Len(t), NEW k \in 1 .. Len(t),
                       NEW i \in t[j].waiters \cap t[k].waiters
                PROVE  j = k
    BY DEF NamedOnce
  <2>1. CASE j \in 1 .. Len(p) /\ k \in 1 .. Len(p)
    BY <1>3, <2>1 DEF NamedOnce
  <2>2. CASE j \notin 1 .. Len(p) /\ k \notin 1 .. Len(p)
    <3>1. /\ j - Len(p) \in 1 .. Len(q) /\ k - Len(p) \in 1 .. Len(q)
          /\ t[j] = q[j - Len(p)] /\ t[k] = q[k - Len(p)]
      BY <1>2, <2>2
    <3>2. j - Len(p) = k - Len(p)
      BY <3>1 DEF NamedOnce
    <3>. QED BY <1>1, <3>2
  <2>3. CASE j \in 1 .. Len(p) /\ k \notin 1 .. Len(p)
    <3>1. Names(p, i) /\ Names(q, i)
      BY <1>2, <2>3 DEF Names
    <3>. QED BY <3>1
  <2>4. CASE j \notin 1 .. Len(p) /\ k \in 1 .. Len(p)
    <3>1. Names(p, i) /\ Names(q, i)
      BY <1>2, <2>4 DEF Names
    <3>. QED BY <3>1
  <2>. QED BY <2>1, <2>2, <2>3, <2>4
<1>6. AskedFor(t) /\ AllChecked(t)
  BY <1>2 DEF AskedFor, AllChecked
<1>7. \A i : Names(t, i) <=> Names(p, i) \/ Names(q, i)
  <2>1. ASSUME NEW i, Names(t, i) PROVE Names(p, i) \/ Names(q, i)
    BY <1>2, <2>1 DEF Names
  <2>2. ASSUME NEW i, Names(p, i) PROVE Names(t, i)
    BY <1>3, <2>2 DEF Names
  <2>3. ASSUME NEW i, Names(q, i) PROVE Names(t, i)
    BY <1>4, <2>3 DEF Names
  <2>. QED BY <2>1, <2>2, <2>3
<1>8. ASSUME NEW wq, NoneOlder(p, wq), NoneOlder(q, wq) PROVE NoneOlder(t, wq)
  BY <1>2, <1>8 DEF NoneOlder
<1>. QED BY <1>1, <1>5, <1>6, <1>7, <1>8 DEF t

LEMMA CycleStep ==
    ASSUME UseIInv, NEW w \in Nat, NEW r \in Nat, NEW p \in Nat, CacheCycle(w, r, p)
    PROVE  UseIInv'
<1>. DEFINE n     == Len(asked)
            c     == CheckCollision(chan)
            wq    == SubSeq(c.WQ, w + 1, Len(c.WQ))
            rq    == SubSeq(c.RQ, r + 1, Len(c.RQ))
            pq    == SubSeq(c.PQ, p + 1, Len(c.PQ))
            reads == SubSeq(c.RQ, 1, r)
            fetch == SubSeq(c.PQ, 1, p)
            taken == reads \o fetch
            ret   == Replied(c.returned, taken)
            left  == [c EXCEPT !.WQ = wq]
<1>1. /\ w <= Len(c.WQ) /\ r <= Len(c.RQ) /\ p <= Len(c.PQ)
      /\ chan' = [left EXCEPT !.RQ = SubSeq(@, r + 1, Len(@)), !.PQ = SubSeq(@, p + 1, Len(@)),
                              !.returned = Replied(@, taken)]
      /\ overtook' = (overtook \/ \E k \in 1 .. Len(taken) : OlderWrite(left, taken[k]))
      /\ asked' = asked /\ waiting' = waiting
  BY DEF CacheCycle
<1>2. /\ n \in Nat /\ asked \in Seq([addr : Addrs, translated : Translations])
      /\ SoundChannel(n, chan) /\ \A i : i \in waiting <=> Waited(chan, i)
      /\ overtook \in BOOLEAN /\ (OneKind => ~overtook)
  BY LenProperties DEF UseIInv
<1>3. /\ SoundChannel(n, c) /\ AllChecked(c.RQ) /\ AllChecked(c.PQ)
      /\ \A i : Waited(c, i) <=> Waited(chan, i)
  BY <1>2, CheckCollisionSound
<1>. HIDE DEF c, n
<1>4. /\ c \in [RQ : Seq(Requests(n)), WQ : Seq(Requests(n)), PQ : Seq(Requests(n)),
                returned : Seq(Responses(n))]
      /\ AskedFor(c.RQ) /\ AskedFor(c.PQ)
      /\ \A k \in 1 .. Len(c.WQ) : c.WQ[k].waiters = {}
      /\ NamedOnce(c.RQ) /\ NamedOnce(c.PQ) /\ NamedOnce(c.returned)
      /\ \A i : /\ ~(Names(c.RQ, i) /\ Names(c.PQ, i))
                /\ ~(Names(c.RQ, i) /\ Names(c.returned, i))
                /\ ~(Names(c.PQ, i) /\ Names(c.returned, i))
      /\ OneKind => /\ BlocksApart(c.RQ) /\ BlocksApart(c.PQ)
                    /\ NoneOlder(c.RQ, c.WQ) /\ NoneOlder(c.PQ, c.WQ)
  BY <1>3 DEF SoundChannel
<1>5. /\ wq \in Seq(Requests(n))
      /\ \A k \in 1 .. Len(wq) : \E j \in 1 .. Len(c.WQ) : wq[k] = c.WQ[j]
  <2>1. c.WQ \in Seq(Requests(n))
    BY <1>4
  <2>2. /\ wq \in Seq(Requests(n)) /\ Len(wq) = Len(c.WQ) - w
        /\ \A j \in 1 .. Len(c.WQ) - w : wq[j] = c.WQ[w + j]
        /\ \A j \in 1 .. Len(c.WQ) - w : w + j \in 1 .. Len(c.WQ)
    BY <1>1, <2>1, SplitQueue
  <2>. HIDE DEF wq
  <2>. QED BY <2>2
<1>6. /\ reads \in Seq(Requests(n)) /\ rq \in Seq(Requests(n))
      /\ NamedOnce(reads) /\ AskedFor(reads) /\ AllChecked(reads)
      /\ NamedOnce(rq) /\ AskedFor(rq)
      /\ \A i : ~(Names(reads, i) /\ Names(rq, i))
      /\ \A i : Names(c.RQ, i) <=> Names(reads, i) \/ Names(rq, i)
      /\ BlocksApart(c.RQ) => BlocksApart(rq)
      /\ \A o : NoneOlder(c.RQ, o) => NoneOlder(reads, o) /\ NoneOlder(rq, o)
  <2>1. c.RQ \in Seq(Requests(n))
    BY <1>4
  <2>2. reads \in Seq(Requests(n)) /\ rq \in Seq(Requests(n))
    BY <1>1, <2>1, SplitQueue
  <2>. QED BY <1>1, <1>2, <1>3, <1>4, <2>1, <2>2, SplitPlaces
<1>7. /\ fetch \in Seq(Requests(n)) /\ pq \in Seq(Requests(n))
      /\ NamedOnce(fetch) /\ AskedFor(fetch) /\ AllChecked(fetch)
      /\ NamedOnce(pq) /\ AskedFor(pq)
      /\ \A i : ~(Names(fetch, i) /\ Names(pq, i))
      /\ \A i : Names(c.PQ, i) <=> Names(fetch, i) \/ Names(pq, i)
      /\ BlocksApart(c.PQ) => BlocksApart(pq)
      /\ \A o : NoneOlder(c.PQ, o) => NoneOlder(fetch, o) /\ NoneOlder(pq, o)
  <2>1. c.PQ \in Seq(Requests(n))
    BY <1>4
  <2>2. fetch \in Seq(Requests(n)) /\ pq \in Seq(Requests(n))
    BY <1>1, <2>1, SplitQueue
  <2>. QED BY <1>1, <1>2, <1>3, <1>4, <2>1, <2>2, SplitPlaces
<1>. HIDE DEF wq, rq, pq, reads, fetch
<1>8. /\ taken \in Seq(Requests(n)) /\ NamedOnce(taken) /\ AskedFor(taken) /\ AllChecked(taken)
      /\ \A i : Names(taken, i) <=> Names(reads, i) \/ Names(fetch, i)
      /\ \A o : NoneOlder(reads, o) /\ NoneOlder(fetch, o) => NoneOlder(taken, o)
  BY <1>2, <1>4, <1>6, <1>7, TakenPlaces
<1>. HIDE DEF taken
<1>9. /\ ret \in Seq(Responses(n)) /\ NamedOnce(ret)
      /\ \A i : Names(ret, i) <=> Names(c.returned, i) \/ Names(taken, i)
  <2>1. \A i : ~(Names(c.returned, i) /\ Names(taken, i))
    BY <1>4, <1>6, <1>7, <1>8
  <2>2. c.returned \in Seq(Responses(n))
    BY <1>4
  <2>. QED BY <1>2, <1>4, <1>8, <2>1, <2>2, RepliedIs
<1>9a. left = [RQ |-> c.RQ, WQ |-> wq, PQ |-> c.PQ, returned |-> c.returned]
  <2>1. c = [RQ |-> c.RQ, WQ |-> c.WQ, PQ |-> c.PQ, returned |-> c.returned]
    BY <1>4
  <2>. QED BY ONLY <2>1
<1>10. chan' = [RQ |-> rq, WQ |-> wq, PQ |-> pq, returned |-> ret]
  <2>1. left = [RQ |-> c.RQ, WQ |-> wq, PQ |-> c.PQ, returned |-> c.returned]
    BY <1>9a
  <2>. HIDE DEF left
  <2>. QED BY <1>1, <2>1 DEF rq, pq, ret
<1>. HIDE DEF ret
<1>11. \A o : NoneOlder(o, c.WQ) => NoneOlder(o, wq)
  BY <1>5 DEF NoneOlder
<1>12. SoundChannel(n, chan')
  <2>1. /\ chan'.RQ = rq /\ chan'.WQ = wq /\ chan'.PQ = pq /\ chan'.returned = ret
        /\ chan' \in [RQ : Seq(Requests(n)), WQ : Seq(Requests(n)), PQ : Seq(Requests(n)),
                      returned : Seq(Responses(n))]
    BY <1>5, <1>6, <1>7, <1>9, <1>10
  <2>2. \A k \in 1 .. Len(wq) : wq[k].waiters = {}
    BY <1>4, <1>5
  <2>3. \A i : /\ ~(Names(rq, i) /\ Names(pq, i))
               /\ ~(Names(rq, i) /\ Names(ret, i))
               /\ ~(Names(pq, i) /\ Names(ret, i))
    BY <1>4, <1>6, <1>7, <1>8, <1>9
  <2>4. OneKind => /\ BlocksApart(rq) /\ BlocksApart(pq)
                   /\ NoneOlder(rq, wq) /\ NoneOlder(pq, wq)
    BY <1>4, <1>6, <1>7, <1>11
  <2>. QED BY <1>6, <1>7, <1>9, <2>1, <2>2, <2>3, <2>4 DEF SoundChannel
<1>13. \A i : i \in waiting' <=> Waited(chan', i)
  <2>1. chan'.RQ = rq /\ chan'.PQ = pq /\ chan'.returned = ret
    BY <1>10
  <2>2. \A i : i \in waiting' <=> Waited(c, i)
    BY <1>1, <1>2, <1>3
  <2>. QED BY <1>6, <1>7, <1>8, <1>9, <2>1, <2>2 DEF Waited
<1>14. overtook' \in BOOLEAN /\ (OneKind => ~overtook')
  <2>1. left.WQ = wq
    <3>. HIDE DEF left
    <3>. QED BY <1>9a
  <2>2. ASSUME OneKind, NEW k \in 1 .. Len(taken) PROVE ~OlderWrite(left, taken[k])
    <3>1. NoneOlder(taken, wq)
      BY <1>4, <1>6, <1>7, <1>8, <1>11, <2>2
    <3>2. taken[k].checked
      BY <1>8 DEF AllChecked
    <3>. HIDE DEF left
    <3>. QED BY <2>1, <3>1, <3>2 DEF OlderWrite, NoneOlder
  <2>. HIDE DEF left
  <2>. QED BY <1>1, <1>2, <2>2
<1>. QED BY <1>1, <1>2, <1>12, <1>13, <1>14 DEF UseIInv, n

LEMMA ReceiveStep ==
    ASSUME UseIInv, Receive
    PROVE  UseIInv'
<1>. DEFINE n == Len(asked)
<1>1. /\ chan' = [chan EXCEPT !.returned = << >>]
      /\ waiting' = waiting \ UNION {chan.returned[i].waiters : i \in 1 .. Len(chan.returned)}
      /\ asked' = asked /\ overtook' = overtook
  BY DEF Receive
<1>2. /\ SoundChannel(n, chan) /\ \A i : i \in waiting <=> Waited(chan, i)
      /\ chan \in [RQ : Seq(Requests(n)), WQ : Seq(Requests(n)), PQ : Seq(Requests(n)),
                   returned : Seq(Responses(n))]
  BY DEF UseIInv, SoundChannel
<1>3. /\ chan'.RQ = chan.RQ /\ chan'.WQ = chan.WQ /\ chan'.PQ = chan.PQ
      /\ chan'.returned = << >>
      /\ chan' \in [RQ : Seq(Requests(n)), WQ : Seq(Requests(n)), PQ : Seq(Requests(n)),
                    returned : Seq(Responses(n))]
  <2>1. << >> \in Seq(Responses(n))
    BY EmptySeq
  <2>. QED BY <1>1, <1>2, <2>1
<1>4. NamedOnce(<< >>) /\ \A i : ~Names(<< >>, i)
  BY DEF NamedOnce, Names
<1>5. SoundChannel(n, chan')
  BY <1>2, <1>3, <1>4 DEF SoundChannel
<1>6. \A i : i \in waiting' <=> Waited(chan', i)
  <2>1. \A i : i \in waiting' <=> i \in waiting /\ ~Names(chan.returned, i)
    BY <1>1 DEF Names
  <2>2. \A i : /\ ~(Names(chan.RQ, i) /\ Names(chan.returned, i))
               /\ ~(Names(chan.PQ, i) /\ Names(chan.returned, i))
    BY <1>2 DEF SoundChannel
  <2>. QED BY <1>2, <1>3, <1>4, <2>1, <2>2 DEF Waited
<1>. QED BY <1>1, <1>5, <1>6 DEF UseIInv

LEMMA UseInitial == UseInit => UseIInv
<1>. SUFFICES ASSUME UseInit PROVE UseIInv
  OBVIOUS
<1>1. /\ chan = [RQ |-> << >>, WQ |-> << >>, PQ |-> << >>, returned |-> << >>]
      /\ asked = << >> /\ waiting = {} /\ overtook = FALSE
  BY DEF UseInit, NoRequests
<1>2. /\ chan.RQ = << >> /\ chan.WQ = << >> /\ chan.PQ = << >> /\ chan.returned = << >>
      /\ chan \in [RQ : Seq(Requests(0)), WQ : Seq(Requests(0)), PQ : Seq(Requests(0)),
                   returned : Seq(Responses(0))]
  <2>1. << >> \in Seq(Requests(0)) /\ << >> \in Seq(Responses(0))
    BY EmptySeq
  <2>. QED BY <1>1, <2>1
<1>3. /\ NamedOnce(<< >>) /\ AskedFor(<< >>) /\ BlocksApart(<< >>) /\ NoneOlder(<< >>, << >>)
      /\ \A i : ~Names(<< >>, i)
  BY DEF NamedOnce, Names, AskedFor, BlocksApart, NoneOlder
<1>4. Len(asked) = 0
  BY <1>1
<1>5. SoundChannel(0, chan)
  BY <1>2, <1>3 DEF SoundChannel
<1>6. \A i : i \in waiting <=> Waited(chan, i)
  BY <1>1, <1>2, <1>3 DEF Waited
<1>. QED BY <1>1, <1>4, <1>5, <1>6, EmptySeq DEF UseIInv

LEMMA UseStep == UseIInv /\ [UseNext]_useVars => UseIInv'
<1>. SUFFICES ASSUME UseIInv, [UseNext]_useVars PROVE UseIInv'
  OBVIOUS
<1>1. ASSUME NEW addr \in Addrs, NEW translated \in Translations, NEW reply \in BOOLEAN,
             Add(addr, translated, reply)
      PROVE  UseIInv'
  BY <1>1, AddStep
<1>2. ASSUME NEW w \in 0 .. WqSize, NEW r \in 0 .. RqSize, NEW p \in 0 .. PqSize,
             CacheCycle(w, r, p)
      PROVE  UseIInv'
  <2>1. w \in Nat /\ r \in Nat /\ p \in Nat
    BY ChannelAssumption
  <2>. QED BY <1>2, <2>1, CycleStep
<1>3. CASE Receive
  BY <1>3, ReceiveStep
<1>4. CASE UNCHANGED useVars
  BY <1>4 DEF useVars, UseIInv
<1>. QED BY <1>1, <1>2, <1>3, <1>4 DEF UseNext

LEMMA UseAlways == UseSpec => []UseIInv
BY UseInitial, UseStep, PTL DEF UseSpec

\* A waiter is named in one place, or in none.
LEMMA PlacesCounted ==
    ASSUME NEW n, NEW q \in Seq(Requests(n)), NamedOnce(q), AskedFor(q), NEW i
    PROVE  LET S == {r \in Range(q) : r.reply /\ i \in r.waiters}
           IN  IF Names(q, i) THEN \E r : S = {r} ELSE S = {}
<1>. DEFINE S == {r \in Range(q) : r.reply /\ i \in r.waiters}
<1>1. Range(q) = {q[k] : k \in 1 .. Len(q)}
  BY LenProperties DEF Range
<1>2. CASE ~Names(q, i)
  BY <1>1, <1>2 DEF Names
<1>3. CASE Names(q, i)
  <2>1. PICK k \in 1 .. Len(q) : i \in q[k].waiters
    BY <1>3 DEF Names
  <2>2. \A j \in 1 .. Len(q) : i \in q[j].waiters => j = k
    BY <2>1 DEF NamedOnce
  <2>3. q[k].reply
    BY <2>1 DEF AskedFor
  <2>4. S = {q[k]}
    BY <1>1, <2>1, <2>2, <2>3
  <2>. QED BY <1>3, <2>4
<1>. QED BY <1>2, <1>3

LEMMA OnceIsCounted == UseIInv => AnsweredOnce
<1>. SUFFICES ASSUME UseIInv, NEW i \in 1 .. Len(asked)
              PROVE  Answers(i) = IF i \in waiting THEN 1 ELSE 0
  BY DEF AnsweredOnce
<1>. DEFINE n == Len(asked)
            S(q) == {r \in Range(q) : r.reply /\ i \in r.waiters}
            Q == {r \in Queued : r.reply /\ i \in r.waiters}
            K == {k \in 1 .. Len(chan.returned) : i \in chan.returned[k].waiters}
<1>1. /\ chan.RQ \in Seq(Requests(n)) /\ chan.PQ \in Seq(Requests(n))
      /\ chan.WQ \in Seq(Requests(n))
      /\ NamedOnce(chan.RQ) /\ NamedOnce(chan.PQ) /\ NamedOnce(chan.returned)
      /\ AskedFor(chan.RQ) /\ AskedFor(chan.PQ)
      /\ \A k \in 1 .. Len(chan.WQ) : chan.WQ[k].waiters = {}
      /\ ~(Names(chan.RQ, i) /\ Names(chan.PQ, i))
      /\ ~(Names(chan.RQ, i) /\ Names(chan.returned, i))
      /\ ~(Names(chan.PQ, i) /\ Names(chan.returned, i))
      /\ i \in waiting <=> Waited(chan, i)
  BY DEF UseIInv, SoundChannel
<1>2. IF Names(chan.RQ, i) THEN \E r : S(chan.RQ) = {r} ELSE S(chan.RQ) = {}
  BY <1>1, PlacesCounted
<1>3. IF Names(chan.PQ, i) THEN \E r : S(chan.PQ) = {r} ELSE S(chan.PQ) = {}
  BY <1>1, PlacesCounted
<1>4. S(chan.WQ) = {}
  <2>1. Range(chan.WQ) = {chan.WQ[k] : k \in 1 .. Len(chan.WQ)}
    BY <1>1, LenProperties DEF Range
  <2>. QED BY <1>1, <2>1
<1>5. Q = S(chan.RQ) \cup S(chan.PQ)
  BY <1>4 DEF Queued
<1>6. IF Names(chan.returned, i) THEN \E k : K = {k} ELSE K = {}
  <2>1. CASE ~Names(chan.returned, i)
    BY <2>1 DEF Names
  <2>2. CASE Names(chan.returned, i)
    <3>1. PICK k \in 1 .. Len(chan.returned) : i \in chan.returned[k].waiters
      BY <2>2 DEF Names
    <3>2. \A j \in 1 .. Len(chan.returned) : i \in chan.returned[j].waiters => j = k
      BY <1>1, <3>1 DEF NamedOnce
    <3>3. K = {k}
      BY <3>1, <3>2
    <3>. QED BY <2>2, <3>3
  <2>. QED BY <2>1, <2>2
<1>. HIDE DEF S, Q, K
<1>7. Cardinality({}) = 0 /\ \A x : Cardinality({x}) = 1
  BY FS_EmptySet, FS_Singleton
<1>8. Cardinality(Q) + Cardinality(K) = IF i \in waiting THEN 1 ELSE 0
  <2>1. CASE Names(chan.RQ, i)
    <3>1. (\E r : Q = {r}) /\ K = {} /\ i \in waiting
      BY <1>1, <1>2, <1>3, <1>5, <1>6, <2>1 DEF Waited
    <3>2. Cardinality(Q) = 1 /\ Cardinality(K) = 0
      BY <1>7, <3>1
    <3>. QED BY <3>1, <3>2
  <2>2. CASE Names(chan.PQ, i)
    <3>1. (\E r : Q = {r}) /\ K = {} /\ i \in waiting
      BY <1>1, <1>2, <1>3, <1>5, <1>6, <2>2 DEF Waited
    <3>2. Cardinality(Q) = 1 /\ Cardinality(K) = 0
      BY <1>7, <3>1
    <3>. QED BY <3>1, <3>2
  <2>3. CASE Names(chan.returned, i)
    <3>1. Q = {} /\ (\E k : K = {k}) /\ i \in waiting
      BY <1>1, <1>2, <1>3, <1>5, <1>6, <2>3 DEF Waited
    <3>2. Cardinality(Q) = 0 /\ Cardinality(K) = 1
      BY <1>7, <3>1
    <3>. QED BY <3>1, <3>2
  <2>4. CASE ~Names(chan.RQ, i) /\ ~Names(chan.PQ, i) /\ ~Names(chan.returned, i)
    <3>1. Q = {} /\ K = {} /\ i \notin waiting
      BY <1>1, <1>2, <1>3, <1>5, <1>6, <2>4 DEF Waited
    <3>2. Cardinality(Q) = 0 /\ Cardinality(K) = 0
      BY <1>7, <3>1
    <3>. QED BY <3>1, <3>2
  <2>. QED BY <2>1, <2>2, <2>3, <2>4
<1>9. Answers(i) = Cardinality(Q) + Cardinality(K)
  BY DEF Answers, Q, K
<1>. QED BY <1>8, <1>9

\* Whoever asked a cache for a response gets exactly one, whatever check_collision merged
\* with it (do_collision_for_merge) or answered from a queued write
\* (do_collision_for_return), whether requests are translated or not.
THEOREM EveryWaiterAnsweredOnce == UseSpec => []AnsweredOnce
BY UseAlways, OnceIsCounted, PTL

\* In a channel whose requests are all translated, or all not, as those of each core and
\* cache are, the cache below is also asked once for a block, and no read passes an older
\* write to its address.  (Where they are mixed, do_collision_for gives up at the first
\* request of the address that is of the other kind.)
THEOREM ChannelIsSound ==
    ASSUME \A s, t \in Translations : s = t
    PROVE  UseSpec => []ChannelSound
<1>1. OneKind
  BY DEF OneKind
<1>2. UseIInv => AskedOnce /\ NoReadOvertakesWrite
  BY <1>1 DEF UseIInv, SoundChannel, AskedOnce, BlocksApart, NoReadOvertakesWrite
<1>3. UseIInv => ChannelSound
  BY <1>2, OnceIsCounted DEF ChannelSound
<1>. QED BY <1>3, UseAlways, PTL
-----------------------------------------------------------------------------
(***************************************************************************)
(* The main loop: what a trace gives to its core, and what is counted      *)
(***************************************************************************)

Instructions == [ip : Nat \ {0}, taken : BOOLEAN, target : Nat, at : Nat \ {0}]

\* Instruction y may be given to the core after x.
Follows(repeat, x, y) == x.taken => x.target = y.ip \/ (repeat /\ y.at = 1)

Chain(repeat, q) ==
    /\ q \in Seq(Instructions)
    /\ \A k \in 1 .. Len(q) - 1 : Follows(repeat, q[k], q[k + 1])

Joined(repeat, w, b) ==
    w # << >> /\ b # << >> => Follows(repeat, w[Len(w)], b[1])

\* A reader without instructions is at its start or at the end of its file.
ReaderOK(repeat, trace, r) ==
    /\ DOMAIN r = {"pos", "eof", "buffer"}
    /\ r.pos \in 0 .. Len(trace) /\ r.eof \in BOOLEAN
    /\ Chain(repeat, r.buffer)
    /\ r.eof \/ r.buffer # << >> \/ r.pos = 0

\* What was given to the core, w, goes on in the buffer.
GoesOn(repeat, w, r) ==
    /\ Joined(repeat, w, r.buffer)
    /\ r.eof \/ r.buffer # << >> \/ w = << >>

TraceOK(trace) == trace \in Seq([ip : Nat \ {0}, taken : BOOLEAN]) /\ Len(trace) \in Nat \ {0}

LEMMA LoopConstants ==
    /\ TraceChunk \in Nat /\ TraceChunk > 1 /\ Width \in Nat \ {0} /\ InQueueSize \in Nat \ {0}
    /\ DeadlockCycle \in Nat \ {0} /\ InFlight \in Nat \ {0} /\ SimCpus # {}
    /\ Lengths \in Seq(Nat)
    /\ \A c \in SimCpus : TraceOK(Trace[c])
<1>1. \A c \in SimCpus : Trace[c] \in Seq([ip : Nat \ {0}, taken : BOOLEAN]) /\ Len(Trace[c]) > 0
  BY SimulationAssumption
<1>2. \A c \in SimCpus : Len(Trace[c]) \in Nat
  BY <1>1, LenProperties
<1>. QED BY <1>1, <1>2, SimulationAssumption DEF TraceOK

LEMMA TargetsAreSet ==
    ASSUME NEW repeat, NEW q \in Seq(Instructions)
    PROVE  /\ Chain(repeat, SetBranchTargets(q))
           /\ Len(SetBranchTargets(q)) = Len(q)
           /\ \A k \in 1 .. Len(q) : /\ SetBranchTargets(q)[k].ip = q[k].ip
                                     /\ SetBranchTargets(q)[k].at = q[k].at
<1>. DEFINE t == SetBranchTargets(q)
            n == Len(q)
<1>1. n \in Nat /\ \A k \in 1 .. n : q[k] \in Instructions
  BY LenProperties, ElementOfSeq
<1>2. t = [k \in 1 .. n |-> IF k = n THEN q[k]
                            ELSE [q[k] EXCEPT !.target = IF q[k].taken THEN q[k + 1].ip ELSE 0]]
  BY DEF SetBranchTargets
<1>. HIDE DEF t, n
<1>3. ASSUME NEW k \in 1 .. n
      PROVE  /\ t[k] \in Instructions /\ t[k].ip = q[k].ip /\ t[k].at = q[k].at
             /\ t[k].taken = q[k].taken
             /\ k # n /\ q[k].taken => t[k].target = q[k + 1].ip
  <2>1. CASE k = n
    BY <1>1, <1>2, <2>1
  <2>2. CASE k # n
    <3>1. t[k] = [q[k] EXCEPT !.target = IF q[k].taken THEN q[k + 1].ip ELSE 0]
      BY <1>2, <2>2
    <3>2. k + 1 \in 1 .. n /\ q[k] \in Instructions /\ q[k + 1] \in Instructions
      BY <1>1, <2>2
    <3>3. (IF q[k].taken THEN q[k + 1].ip ELSE 0) \in Nat
      BY <3>2 DEF Instructions
    <3>. QED BY <3>1, <3>2, <3>3 DEF Instructions
  <2>. QED BY <2>1, <2>2
<1>4. t \in Seq(Instructions) /\ Len(t) = n
  <2>1. t \in [1 .. n -> Instructions]
    BY <1>2, <1>3
  <2>. QED BY <1>1, <2>1
<1>5. ASSUME NEW k \in 1 .. n - 1 PROVE Follows(repeat, t[k], t[k + 1])
  <2>1. k \in 1 .. n /\ k + 1 \in 1 .. n /\ k # n
    BY <1>1
  <2>. QED BY <1>3, <2>1 DEF Follows
<1>6. Chain(repeat, t)
  BY <1>4, <1>5 DEF Chain
<1>. QED BY <1>3, <1>4, <1>6 DEF t, n

\* What a refill adds, and what it keeps.
LEMMA RefilledIs ==
    ASSUME NEW repeat, NEW trace, TraceOK(trace), NEW r, ReaderOK(repeat, trace, r),
           NEW x, x = Refilled(r, trace)
    PROVE  /\ DOMAIN x = {"pos", "eof", "buffer"}
           /\ x.pos \in 0 .. Len(trace) /\ x.eof \in BOOLEAN
           /\ Chain(repeat, x.buffer)
           /\ x.eof \/ Len(x.buffer) >= Len(r.buffer) + 2
           /\ Len(x.buffer) >= Len(r.buffer)
           /\ r.pos = 0 => x.buffer # << >>
           /\ r.buffer # << >> => x.buffer[1].ip = r.buffer[1].ip /\ x.buffer[1].at = r.buffer[1].at
           /\ r.buffer = << >> /\ r.pos = 0 => x.buffer[1].at = 1
<1>. USE LoopConstants
<1>. DEFINE n    == Atmost(TraceChunk, Len(trace) - r.pos)
            read == [k \in 1 .. n |->
                      [ip |-> trace[r.pos + k].ip, taken |-> trace[r.pos + k].taken,
                       target |-> 0, at |-> r.pos + k]]
            q    == r.buffer \o read
<1>1. /\ n \in Nat /\ n <= TraceChunk /\ r.pos + n \in 0 .. Len(trace)
      /\ r.pos = 0 => n > 0
  BY DEF ReaderOK, TraceOK, Atmost
<1>2. /\ x.pos = r.pos + n /\ (x.eof <=> n < TraceChunk) /\ x.buffer = SetBranchTargets(q)
      /\ DOMAIN x = {"pos", "eof", "buffer"} /\ x.eof \in BOOLEAN
  <2>1. x = [pos |-> r.pos + n, eof |-> n < TraceChunk, buffer |-> SetBranchTargets(q)]
    BY DEF Refilled
  <2>. HIDE DEF n, q
  <2>2. x.pos = r.pos + n /\ x.buffer = SetBranchTargets(q)
        /\ DOMAIN x = {"pos", "eof", "buffer"}
    BY <2>1
  <2>3. x.eof = (n < TraceChunk)
    BY <2>1
  <2>4. (n < TraceChunk) = TRUE \/ (n < TraceChunk) = FALSE
    OBVIOUS
  <2>5. (x.eof <=> n < TraceChunk) /\ x.eof \in BOOLEAN
    <3>. QED BY Zenon, <2>3, <2>4
  <2>. QED BY <2>2, <2>5
<1>3. read \in Seq(Instructions) /\ Len(read) = n
  <2>1. ASSUME NEW k \in 1 .. n PROVE read[k] \in Instructions
    <3>1. r.pos + k \in 1 .. Len(trace)
      BY <1>1 DEF ReaderOK, TraceOK
    <3>2. trace[r.pos + k] \in [ip : Nat \ {0}, taken : BOOLEAN]
      BY <3>1, ElementOfSeq DEF TraceOK
    <3>3. read[k] = [ip |-> trace[r.pos + k].ip, taken |-> trace[r.pos + k].taken,
                     target |-> 0, at |-> r.pos + k]
      OBVIOUS
    <3>. HIDE DEF read, n
    <3>. QED BY <3>1, <3>2, <3>3 DEF Instructions, TraceOK
  <2>2. read \in [1 .. n -> Instructions]
    BY <2>1
  <2>. HIDE DEF read, n
  <2>. QED BY <1>1, <2>2
<1>4. n > 0 => read[1].at = r.pos + 1
  <2>. SUFFICES ASSUME n > 0 PROVE read[1].at = r.pos + 1
    OBVIOUS
  <2>1. 1 \in 1 .. n
    BY <1>1
  <2>. QED BY <2>1
<1>. HIDE DEF read, n
<1>5. r.buffer \in Seq(Instructions) /\ Len(r.buffer) \in Nat
  BY LenProperties DEF ReaderOK, Chain
<1>6. /\ q \in Seq(Instructions) /\ Len(q) = Len(r.buffer) + n
      /\ \A i \in 1 .. Len(r.buffer) + n :
            q[i] = IF i <= Len(r.buffer) THEN r.buffer[i] ELSE read[i - Len(r.buffer)]
  BY <1>3, <1>5, ConcatProperties
<1>. HIDE DEF q
<1>7. /\ Chain(repeat, x.buffer) /\ Len(x.buffer) = Len(q)
      /\ \A k \in 1 .. Len(q) : x.buffer[k].ip = q[k].ip /\ x.buffer[k].at = q[k].at
  <2>1. /\ Chain(repeat, SetBranchTargets(q)) /\ Len(SetBranchTargets(q)) = Len(q)
        /\ \A k \in 1 .. Len(q) : /\ SetBranchTargets(q)[k].ip = q[k].ip
                                  /\ SetBranchTargets(q)[k].at = q[k].at
    BY <1>6, TargetsAreSet
  <2>. QED BY <1>2, <2>1
<1>8. r.buffer # << >> => x.buffer[1].ip = r.buffer[1].ip /\ x.buffer[1].at = r.buffer[1].at
  <2>. SUFFICES ASSUME r.buffer # << >>
                PROVE  x.buffer[1].ip = r.buffer[1].ip /\ x.buffer[1].at = r.buffer[1].at
    OBVIOUS
  <2>1. Len(r.buffer) >= 1
    BY <1>5, EmptySeq
  <2>. QED BY <1>1, <1>5, <1>6, <1>7, <2>1
<1>9. r.pos = 0 => x.buffer # << >>
  <2>1. r.pos = 0 => Len(x.buffer) > 0
    BY <1>1, <1>5, <1>6, <1>7
  <2>. QED BY <2>1, EmptySeq
<1>10. r.buffer = << >> /\ r.pos = 0 => x.buffer[1].at = 1
  <2>. SUFFICES ASSUME r.buffer = << >>, r.pos = 0 PROVE x.buffer[1].at = 1
    OBVIOUS
  <2>1. Len(r.buffer) = 0
    BY EmptySeq
  <2>. QED BY <1>1, <1>4, <1>6, <1>7, <2>1
<1>11. /\ x.eof \/ Len(x.buffer) >= Len(r.buffer) + 2
       /\ Len(x.buffer) >= Len(r.buffer)
  <2>1. x.eof \/ n >= 2
    BY <1>1, <1>2
  <2>. QED BY <1>1, <1>5, <1>6, <1>7, <2>1
<1>. QED BY <1>1, <1>2, <1>7, <1>8, <1>9, <1>10, <1>11

\* The reader that serves has an instruction, with its target unless the file ends.
LEMMA ReadyIs ==
    ASSUME NEW repeat \in BOOLEAN, NEW trace, TraceOK(trace), NEW r, ReaderOK(repeat, trace, r),
           NEW w, GoesOn(repeat, w, r), ~TraceEof(repeat, r),
           NEW x, x = ReadyToServe(repeat, r, trace)
    PROVE  /\ ReaderOK(repeat, trace, x) /\ Joined(repeat, w, x.buffer)
           /\ x.buffer # << >> /\ (x.eof \/ Len(x.buffer) >= 2)
<1>. USE LoopConstants
<1>1. /\ r.buffer \in Seq(Instructions) /\ Len(r.buffer) \in Nat
      /\ r.buffer # << >> <=> Len(r.buffer) > 0
  <2>1. r.buffer \in Seq(Instructions) /\ Len(r.buffer) \in Nat
    BY LenProperties DEF ReaderOK, Chain
  <2>. QED BY <2>1, EmptySeq
<1>2. CASE ReaderEof(r)
  <2>1. repeat
    BY <1>2 DEF TraceEof
  <2>2. x = Refilled(NewReader, trace)
    <3>1. Len(NewReader.buffer) = 0
      BY EmptySeq DEF NewReader
    <3>. QED BY <1>2, <2>1, <3>1 DEF ReadyToServe, RefreshThresh
  <2>3. ReaderOK(repeat, trace, NewReader) /\ NewReader.buffer = << >> /\ NewReader.pos = 0
    <3>1. << >> \in Seq(Instructions) /\ Len(<< >>) = 0
      BY EmptySeq
    <3>2. DOMAIN NewReader = {"pos", "eof", "buffer"} /\ NewReader.pos = 0
          /\ NewReader.buffer = << >> /\ NewReader.eof \in BOOLEAN
      BY DEF NewReader
    <3>3. Chain(repeat, << >>)
      BY <3>1 DEF Chain
    <3>4. 0 \in 0 .. Len(trace)
      BY DEF TraceOK
    <3>. QED BY <3>2, <3>3, <3>4 DEF ReaderOK
  <2>4. Len(NewReader.buffer) = 0
    BY <2>3, EmptySeq
  <2>5. /\ DOMAIN x = {"pos", "eof", "buffer"}
        /\ x.pos \in 0 .. Len(trace) /\ x.eof \in BOOLEAN
        /\ Chain(repeat, x.buffer)
        /\ x.eof \/ Len(x.buffer) >= 2
        /\ x.buffer # << >> /\ x.buffer[1].at = 1
    BY <2>2, <2>3, <2>4, RefilledIs
  <2>6. ReaderOK(repeat, trace, x)
    BY <2>5 DEF ReaderOK
  <2>. QED BY <2>1, <2>5, <2>6 DEF Joined, Follows
<1>3. CASE ~ReaderEof(r) /\ Len(r.buffer) > 1
  <2>1. x = r
    BY <1>3 DEF ReadyToServe, RefreshThresh
  <2>. QED BY <1>1, <1>3, <2>1 DEF GoesOn
<1>4. CASE ~ReaderEof(r) /\ ~(Len(r.buffer) > 1)
  <2>1. x = Refilled(r, trace)
    BY <1>1, <1>4 DEF ReadyToServe, RefreshThresh
  <2>2. ~r.eof
    BY <1>1, <1>4 DEF ReaderEof, RefreshThresh
  <2>3. /\ DOMAIN x = {"pos", "eof", "buffer"}
        /\ x.pos \in 0 .. Len(trace) /\ x.eof \in BOOLEAN
        /\ Chain(repeat, x.buffer)
        /\ x.eof \/ Len(x.buffer) >= Len(r.buffer) + 2
        /\ Len(x.buffer) >= Len(r.buffer)
        /\ r.pos = 0 => x.buffer # << >>
        /\ r.buffer # << >> => x.buffer[1].ip = r.buffer[1].ip /\ x.buffer[1].at = r.buffer[1].at
    BY <2>1, RefilledIs
  <2>4. x.buffer # << >>
    <3>1. r.buffer # << >> => Len(x.buffer) > 0
      BY <1>1, <2>3
    <3>. QED BY <2>2, <2>3, <3>1, EmptySeq DEF ReaderOK
  <2>5. ReaderOK(repeat, trace, x)
    BY <2>3, <2>4 DEF ReaderOK
  <2>6. Joined(repeat, w, x.buffer)
    BY <2>2, <2>3 DEF GoesOn, Joined, Follows
  <2>7. x.eof \/ Len(x.buffer) >= 2
    BY <1>1, <2>3 DEF Chain
  <2>. QED BY <2>4, <2>5, <2>6, <2>7
<1>. QED BY <1>2, <1>3, <1>4
-----------------------------------------------------------------------------
CpuFields == {"reader", "queue", "inflight", "retired", "begin", "simEnd", "finish", "leap",
              "idle", "last"}

Given(cpu) == cpu.last \o cpu.queue

\* What a core was given goes on in the buffer of its reader.
Fed(repeat, trace, cpu) ==
    /\ DOMAIN cpu = CpuFields
    /\ cpu.queue \in Seq(Instructions) /\ cpu.last \in Seq(Instructions) /\ Len(cpu.last) <= 1
    /\ Chain(repeat, Given(cpu))
    /\ ReaderOK(repeat, trace, cpu.reader)
    /\ GoesOn(repeat, Given(cpu), cpu.reader)

\* A core that was given instructions is otherwise what it was.
OnlyGiven(x, cpu) ==
    /\ x.inflight = cpu.inflight /\ x.retired = cpu.retired /\ x.begin = cpu.begin
    /\ x.simEnd = cpu.simEnd /\ x.finish = cpu.finish /\ x.leap = cpu.leap
    /\ x.idle = cpu.idle /\ x.last = cpu.last

LEMMA Regrouped ==
    ASSUME NEW S, NEW s \in Seq(S), NEW t \in Seq(S), NEW e \in Seq(S)
    PROVE  s \o (t \o e) = (s \o t) \o e
BY ConcatAssociative

Onto(s, t, d) == s \o Append(t, d) = Append(s \o t, d)

LEMMA AppendedToBoth ==
    ASSUME NEW S, NEW s \in Seq(S), NEW t \in Seq(S), NEW d \in S
    PROVE  Onto(s, t, d)
<1>1. s \o t \in Seq(S)
  BY ConcatProperties
<1>2. Append(t, d) = t \o <<d>>
  BY AppendIsConcat
<1>3. Append(s \o t, d) = (s \o t) \o <<d>>
  BY <1>1, AppendIsConcat
<1>4. <<d>> \in Seq(S)
  OBVIOUS
<1>5. \A e \in Seq(S) : s \o (t \o e) = (s \o t) \o e
  BY Regrouped
<1>6. s \o (t \o <<d>>) = (s \o t) \o <<d>>
  BY Zenon, <1>4, <1>5
<1>. QED BY Zenon, <1>2, <1>3, <1>6 DEF Onto

\* The first of the buffer moves to the end of what was given.
LEMMA GivenMore ==
    ASSUME NEW repeat, NEW w, Chain(repeat, w), NEW b, Chain(repeat, b), b # << >>,
           Joined(repeat, w, b)
    PROVE  /\ Chain(repeat, Append(w, Head(b))) /\ Chain(repeat, Tail(b))
           /\ Joined(repeat, Append(w, Head(b)), Tail(b))
           /\ Len(Tail(b)) = Len(b) - 1
<1>. DEFINE v == Append(w, Head(b))
            t == Tail(b)
<1>1. /\ w \in Seq(Instructions) /\ Len(w) \in Nat
      /\ b \in Seq(Instructions) /\ Len(b) \in Nat /\ Len(b) > 0
      /\ w # << >> <=> Len(w) > 0
  <2>1. /\ w \in Seq(Instructions) /\ Len(w) \in Nat
        /\ b \in Seq(Instructions) /\ Len(b) \in Nat
    BY LenProperties DEF Chain
  <2>. QED BY <2>1, EmptySeq
<1>2. Head(b) = b[1] /\ b[1] \in Instructions
  BY <1>1, HeadTailProperties, ElementOfSeq
<1>3. /\ v \in Seq(Instructions) /\ Len(v) = Len(w) + 1
      /\ \A i \in 1 .. Len(w) : v[i] = w[i]
      /\ v[Len(w) + 1] = b[1]
  BY <1>1, <1>2, AppendProperties
<1>4. /\ t \in Seq(Instructions) /\ Len(t) = Len(b) - 1
      /\ \A i \in 1 .. Len(t) : t[i] = b[i + 1]
  BY <1>1, HeadTailProperties
<1>. HIDE DEF v, t
<1>5. ASSUME NEW k \in 1 .. Len(v) - 1 PROVE Follows(repeat, v[k], v[k + 1])
  <2>1. CASE k = Len(w)
    BY <1>1, <1>3, <2>1 DEF Joined
  <2>2. CASE k # Len(w)
    <3>1. k \in 1 .. Len(w) - 1 /\ k \in 1 .. Len(w) /\ k + 1 \in 1 .. Len(w)
      BY <1>1, <1>3, <2>2
    <3>. QED BY <1>3, <3>1 DEF Chain
  <2>. QED BY <2>1, <2>2
<1>6. ASSUME NEW k \in 1 .. Len(t) - 1 PROVE Follows(repeat, t[k], t[k + 1])
  <2>1. k \in 1 .. Len(t) /\ k + 1 \in 1 .. Len(t) /\ k + 1 \in 1 .. Len(b) - 1
    BY <1>1, <1>4
  <2>. QED BY <1>4, <2>1 DEF Chain
<1>7. Joined(repeat, v, t)
  <2>. SUFFICES ASSUME t # << >> PROVE Follows(repeat, v[Len(v)], t[1])
    BY DEF Joined
  <2>1. Len(t) > 0
    BY <1>4, EmptySeq
  <2>2. 1 \in 1 .. Len(t) /\ 1 \in 1 .. Len(b) - 1
    BY <1>1, <1>4, <2>1
  <2>3. Follows(repeat, b[1], b[1 + 1])
    BY <2>2 DEF Chain
  <2>. QED BY <1>1, <1>3, <1>4, <2>2, <2>3
<1>8. Chain(repeat, v) /\ Chain(repeat, t)
  BY <1>3, <1>4, <1>5, <1>6 DEF Chain
<1>. QED BY <1>4, <1>7, <1>8 DEF v, t

LEMMA ReadOneFed ==
    ASSUME NEW repeat \in BOOLEAN, NEW trace, TraceOK(trace), NEW cpu, Fed(repeat, trace, cpu),
           ~TraceEof(repeat, cpu.reader), NEW x, x = ReadOne(repeat, cpu, trace)
    PROVE  Fed(repeat, trace, x) /\ OnlyGiven(x, cpu)
<1>. DEFINE r == ReadyToServe(repeat, cpu.reader, trace)
            n == [r EXCEPT !.buffer = Tail(@)]
            w == Given(cpu)
<1>1. /\ ReaderOK(repeat, trace, r) /\ Joined(repeat, w, r.buffer)
      /\ r.buffer # << >> /\ (r.eof \/ Len(r.buffer) >= 2)
  BY ReadyIs DEF Fed
<1>2. x = [cpu EXCEPT !.queue = Append(@, Head(r.buffer)), !.reader = n]
  BY DEF ReadOne
<1>. HIDE DEF r
<1>3. /\ Chain(repeat, Append(w, Head(r.buffer))) /\ Chain(repeat, Tail(r.buffer))
      /\ Joined(repeat, Append(w, Head(r.buffer)), Tail(r.buffer))
      /\ Len(Tail(r.buffer)) = Len(r.buffer) - 1
  BY <1>1, GivenMore DEF Fed, ReaderOK
<1>4. /\ DOMAIN n = {"pos", "eof", "buffer"} /\ n.pos = r.pos /\ n.eof = r.eof
      /\ n.buffer = Tail(r.buffer)
  BY <1>1 DEF ReaderOK
<1>. HIDE DEF n
<1>5. n.eof \/ n.buffer # << >>
  <2>1. r.buffer \in Seq(Instructions) /\ Len(r.buffer) \in Nat
    BY <1>1, LenProperties DEF ReaderOK, Chain
  <2>2. n.eof \/ Len(n.buffer) > 0
    BY <1>1, <1>3, <1>4, <2>1
  <2>. QED BY <2>2, EmptySeq
<1>6. ReaderOK(repeat, trace, n)
  BY <1>1, <1>3, <1>4, <1>5 DEF ReaderOK
<1>7. /\ DOMAIN x = CpuFields /\ x.queue = Append(cpu.queue, Head(r.buffer))
      /\ x.last = cpu.last /\ x.reader = n /\ OnlyGiven(x, cpu)
  BY <1>2 DEF Fed, CpuFields, OnlyGiven
<1>8. Head(r.buffer) \in Instructions
  BY <1>1, HeadTailProperties DEF ReaderOK, Chain
<1>9. x.queue \in Seq(Instructions) /\ Given(x) = Append(w, Head(r.buffer))
  <2>1. x.queue \in Seq(Instructions)
    BY <1>7, <1>8, AppendProperties DEF Fed
  <2>2. cpu.last \o Append(cpu.queue, Head(r.buffer)) = Append(cpu.last \o cpu.queue, Head(r.buffer))
    <3>1. cpu.last \in Seq(Instructions) /\ cpu.queue \in Seq(Instructions)
      BY DEF Fed
    <3>2. Onto(cpu.last, cpu.queue, Head(r.buffer))
      BY <1>8, <3>1, AppendedToBoth
    <3>. QED BY Zenon, <3>2 DEF Onto
  <2>. QED BY <1>7, <2>1, <2>2 DEF Given
<1>10. Fed(repeat, trace, x)
  BY <1>3, <1>4, <1>5, <1>6, <1>7, <1>9 DEF Fed, GoesOn
<1>. QED BY <1>7, <1>10

ReadStep(par, s, k) ==
    IF TraceEof(par.repeat, s.reader) THEN s ELSE ReadOne(par.repeat, s, par.trace)

ReadInv(par, k, s) ==
    /\ Fed(par.repeat, par.trace, s) /\ OnlyGiven(s, par.cpu)
    /\ TraceEof(par.repeat, par.cpu.reader) => s = par.cpu

ReadLoop == INSTANCE FoldInduction WITH Op <- ReadStep, Inv <- ReadInv

LEMMA ReadTraceFed ==
    ASSUME NEW repeat \in BOOLEAN, NEW trace, TraceOK(trace), NEW cpu, Fed(repeat, trace, cpu),
           NEW x, x = ReadTrace(repeat, cpu, trace)
    PROVE  /\ Fed(repeat, trace, x) /\ OnlyGiven(x, cpu)
           /\ TraceEof(repeat, cpu.reader) => x = cpu
<1>. DEFINE par  == [repeat |-> repeat, trace |-> trace, cpu |-> cpu]
            free == InQueueSize - Len(cpu.queue)
            n    == IF free < 0 THEN 0 ELSE free
            s    == [k \in 1 .. free |-> k]
<1>1. x = ReadLoop!Fold(par, cpu, s)
  BY DEF ReadTrace, ReadLoop!Fold, ReadStep, FoldLeft, ReadLoop!FoldLeft, MapThenFoldSet,
         ReadLoop!MapThenFoldSet, Max, ReadLoop!Max
<1>2. par.repeat = repeat /\ par.trace = trace /\ par.cpu = cpu
  OBVIOUS
<1>3. n \in Nat /\ DOMAIN s = 1 .. n
  <2>1. free \in Int
    BY LoopConstants, LenProperties DEF Fed
  <2>. HIDE DEF free
  <2>2. 1 .. free = 1 .. n
    BY <2>1
  <2>. QED BY <2>1, <2>2
<1>. HIDE DEF par, n, s
<1>4. ReadInv(par, 0, cpu)
  BY <1>2 DEF ReadInv, OnlyGiven
<1>5. ASSUME NEW k \in 1 .. n, NEW acc, ReadInv(par, k - 1, acc)
      PROVE  ReadInv(par, k, ReadStep(par, acc, s[k]))
  <2>1. CASE TraceEof(repeat, acc.reader)
    BY <1>2, <1>5, <2>1 DEF ReadInv, ReadStep
  <2>2. CASE ~TraceEof(repeat, acc.reader)
    <3>1. ReadStep(par, acc, s[k]) = ReadOne(repeat, acc, trace)
      BY <1>2, <2>2 DEF ReadStep
    <3>2. Fed(repeat, trace, acc) /\ OnlyGiven(acc, cpu)
          /\ ~TraceEof(repeat, cpu.reader)
      BY <1>2, <1>5, <2>2 DEF ReadInv
    <3>3. /\ Fed(repeat, trace, ReadOne(repeat, acc, trace))
          /\ OnlyGiven(ReadOne(repeat, acc, trace), acc)
      BY <2>2, <3>2, ReadOneFed
    <3>4. OnlyGiven(ReadOne(repeat, acc, trace), cpu)
      BY <3>2, <3>3 DEF OnlyGiven
    <3>. QED BY <1>2, <3>1, <3>2, <3>3, <3>4 DEF ReadInv
  <2>. QED BY <2>1, <2>2
<1>6. ReadLoop!KeepsTo(par, s, n)
  BY <1>5 DEF ReadLoop!KeepsTo
<1>7. ReadInv(par, n, ReadLoop!Fold(par, cpu, s))
  BY <1>3, <1>4, <1>6, ReadLoop!FoldKeepsTo
<1>. QED BY <1>1, <1>2, <1>7 DEF ReadInv
-----------------------------------------------------------------------------
\* v is what is left of w, the last of it.
EndOf(repeat, v, w) ==
    Chain(repeat, v) /\ v # << >> /\ w # << >> /\ v[Len(v)] = w[Len(w)]

LEMMA RestGoesOn ==
    ASSUME NEW repeat, NEW p \in Seq(Instructions), NEW q \in Seq(Instructions),
           Chain(repeat, p \o q), NEW t \in 1 .. Len(q)
    PROVE  EndOf(repeat, <<q[t]>> \o SubSeq(q, t + 1, Len(q)), p \o q)
<1>. DEFINE w == p \o q
            r == SubSeq(q, t + 1, Len(q))
            f == <<q[t]>>
            v == f \o r
            m == Len(p)
            n == Len(q)
<1>1. m \in Nat /\ n \in Nat /\ t \in 1 .. n
  BY LenProperties
<1>2. /\ w \in Seq(Instructions) /\ Len(w) = m + n
      /\ \A i \in 1 .. m + n : w[i] = IF i <= m THEN p[i] ELSE q[i - m]
  BY ConcatProperties
<1>3. /\ r \in Seq(Instructions) /\ Len(r) = n - t
      /\ \A i \in 1 .. n - t : r[i] = q[t + i]
  <2>1. \A i \in t + 1 .. n : q[i] \in Instructions
    BY <1>1, ElementOfSeq
  <2>2. /\ r \in Seq(Instructions)
        /\ Len(r) = IF t + 1 <= n THEN n - (t + 1) + 1 ELSE 0
        /\ \A i \in 1 .. n - (t + 1) + 1 : r[i] = q[(t + 1) + i - 1]
    BY <1>1, <2>1, SubSeqProperties
  <2>. HIDE DEF r, n
  <2>3. n - (t + 1) + 1 = n - t /\ \A i \in Int : (t + 1) + i - 1 = t + i
    BY <1>1
  <2>. QED BY <1>1, <2>2, <2>3
<1>4. f \in Seq(Instructions) /\ Len(f) = 1 /\ f[1] = q[t]
  BY <1>1, ElementOfSeq
<1>5. /\ v \in Seq(Instructions) /\ Len(v) = Len(f) + Len(r)
      /\ \A i \in 1 .. Len(f) + Len(r) : v[i] = IF i <= Len(f) THEN f[i] ELSE r[i - Len(f)]
  <2>1. f \in Seq(Instructions) /\ r \in Seq(Instructions)
    BY <1>3, <1>4
  <2>. HIDE DEF f, r
  <2>. QED BY <2>1, ConcatProperties
<1>. HIDE DEF w, r, f, v, m, n
<1>6. Len(v) = 1 + (n - t) /\ \A i \in 1 .. 1 + (n - t) : v[i] = w[m + t + i - 1]
  <2>1. Len(v) = 1 + (n - t)
    BY <1>1, <1>3, <1>4, <1>5
  <2>2. ASSUME NEW i \in 1 .. 1 + (n - t) PROVE v[i] = w[m + t + i - 1]
    <3>1. m + t + i - 1 \in 1 .. m + n /\ ~(m + t + i - 1 <= m) /\ m + t + i - 1 - m = t + i - 1
      BY <1>1
    <3>2. w[m + t + i - 1] = q[t + i - 1]
      <4>0. PICK j \in 1 .. m + n : j = m + t + i - 1
        BY <3>1
      <4>1. w[j] = IF j <= m THEN p[j] ELSE q[j - m]
        BY <1>2
      <4>2. ~(j <= m) /\ j - m = t + i - 1
        BY <1>1, <4>0
      <4>3. w[j] = q[j - m]
        BY <4>1, <4>2
      <4>. QED BY <4>0, <4>2, <4>3
    <3>3. CASE i = 1
      <4>1. v[1] = f[1]
        BY <1>1, <1>3, <1>4, <1>5
      <4>2. t + i - 1 = t
        BY <1>1, <3>3
      <4>. QED BY <1>4, <3>2, <3>3, <4>1, <4>2
    <3>4. CASE i # 1
      <4>1. i - 1 \in 1 .. n - t /\ t + (i - 1) = t + i - 1 /\ ~(i <= 1)
        BY <1>1, <3>4
      <4>2. v[i] = r[i - 1]
        BY <1>1, <1>3, <1>4, <1>5, <4>1
      <4>. QED BY <1>3, <3>2, <4>1, <4>2
    <3>. QED BY <3>3, <3>4
  <2>. QED BY <2>1, <2>2
<1>7. ASSUME NEW k \in 1 .. Len(v) - 1 PROVE Follows(repeat, v[k], v[k + 1])
  <2>1. /\ k \in 1 .. 1 + (n - t) /\ k + 1 \in 1 .. 1 + (n - t)
        /\ m + t + k - 1 \in 1 .. Len(w) - 1
        /\ m + t + (k + 1) - 1 = (m + t + k - 1) + 1
    BY <1>1, <1>2, <1>6
  <2>2. Follows(repeat, w[m + t + k - 1], w[(m + t + k - 1) + 1])
    BY <2>1 DEF Chain, w
  <2>. QED BY <1>6, <2>1, <2>2
<1>8. Len(v) \in Nat /\ Len(v) > 0 /\ Len(w) > 0 /\ Len(v) \in 1 .. 1 + (n - t)
      /\ m + t + Len(v) - 1 = Len(w)
  BY <1>1, <1>2, <1>6
<1>9. v # << >> /\ w # << >>
  BY <1>8, EmptySeq
<1>10. v[Len(v)] = w[Len(w)]
  BY <1>6, <1>8
<1>11. EndOf(repeat, v, w)
  BY <1>5, <1>7, <1>9, <1>10 DEF EndOf, Chain
<1>. QED BY <1>11 DEF v, w, f, r, n

MayTake(cpu, does) ==
    does \in [take : 0 .. InFlight, retire : 0 .. Width] /\ does.take <= Len(cpu.queue)

\* What a cycle of a core alone does to what matters here.
Ran(x, cpu) ==
    /\ x.reader = cpu.reader /\ x.begin = cpu.begin /\ x.finish = cpu.finish
    /\ x.retired \in cpu.retired .. cpu.retired + Width
    /\ x.idle = 0 \/ x.idle = Atmost(cpu.idle + 1, DeadlockCycle)

LEMMA OperatedIs ==
    ASSUME NEW c \in SimCpus, NEW repeat, NEW trace, NEW cpu, Fed(repeat, trace, cpu),
           cpu.retired \in Nat, cpu.idle \in Nat, NEW does, MayTake(cpu, does),
           NEW x, x = Operated(c, cpu, does)
    PROVE  Fed(repeat, trace, x) /\ Ran(x, cpu)
<1>. USE LoopConstants
<1>1. does.take \in Nat /\ does.retire \in 0 .. Width /\ does.take <= Len(cpu.queue)
  BY DEF MayTake
<1>2. CASE cpu.leap >= Den
  <2>1. x = [cpu EXCEPT !.leap = @ - Den, !.idle = Atmost(@ + 1, DeadlockCycle)]
    BY <1>2 DEF Operated
  <2>2. /\ DOMAIN x = CpuFields /\ x.queue = cpu.queue /\ x.last = cpu.last
        /\ x.reader = cpu.reader /\ x.begin = cpu.begin /\ x.finish = cpu.finish
        /\ x.retired = cpu.retired /\ x.idle = Atmost(cpu.idle + 1, DeadlockCycle)
    BY <2>1 DEF Fed, CpuFields
  <2>3. Fed(repeat, trace, x)
    BY <2>2 DEF Fed, Given
  <2>. QED BY <2>2, <2>3 DEF Ran
<1>3. CASE ~(cpu.leap >= Den)
  <2>1. x = [cpu EXCEPT !.leap = @ + ClockScale[c],
                        !.last = IF does.take = 0 THEN @ ELSE <<cpu.queue[does.take]>>,
                        !.queue = SubSeq(@, does.take + 1, Len(@)),
                        !.inflight = @ + does.take - does.retire,
                        !.retired = @ + does.retire,
                        !.idle = IF does.take + does.retire = 0
                                 THEN Atmost(@ + 1, DeadlockCycle) ELSE 0]
    BY <1>3 DEF Operated
  <2>2. /\ DOMAIN x = CpuFields
        /\ x.reader = cpu.reader /\ x.begin = cpu.begin /\ x.finish = cpu.finish
        /\ x.retired = cpu.retired + does.retire
        /\ x.idle = IF does.take + does.retire = 0
                    THEN Atmost(cpu.idle + 1, DeadlockCycle) ELSE 0
    BY <2>1 DEF Fed, CpuFields
  <2>3. /\ x.last = (IF does.take = 0 THEN cpu.last ELSE <<cpu.queue[does.take]>>)
        /\ x.queue = SubSeq(cpu.queue, does.take + 1, Len(cpu.queue))
    BY <2>1 DEF Fed, CpuFields
  <2>4. Ran(x, cpu)
    BY <1>1, <2>2 DEF Ran
  <2>5. cpu.queue \in Seq(Instructions) /\ cpu.last \in Seq(Instructions)
    BY DEF Fed
  <2>6. CASE does.take = 0
    <3>1. SubSeq(cpu.queue, 1, Len(cpu.queue)) = cpu.queue
      BY <2>5, SubSeqFull
    <3>2. x.last = cpu.last /\ x.queue = cpu.queue
      BY <2>3, <2>6, <3>1
    <3>3. Fed(repeat, trace, x)
      BY <2>2, <3>2 DEF Fed, Given
    <3>. QED BY <2>4, <3>3
  <2>7. CASE does.take # 0
    <3>1. does.take \in 1 .. Len(cpu.queue)
      BY <1>1, <2>5, <2>7
    <3>2. EndOf(repeat, <<cpu.queue[does.take]>> \o x.queue, Given(cpu))
      BY <2>3, <2>5, <3>1, RestGoesOn DEF Fed, Given
    <3>3. x.last = <<cpu.queue[does.take]>>
      BY <2>3, <2>7
    <3>4. EndOf(repeat, Given(x), Given(cpu))
      BY <3>2, <3>3 DEF Given
    <3>5. GoesOn(repeat, Given(x), x.reader)
      BY <2>2, <3>4 DEF GoesOn, Joined, EndOf, Fed
    <3>6. x.last \in Seq(Instructions) /\ Len(x.last) <= 1
      BY <2>5, <3>1, <3>3, ElementOfSeq
    <3>7. x.queue \in Seq(Instructions)
      <4>1. \A i \in does.take + 1 .. Len(cpu.queue) : cpu.queue[i] \in Instructions
        BY <1>1, <2>5, ElementOfSeq
      <4>2. does.take + 1 \in Int /\ Len(cpu.queue) \in Int
        BY <1>1, <2>5
      <4>. QED BY <2>3, <4>1, <4>2, SubSeqProperties
    <3>8. Fed(repeat, trace, x)
      BY <2>2, <3>4, <3>5, <3>6, <3>7 DEF Fed, EndOf
    <3>. QED BY <2>4, <3>8
  <2>. QED BY <2>6, <2>7
<1>. QED BY <1>2, <1>3
-----------------------------------------------------------------------------
(* The invariant of the loop *)

SimFields == {"repeat", "phase", "stalled", "aborted", "complete", "cpus"}

CpusOK(repeat, cpus) ==
    /\ DOMAIN cpus = SimCpus
    /\ \A c \in SimCpus : /\ Fed(repeat, Trace[c], cpus[c])
                          /\ cpus[c].retired \in Nat /\ cpus[c].begin \in Nat
                          /\ cpus[c].finish \in Nat /\ cpus[c].idle \in Nat

\* The count of the watchdog is the shortest time that a core stands still.
IdleFor(stalled, cpus) ==
    /\ stalled \in 0 .. DeadlockCycle
    /\ \A c \in SimCpus : cpus[c].idle >= stalled
    /\ \E c \in SimCpus : cpus[c].idle = stalled

AtLeastOne(length) == IF length = 0 THEN 1 ELSE length

AnyEof(repeat, cpus) == \E d \in SimCpus : TraceEof(repeat, cpus[d].reader)

\* A core that is not complete has not reached the length, one that is reached it in the
\* cycle that completed it.
Measured(length, repeat, complete, cpus) ==
    \A c \in SimCpus :
        IF complete[c]
        THEN /\ cpus[c].finish - cpus[c].begin < AtLeastOne(length) + Width
             /\ cpus[c].finish - cpus[c].begin >= length \/ AnyEof(repeat, cpus)
        ELSE cpus[c].retired - cpus[c].begin < AtLeastOne(length)

AllComplete(complete) == \A c \in SimCpus : complete[c]

LoopIInv ==
    /\ DOMAIN sim = SimFields /\ sim.repeat \in BOOLEAN /\ sim.aborted \in BOOLEAN
    /\ sim.phase \in Nat \ {0} /\ sim.complete \in [SimCpus -> BOOLEAN]
    /\ CpusOK(sim.repeat, sim.cpus)
    /\ IdleFor(sim.stalled, sim.cpus)
    /\ sim.aborted <=> sim.stalled = DeadlockCycle
    /\ ~sim.aborted /\ sim.phase <= Len(Lengths)
            => Measured(Lengths[sim.phase], sim.repeat, sim.complete, sim.cpus)
    /\ sim.aborted \/ sim.phase > Len(Lengths) => ~AllComplete(sim.complete)
    /\ AllComplete(sim.complete) => \A c \in SimCpus : sim.cpus[c].simEnd = sim.cpus[c].retired

LEMMA RanOK ==
    ASSUME NEW repeat, NEW cpus, CpusOK(repeat, cpus), NEW does, does \in AllMayDo(cpus),
           NEW ran, ran = [c \in SimCpus |-> Operated(c, cpus[c], does[c])]
    PROVE  CpusOK(repeat, ran) /\ \A c \in SimCpus : Ran(ran[c], cpus[c])
<1>1. ASSUME NEW c \in SimCpus
      PROVE  /\ Fed(repeat, Trace[c], ran[c]) /\ Ran(ran[c], cpus[c])
             /\ ran[c].retired \in Nat /\ ran[c].begin \in Nat
             /\ ran[c].finish \in Nat /\ ran[c].idle \in Nat
  <2>1. ran[c] = Operated(c, cpus[c], does[c])
    OBVIOUS
  <2>2. /\ Fed(repeat, Trace[c], cpus[c])
        /\ cpus[c].retired \in Nat /\ cpus[c].begin \in Nat
        /\ cpus[c].finish \in Nat /\ cpus[c].idle \in Nat
    BY DEF CpusOK
  <2>3. MayTake(cpus[c], does[c])
    <3>1. /\ does[c] \in [take : 0 .. InFlight, retire : 0 .. Width]
          /\ does[c].take \in {0, Atmost(Len(cpus[c].queue), InFlight - cpus[c].inflight)}
      BY DEF AllMayDo, MayDo
    <3>2. does[c].take \in Int /\ Len(cpus[c].queue) \in Nat
      BY <2>2, <3>1, LenProperties, LoopConstants DEF Fed
    <3>3. CASE does[c].take = 0
      BY <3>1, <3>2, <3>3 DEF MayTake
    <3>4. CASE does[c].take = Atmost(Len(cpus[c].queue), InFlight - cpus[c].inflight)
      <4>1. does[c].take <= Len(cpus[c].queue)
        BY <3>2, <3>4 DEF Atmost
      <4>. QED BY <3>1, <4>1 DEF MayTake
    <3>. QED BY <3>1, <3>3, <3>4
  <2>4. Fed(repeat, Trace[c], ran[c]) /\ Ran(ran[c], cpus[c])
    BY <2>1, <2>2, <2>3, OperatedIs
  <2>5. Atmost(cpus[c].idle + 1, DeadlockCycle) \in Nat
    BY <2>2, LoopConstants DEF Atmost
  <2>. QED BY <2>2, <2>4, <2>5, LoopConstants DEF Ran
<1>2. DOMAIN ran = SimCpus
  OBVIOUS
<1>. QED BY <1>1, <1>2 DEF CpusOK

LEMMA StalledOK ==
    ASSUME NEW s, NEW cpus, IdleFor(s.stalled, cpus), s.stalled < DeadlockCycle,
           NEW ran, \A c \in SimCpus : Ran(ran[c], cpus[c]),
           \A c \in SimCpus : cpus[c].idle \in Nat /\ ran[c].idle \in Nat
    PROVE  IdleFor(Stalled(s, ran), ran)
<1>. USE LoopConstants
<1>1. CASE \A c \in SimCpus : ran[c].idle > 0
  <2>1. Stalled(s, ran) = s.stalled + 1
    BY <1>1 DEF Stalled
  <2>2. \A c \in SimCpus : ran[c].idle = Atmost(cpus[c].idle + 1, DeadlockCycle)
    BY <1>1 DEF Ran
  <2>3. s.stalled \in Nat /\ s.stalled + 1 \in 0 .. DeadlockCycle
    BY DEF IdleFor
  <2>4. \A c \in SimCpus : ran[c].idle >= s.stalled + 1
    BY <2>2, <2>3 DEF IdleFor, Atmost
  <2>5. PICK c \in SimCpus : cpus[c].idle = s.stalled
    BY DEF IdleFor
  <2>6. ran[c].idle = s.stalled + 1
    BY <2>2, <2>3, <2>5 DEF Atmost
  <2>. QED BY <2>1, <2>3, <2>4, <2>6 DEF IdleFor
<1>2. CASE ~\A c \in SimCpus : ran[c].idle > 0
  <2>1. Stalled(s, ran) = 0
    BY <1>2 DEF Stalled
  <2>. QED BY <1>2, <2>1 DEF IdleFor
<1>. QED BY <1>1, <1>2

\* What reading the traces leaves of the cores
LEMMA FedOK ==
    ASSUME NEW repeat \in BOOLEAN, NEW ran, CpusOK(repeat, ran),
           NEW fed, fed = [c \in SimCpus |-> ReadTrace(repeat, ran[c], Trace[c])]
    PROVE  /\ CpusOK(repeat, fed)
           /\ \A c \in SimCpus : OnlyGiven(fed[c], ran[c])
           /\ AnyEof(repeat, ran) => AnyEof(repeat, fed)
<1>1. ASSUME NEW c \in SimCpus
      PROVE  /\ Fed(repeat, Trace[c], fed[c]) /\ OnlyGiven(fed[c], ran[c])
             /\ TraceEof(repeat, ran[c].reader) => fed[c] = ran[c]
  <2>1. fed[c] = ReadTrace(repeat, ran[c], Trace[c])
    OBVIOUS
  <2>2. Fed(repeat, Trace[c], ran[c]) /\ TraceOK(Trace[c])
    BY LoopConstants DEF CpusOK
  <2>. QED BY <2>1, <2>2, ReadTraceFed
<1>2. DOMAIN fed = SimCpus
  OBVIOUS
<1>3. CpusOK(repeat, fed)
  BY <1>1, <1>2 DEF CpusOK, OnlyGiven
<1>4. AnyEof(repeat, ran) => AnyEof(repeat, fed)
  BY <1>1 DEF AnyEof
<1>. QED BY <1>1, <1>3, <1>4

Ended(e, fed, done) ==
    \A c \in SimCpus :
        /\ e[c].reader = fed[c].reader /\ e[c].begin = fed[c].begin
        /\ e[c].retired = fed[c].retired /\ e[c].idle = fed[c].idle
        /\ e[c].finish = IF c \in done THEN fed[c].retired ELSE fed[c].finish
        /\ done # {} => e[c].simEnd = e[c].retired

LEMMA EndPhaseOK ==
    ASSUME NEW repeat, NEW fed, CpusOK(repeat, fed), NEW done, done \subseteq SimCpus
    PROVE  CpusOK(repeat, EndPhase(fed, done)) /\ Ended(EndPhase(fed, done), fed, done)
<1>1. CASE done = {}
  BY <1>1 DEF EndPhase, Ended
<1>2. CASE done # {}
  <2>. DEFINE e == EndPhase(fed, done)
  <2>1. e = [c \in SimCpus |->
               [fed[c] EXCEPT !.simEnd = fed[c].retired,
                              !.finish = IF c \in done THEN fed[c].retired ELSE @]]
    BY <1>2 DEF EndPhase
  <2>. HIDE DEF e
  <2>2. ASSUME NEW c \in SimCpus
        PROVE  /\ DOMAIN e[c] = CpuFields
               /\ e[c].reader = fed[c].reader /\ e[c].begin = fed[c].begin
               /\ e[c].retired = fed[c].retired /\ e[c].idle = fed[c].idle
               /\ e[c].finish = (IF c \in done THEN fed[c].retired ELSE fed[c].finish)
               /\ e[c].simEnd = e[c].retired
               /\ e[c].queue = fed[c].queue /\ e[c].last = fed[c].last
    <3>1. e[c] = [fed[c] EXCEPT !.simEnd = fed[c].retired,
                                !.finish = IF c \in done THEN fed[c].retired ELSE @]
      BY <2>1
    <3>2. DOMAIN fed[c] = CpuFields
      BY DEF CpusOK, Fed
    <3>. QED BY <3>1, <3>2 DEF CpuFields
  <2>3. \A c \in SimCpus : Fed(repeat, Trace[c], e[c])
    BY <2>2 DEF CpusOK, Fed, Given
  <2>4. CpusOK(repeat, e)
    <3>1. DOMAIN e = SimCpus
      BY <2>1
    <3>2. ASSUME NEW c \in SimCpus
          PROVE  /\ e[c].retired \in Nat /\ e[c].begin \in Nat
                 /\ e[c].finish \in Nat /\ e[c].idle \in Nat
      <4>1. /\ fed[c].retired \in Nat /\ fed[c].begin \in Nat
            /\ fed[c].finish \in Nat /\ fed[c].idle \in Nat
        BY DEF CpusOK
      <4>. QED BY <2>2, <4>1
    <3>. QED BY <2>3, <3>1, <3>2 DEF CpusOK
  <2>5. Ended(e, fed, done)
    BY <2>2 DEF Ended
  <2>. QED BY <2>4, <2>5 DEF e
<1>. QED BY <1>1, <1>2

LEMMA InitLoopIInv == SimInit => LoopIInv
<1>. SUFFICES ASSUME SimInit PROVE LoopIInv
  OBVIOUS
<1>. USE LoopConstants
<1>. DEFINE new == [reader |-> NewReader, queue |-> << >>, inflight |-> 0,
                    retired |-> 0, begin |-> 0, simEnd |-> 0, finish |-> 0,
                    leap |-> 0, idle |-> 0, last |-> << >>]
<1>1. PICK repeat \in BOOLEAN :
         sim = [repeat |-> repeat, phase |-> 1, stalled |-> 0, aborted |-> FALSE,
                complete |-> [c \in SimCpus |-> FALSE], cpus |-> [c \in SimCpus |-> new]]
  BY DEF SimInit
<1>2. /\ << >> \in Seq(Instructions) /\ Len(<< >>) = 0 /\ << >> \o << >> = << >>
  BY EmptySeq, ConcatEmptySeq
<1>3. ASSUME NEW c \in SimCpus PROVE Fed(repeat, Trace[c], new)
  <2>1. Chain(repeat, << >>)
    BY <1>2 DEF Chain
  <2>2. ReaderOK(repeat, Trace[c], NewReader)
    <3>1. DOMAIN NewReader = {"pos", "eof", "buffer"} /\ NewReader.pos = 0
          /\ NewReader.buffer = << >> /\ NewReader.eof \in BOOLEAN
      BY DEF NewReader
    <3>2. 0 \in 0 .. Len(Trace[c])
      BY DEF TraceOK
    <3>. QED BY <2>1, <3>1, <3>2 DEF ReaderOK
  <2>3. /\ DOMAIN new = CpuFields /\ new.queue = << >> /\ new.last = << >>
        /\ new.reader = NewReader
    BY DEF CpuFields
  <2>. HIDE DEF new
  <2>4. Given(new) = << >>
    BY <1>2, <2>3 DEF Given
  <2>5. GoesOn(repeat, << >>, NewReader)
    BY DEF GoesOn, Joined
  <2>. QED BY <1>2, <2>1, <2>2, <2>3, <2>4, <2>5 DEF Fed
<1>4. /\ new.retired = 0 /\ new.begin = 0 /\ new.finish = 0 /\ new.idle = 0
  OBVIOUS
<1>5. /\ DOMAIN sim = SimFields /\ sim.repeat = repeat /\ sim.phase = 1 /\ sim.stalled = 0
      /\ sim.complete = [c \in SimCpus |-> FALSE] /\ sim.cpus = [c \in SimCpus |-> new]
  BY <1>1 DEF SimFields
<1>6. ~sim.aborted /\ sim.aborted \in BOOLEAN
  BY <1>1
<1>. HIDE DEF new
<1>7. CpusOK(repeat, sim.cpus)
  BY <1>3, <1>4, <1>5 DEF CpusOK
<1>8. IdleFor(sim.stalled, sim.cpus)
  BY <1>4, <1>5 DEF IdleFor
<1>9. 1 <= Len(Lengths) => Lengths[1] \in Nat
  BY ElementOfSeq, LenProperties
<1>10. 1 <= Len(Lengths) => Measured(Lengths[1], repeat, sim.complete, sim.cpus)
  BY <1>4, <1>5, <1>9 DEF Measured, AtLeastOne
<1>11. ~AllComplete(sim.complete) /\ sim.complete \in [SimCpus -> BOOLEAN]
  BY <1>5 DEF AllComplete
<1>12. /\ sim.stalled # DeadlockCycle
       /\ sim.phase <= Len(Lengths)
              => Measured(Lengths[sim.phase], sim.repeat, sim.complete, sim.cpus)
       /\ CpusOK(sim.repeat, sim.cpus)
       /\ sim.repeat \in BOOLEAN /\ sim.phase \in Nat \ {0}
  BY <1>5, <1>7, <1>10
<1>. QED BY <1>5, <1>6, <1>8, <1>11, <1>12 DEF LoopIInv

LEMMA NextPhaseKeepsIInv ==
    ASSUME LoopIInv, NextPhase
    PROVE  LoopIInv'
<1>. USE LoopConstants
<1>. DEFINE cpus == BeginPhase(sim.cpus)
<1>1. /\ ~sim.aborted /\ sim.phase <= Len(Lengths)
      /\ sim' = [sim EXCEPT !.phase = @ + 1, !.stalled = 0,
                            !.complete = [c \in SimCpus |-> FALSE], !.cpus = BeginPhase(@)]
  BY DEF NextPhase
<1>2. /\ DOMAIN sim' = SimFields /\ sim'.repeat = sim.repeat /\ sim'.aborted = sim.aborted
      /\ sim'.phase = sim.phase + 1 /\ sim'.stalled = 0
      /\ sim'.complete = [c \in SimCpus |-> FALSE] /\ sim'.cpus = cpus
  BY <1>1 DEF LoopIInv, SimFields
<1>3. ASSUME NEW c \in SimCpus
      PROVE  /\ DOMAIN cpus[c] = CpuFields
             /\ cpus[c].reader = sim.cpus[c].reader /\ cpus[c].queue = sim.cpus[c].queue
             /\ cpus[c].last = sim.cpus[c].last /\ cpus[c].retired = sim.cpus[c].retired
             /\ cpus[c].begin = sim.cpus[c].retired
             /\ cpus[c].finish = 0 /\ cpus[c].idle = 0
  <2>1. cpus[c] = [sim.cpus[c] EXCEPT !.begin = sim.cpus[c].retired,
                                      !.simEnd = 0, !.finish = 0, !.idle = 0]
    BY DEF BeginPhase
  <2>2. DOMAIN sim.cpus[c] = CpuFields
    BY DEF LoopIInv, CpusOK, Fed
  <2>. HIDE DEF cpus
  <2>. QED BY <2>1, <2>2 DEF CpuFields
<1>4. DOMAIN cpus = SimCpus
  BY DEF BeginPhase
<1>. HIDE DEF cpus
<1>5. \A c \in SimCpus : Fed(sim.repeat, Trace[c], cpus[c])
  BY <1>3 DEF LoopIInv, CpusOK, Fed, Given
<1>6. \A c \in SimCpus : cpus[c].retired \in Nat /\ cpus[c].begin \in Nat
  BY <1>3 DEF LoopIInv, CpusOK
<1>7. CpusOK(sim.repeat, cpus)
  BY <1>3, <1>4, <1>5, <1>6 DEF CpusOK
<1>8. IdleFor(0, cpus)
  BY <1>3 DEF IdleFor
<1>9. ~AllComplete(sim'.complete) /\ sim'.complete \in [SimCpus -> BOOLEAN]
  BY <1>2 DEF AllComplete
<1>10. ASSUME sim.phase + 1 <= Len(Lengths)
       PROVE  Measured(Lengths[sim.phase + 1], sim.repeat, sim'.complete, cpus)
  <2>1. Len(Lengths) \in Nat /\ sim.phase \in Nat
    BY LenProperties DEF LoopIInv
  <2>2. Lengths[sim.phase + 1] \in Nat
    BY <1>10, <2>1, ElementOfSeq
  <2>3. \A c \in SimCpus : cpus[c].retired - cpus[c].begin = 0
    BY <1>3, <1>6
  <2>4. AtLeastOne(Lengths[sim.phase + 1]) > 0
    BY <2>2 DEF AtLeastOne
  <2>. QED BY <1>2, <2>3, <2>4 DEF Measured
<1>11. sim.phase + 1 \in Nat \ {0}
  BY DEF LoopIInv
<1>12. ~sim'.aborted /\ sim'.aborted \in BOOLEAN /\ sim'.repeat \in BOOLEAN
  BY <1>1, <1>2 DEF LoopIInv
<1>. QED BY <1>2, <1>7, <1>8, <1>9, <1>10, <1>11, <1>12 DEF LoopIInv

LEMMA CycleKeepsIInv ==
    ASSUME LoopIInv, Cycle
    PROVE  LoopIInv'
<1>. USE LoopConstants
<1>1. PICK does \in AllMayDo(sim.cpus) :
         LET ran  == [c \in SimCpus |-> Operated(c, sim.cpus[c], does[c])]
             idle == Stalled(sim, ran)
             fed  == [c \in SimCpus |-> ReadTrace(sim.repeat, ran[c], Trace[c])]
             now  == NowComplete(sim, fed)
         IN  IF idle >= DeadlockCycle
             THEN sim' = [sim EXCEPT !.cpus = ran, !.stalled = idle, !.aborted = TRUE]
             ELSE sim' = [sim EXCEPT !.stalled = idle, !.complete = now,
                          !.cpus = EndPhase(fed, {c \in SimCpus : now[c] # sim.complete[c]})]
  BY DEF Cycle
<1>. DEFINE ran  == [c \in SimCpus |-> Operated(c, sim.cpus[c], does[c])]
            idle == Stalled(sim, ran)
            fed  == [c \in SimCpus |-> ReadTrace(sim.repeat, ran[c], Trace[c])]
            now  == NowComplete(sim, fed)
            done == {c \in SimCpus : now[c] # sim.complete[c]}
            end  == EndPhase(fed, done)
<1>2. /\ ~sim.aborted /\ sim.phase <= Len(Lengths) /\ ~AllComplete(sim.complete)
      /\ sim.phase \in Nat \ {0} /\ sim.stalled < DeadlockCycle
      /\ Measured(Lengths[sim.phase], sim.repeat, sim.complete, sim.cpus)
      /\ CpusOK(sim.repeat, sim.cpus) /\ IdleFor(sim.stalled, sim.cpus)
      /\ sim.repeat \in BOOLEAN /\ sim.complete \in [SimCpus -> BOOLEAN]
      /\ DOMAIN sim = SimFields
  BY DEF Cycle, LoopIInv, IdleFor, AllComplete
<1>3. CpusOK(sim.repeat, ran) /\ \A c \in SimCpus : Ran(ran[c], sim.cpus[c])
  BY <1>2, RanOK
<1>4. /\ CpusOK(sim.repeat, fed) /\ \A c \in SimCpus : OnlyGiven(fed[c], ran[c])
      /\ AnyEof(sim.repeat, ran) => AnyEof(sim.repeat, fed)
  <2>. HIDE DEF ran
  <2>. QED BY <1>2, <1>3, FedOK
<1>5. IdleFor(idle, ran)
  <2>. HIDE DEF ran
  <2>. QED BY <1>2, <1>3, StalledOK DEF CpusOK
<1>6. CASE idle >= DeadlockCycle
  <2>1. sim' = [sim EXCEPT !.cpus = ran, !.stalled = idle, !.aborted = TRUE]
    BY <1>1, <1>6
  <2>. HIDE DEF ran, idle
  <2>2. /\ DOMAIN sim' = SimFields /\ sim'.repeat = sim.repeat /\ sim'.phase = sim.phase
        /\ sim'.stalled = idle /\ sim'.complete = sim.complete /\ sim'.cpus = ran
    BY <1>2, <2>1 DEF SimFields
  <2>3. sim'.aborted /\ sim'.aborted \in BOOLEAN
    BY <1>2, <2>1 DEF SimFields
  <2>4. idle = DeadlockCycle
    BY <1>5, <1>6 DEF IdleFor
  <2>. QED BY <1>2, <1>3, <1>5, <2>2, <2>3, <2>4 DEF LoopIInv
<1>7. CASE ~(idle >= DeadlockCycle)
  <2>1. sim' = [sim EXCEPT !.stalled = idle, !.complete = now, !.cpus = end]
    BY <1>1, <1>7
  <2>2. CpusOK(sim.repeat, end) /\ Ended(end, fed, done)
    <3>. HIDE DEF fed, now
    <3>. QED BY <1>4, EndPhaseOK
  <2>3. /\ now \in [SimCpus -> BOOLEAN]
        /\ \A c \in SimCpus :
              now[c] <=> \/ sim.complete[c]
                         \/ AnyEof(sim.repeat, fed)
                         \/ fed[c].retired - fed[c].begin >= Lengths[sim.phase]
    <3>. HIDE DEF fed
    <3>. QED BY DEF NowComplete, AnyEof
  <2>. HIDE DEF ran, idle, fed, now, end
  <2>4. /\ DOMAIN sim' = SimFields /\ sim'.repeat = sim.repeat /\ sim'.phase = sim.phase
        /\ sim'.stalled = idle /\ sim'.complete = now /\ sim'.cpus = end
        /\ sim'.aborted = sim.aborted
    BY <1>2, <2>1 DEF SimFields
  <2>5. \A c \in SimCpus : end[c].idle = ran[c].idle
    BY <1>4, <2>2 DEF Ended, OnlyGiven
  <2>6. IdleFor(idle, end) /\ idle # DeadlockCycle
    BY <1>5, <1>7, <2>5 DEF IdleFor
  <2>7. AnyEof(sim.repeat, fed) => AnyEof(sim.repeat, end)
    BY <2>2 DEF AnyEof, Ended
  <2>8. AnyEof(sim.repeat, sim.cpus) => AnyEof(sim.repeat, fed)
    BY <1>3, <1>4 DEF AnyEof, Ran
  <2>9. Lengths[sim.phase] \in Nat
    <3>1. sim.phase \in 1 .. Len(Lengths)
      BY <1>2, LenProperties
    <3>. QED BY <3>1, ElementOfSeq
  <2>10. ASSUME NEW c \in SimCpus
         PROVE  IF now[c]
                THEN /\ end[c].finish - end[c].begin < AtLeastOne(Lengths[sim.phase]) + Width
                     /\ \/ end[c].finish - end[c].begin >= Lengths[sim.phase]
                        \/ AnyEof(sim.repeat, end)
                ELSE end[c].retired - end[c].begin < AtLeastOne(Lengths[sim.phase])
    <3>1. /\ sim.cpus[c].retired \in Nat /\ sim.cpus[c].begin \in Nat
          /\ sim.cpus[c].finish \in Nat /\ fed[c].retired \in Nat
      BY <1>2, <1>4 DEF CpusOK
    <3>2. /\ fed[c].retired \in sim.cpus[c].retired .. sim.cpus[c].retired + Width
          /\ fed[c].begin = sim.cpus[c].begin /\ fed[c].finish = sim.cpus[c].finish
      BY <1>3, <1>4 DEF Ran, OnlyGiven
    <3>3. /\ end[c].retired = fed[c].retired /\ end[c].begin = sim.cpus[c].begin
          /\ end[c].finish = IF c \in done THEN fed[c].retired ELSE sim.cpus[c].finish
      BY <2>2, <3>2 DEF Ended
    <3>4. AtLeastOne(Lengths[sim.phase]) \in Nat
          /\ AtLeastOne(Lengths[sim.phase]) >= Lengths[sim.phase]
      BY <2>9 DEF AtLeastOne
    <3>5. CASE sim.complete[c]
      <4>1. now[c] /\ c \notin done
        BY <1>2, <2>3, <3>5
      <4>2. /\ sim.cpus[c].finish - sim.cpus[c].begin < AtLeastOne(Lengths[sim.phase]) + Width
            /\ \/ sim.cpus[c].finish - sim.cpus[c].begin >= Lengths[sim.phase]
               \/ AnyEof(sim.repeat, sim.cpus)
        BY <1>2, <3>5 DEF Measured
      <4>. QED BY <2>7, <2>8, <3>3, <4>1, <4>2
    <3>6. CASE ~sim.complete[c] /\ now[c]
      <4>1. c \in done
        BY <3>6
      <4>2. sim.cpus[c].retired - sim.cpus[c].begin < AtLeastOne(Lengths[sim.phase])
        BY <1>2, <3>6 DEF Measured
      <4>3. end[c].finish - end[c].begin < AtLeastOne(Lengths[sim.phase]) + Width
        BY <3>1, <3>2, <3>3, <3>4, <4>1, <4>2
      <4>4. \/ end[c].finish - end[c].begin >= Lengths[sim.phase]
            \/ AnyEof(sim.repeat, end)
        BY <2>3, <2>7, <3>2, <3>3, <3>6, <4>1
      <4>. QED BY <3>6, <4>3, <4>4
    <3>7. CASE ~now[c]
      <4>1. ~(fed[c].retired - fed[c].begin >= Lengths[sim.phase])
        BY <2>3, <3>7
      <4>2. end[c].retired - end[c].begin < AtLeastOne(Lengths[sim.phase])
        BY <2>9, <3>1, <3>2, <3>3, <3>4, <4>1
      <4>. QED BY <3>7, <4>2
    <3>. QED BY <3>5, <3>6, <3>7
  <2>11. Measured(Lengths[sim.phase], sim.repeat, now, end)
    BY <2>10 DEF Measured
  <2>12. AllComplete(now) => \A c \in SimCpus : end[c].simEnd = end[c].retired
    <3>1. AllComplete(now) => done # {}
      BY <1>2 DEF AllComplete
    <3>. QED BY <2>2, <3>1 DEF Ended
  <2>. QED BY <1>2, <2>2, <2>3, <2>4, <2>6, <2>11, <2>12 DEF LoopIInv
<1>. QED BY <1>6, <1>7

LEMMA LoopAlways == SimSpec => []LoopIInv
<1>1. LoopIInv /\ [SimNext]_sim => LoopIInv'
  <2>1. LoopIInv /\ UNCHANGED sim => LoopIInv'
    BY DEF LoopIInv
  <2>. QED BY <2>1, CycleKeepsIInv, NextPhaseKeepsIInv DEF SimNext
<1>. QED BY <1>1, InitLoopIInv, PTL DEF SimSpec

LEMMA IInvImpliesLoopSound == LoopIInv => LoopSound
<1>. SUFFICES ASSUME LoopIInv PROVE LoopSound
  OBVIOUS
<1>. USE LoopConstants
<1>1. RoiIsLength
  <2>1. ASSUME sim.phase <= Len(Lengths), \A c \in SimCpus : sim.complete[c]
        PROVE  /\ Measured(Lengths[sim.phase], sim.repeat, sim.complete, sim.cpus)
               /\ \A c \in SimCpus : sim.cpus[c].simEnd = sim.cpus[c].retired
    BY <2>1 DEF LoopIInv, AllComplete
  <2>. QED BY <2>1 DEF RoiIsLength, Measured, AtLeastOne, AnyEof
<1>2. TargetIsNext
  <2>1. \A c \in SimCpus : Chain(sim.repeat, sim.cpus[c].last \o sim.cpus[c].queue)
    BY DEF LoopIInv, CpusOK, Fed, Given
  <2>. QED BY <2>1 DEF TargetIsNext, Chain, Follows
<1>3. WatchdogIsRight
  BY DEF LoopIInv, IdleFor, WatchdogIsRight
<1>. QED BY <1>1, <1>2, <1>3 DEF LoopSound

\* For any traces, clocks and lengths: a phase measures what it was asked to, with less
\* than a cycle's retirement more, unless a trace ended (RoiIsLength); a taken branch comes
\* with the address of the instruction after it, also across a refill (TargetIsNext); and
\* the watchdog stops only what stands still in every core (WatchdogIsRight).
THEOREM LoopIsSound == SimSpec => []LoopSound
BY LoopAlways, IInvImpliesLoopSound, PTL
=============================================================================
