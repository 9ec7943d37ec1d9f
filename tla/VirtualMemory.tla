--------------------------- MODULE VirtualMemory ---------------------------
(***************************************************************************)
(* VirtualMemory (src/vmem.cc): the maps from virtual pages to physical    *)
(* frames and from parts of the page table to pages of memory, both filled *)
(* on demand and shared by all cores.  Frames are handed out in order.     *)
(* Pages of the page table may be smaller than a frame; a frame is taken   *)
(* for them as soon as the one before is full, before it is needed.        *)
(*                                                                         *)
(* Addresses are counted in frames, and in a frame in slots of the size of *)
(* a page-table page.  The offset in a page goes through unchanged and is  *)
(* left out.  The state is one record, so that the page-table walker can   *)
(* make several calls in one step.                                         *)
(***************************************************************************)
EXTENDS Naturals, FiniteSets

CONSTANTS
    Cpus,
    Vpages,         \* virtual page numbers
    PtLevels,       \* pt_levels
    Fanout,         \* entries of a page-table page: pte_page_size / PTE_BYTES
    SlotsPerFrame,  \* PAGE_SIZE / pte_page_size
    FirstFrame,     \* VMEM_RESERVE_CAPACITY / PAGE_SIZE
    LastFrame       \* last_ppage / PAGE_SIZE: the first frame out of memory

\* The reserve is at least one page, and the constructor asserts that memory
\* is larger.  A page-table page is no larger than a frame.
ASSUME MemoryAssumption ==
    /\ Vpages \subseteq Nat
    /\ PtLevels \in Nat \ {0}
    /\ Fanout \in Nat \ {0}
    /\ SlotsPerFrame \in Nat \ {0}
    /\ FirstFrame \in Nat \ {0}
    /\ LastFrame \in Nat
    /\ FirstFrame < LastFrame

VARIABLE vm

\* vaddr >> shamt(level), and the index get_offset takes from it
Region(vpage, level) == vpage \div (Fanout ^ (level - 1))
Offset(vpage, level) == Region(vpage, level) % Fanout

PageKeys  == Cpus \X Vpages
Levels    == 1 .. PtLevels
TableKey(cpu, vpage, level) == <<cpu, Region(vpage, level), level>>
TableKeys == {TableKey(c, v, l) : c \in Cpus, v \in Vpages, l \in Levels}

NoSlot == <<0, 0>>

NewMemory ==
    [pages     |-> [k \in PageKeys |-> 0],          \* vpage_to_ppage_map
     tables    |-> [k \in TableKeys |-> NoSlot],    \* page_table
     nextFrame |-> FirstFrame,                      \* next_ppage
     nextSlot  |-> NoSlot,                          \* next_pte_page
     aborted   |-> FALSE]

Aborted(m) == [pages |-> m.pages, tables |-> m.tables, nextFrame |-> m.nextFrame,
               nextSlot |-> m.nextSlot, aborted |-> TRUE]

\* The assertion of ppage_front.
FrameLeft(m) == m.nextFrame < LastFrame

\* Mutated form of VaToPa: the page is mapped without popping its frame.
VaToPaKeepsFrame(m, key) ==
    IF ~FrameLeft(m) THEN Aborted(m)
    ELSE [pages     |-> [m.pages EXCEPT ![key] = IF @ = 0 THEN m.nextFrame ELSE @],
          tables    |-> m.tables,
          nextFrame |-> m.nextFrame,
          nextSlot  |-> m.nextSlot,
          aborted   |-> FALSE]

\* va_to_pa: ppage_front is evaluated, and asserts, even for a mapped page.
VaToPa(m, key) ==
    IF ~FrameLeft(m) THEN Aborted(m)
    ELSE IF m.pages[key] # 0 THEN m
    ELSE [pages     |-> [m.pages EXCEPT ![key] = m.nextFrame],
          tables    |-> m.tables,
          nextFrame |-> m.nextFrame + 1,
          nextSlot  |-> m.nextSlot,
          aborted   |-> FALSE]

\* next_pte_page moves to the start of a fresh frame.
FreshFrame(m) ==
    IF ~FrameLeft(m) THEN Aborted(m)
    ELSE [pages     |-> m.pages,
          tables    |-> m.tables,
          nextFrame |-> m.nextFrame + 1,
          nextSlot  |-> <<m.nextFrame, 0>>,
          aborted   |-> FALSE]

\* Mutated form of NextSlot: the test for the end of the frame is one late.
NextSlotLate(m) ==
    IF m.nextSlot[2] = SlotsPerFrame THEN FreshFrame(m)
    ELSE [m EXCEPT !.nextSlot = <<@[1], @[2] + 1>>]

\* Mutated form of NextSlot: the next page is not moved on.
NextSlotSame(m) == IF m.nextSlot[2] + 1 = SlotsPerFrame THEN FreshFrame(m) ELSE m

\* The page-table page after the one just given.
NextSlot(m) ==
    IF m.nextSlot[2] + 1 = SlotsPerFrame THEN FreshFrame(m)
    ELSE [pages     |-> m.pages,
          tables    |-> m.tables,
          nextFrame |-> m.nextFrame,
          nextSlot  |-> <<m.nextSlot[1], m.nextSlot[2] + 1>>,
          aborted   |-> FALSE]

TableGiven(m, key) ==
    NextSlot([pages     |-> m.pages,
              tables    |-> [m.tables EXCEPT ![key] = m.nextSlot],
              nextFrame |-> m.nextFrame,
              nextSlot  |-> m.nextSlot,
              aborted   |-> FALSE])

\* get_pte_pa: the first call of all takes the first frame.
GetPtePa(m, key) ==
    LET ready == IF m.nextSlot = NoSlot THEN FreshFrame(m) ELSE m
    IN  IF ready.aborted \/ ready.tables[key] # NoSlot THEN ready
        ELSE TableGiven(ready, key)

Init == vm = NewMemory

Next ==
    /\ ~vm.aborted
    /\ \/ \E key \in PageKeys : vm' = VaToPa(vm, key)
       \/ \E key \in TableKeys : vm' = GetPtePa(vm, key)

Spec == Init /\ [][Next]_vm
-----------------------------------------------------------------------------
\* The maps have their types, and the allocation pointers stay in their bounds.
TypeOK ==
    vm \in [pages     : [PageKeys -> Nat],
            tables    : [TableKeys -> Nat \X Nat],
            nextFrame : FirstFrame .. LastFrame,
            nextSlot  : Nat \X (0 .. SlotsPerFrame - 1),
            aborted   : BOOLEAN]

\* No two virtual pages, of one core or of several, share a frame, no two pages
\* of the page table share a slot, and no frame holds both: whatever order
\* va_to_pa and get_pte_pa take frames in from the same pointer.
NothingShared ==
    /\ \A j, k \in PageKeys : vm.pages[j] = vm.pages[k] /\ vm.pages[k] # 0 => j = k
    /\ \A j, k \in TableKeys :
          vm.tables[j] = vm.tables[k] /\ vm.tables[k] # NoSlot => j = k
    /\ \A j \in PageKeys, k \in TableKeys :
          vm.pages[j] # 0 => vm.pages[j] # vm.tables[k][1]

\* Everything handed out lies in memory, above the reserve.
InMemory ==
    /\ \A k \in PageKeys : vm.pages[k] \in {0} \cup FirstFrame .. LastFrame - 1
    /\ \A k \in TableKeys :
          vm.tables[k] # NoSlot =>
            /\ vm.tables[k][1] \in FirstFrame .. LastFrame - 1
            /\ vm.tables[k][2] \in 0 .. SlotsPerFrame - 1

\* No frame is lost: those taken are the frames of the mapped pages, those
\* filled with page-table pages, and the one being filled.
NoFrameLost ==
    LET mapped == {k \in PageKeys : vm.pages[k] # 0}
        given  == {k \in TableKeys : vm.tables[k] # NoSlot}
    IN  ~vm.aborted =>
          vm.nextFrame - FirstFrame =
              Cardinality(mapped) +
              (IF vm.nextSlot = NoSlot THEN 0
               ELSE Cardinality(given) \div SlotsPerFrame + 1)

Owners == INSTANCE FrameOwnership
            WITH pages <- vm.pages, tables <- vm.tables,
                 Frames <- FirstFrame .. LastFrame - 1,
                 Slots <- 0 .. SlotsPerFrame - 1

\* Whatever the order of the calls, the maps only ever give free places away and
\* never take one back (va_to_pa, get_pte_pa).
ImplementsOwnership == Owners!OwnerSpec
=============================================================================
