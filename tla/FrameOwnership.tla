--------------------------- MODULE FrameOwnership ---------------------------
(***************************************************************************)
(* What VirtualMemory promises its callers, without free lists or          *)
(* penalties: every virtual page and every page of the page table is given *)
(* a place in memory once and for good.  A frame given to a virtual page   *)
(* is given to nothing else; a frame of page-table pages may hold several, *)
(* each in a slot of its own.                                              *)
(***************************************************************************)
EXTENDS Naturals

CONSTANTS
    PageKeys, TableKeys,
    Frames,     \* the frames of memory, without 0
    Slots       \* the slots of a frame

VARIABLES
    pages,      \* frame of a virtual page, or 0
    tables      \* <<frame, slot>> of a page-table page, or <<0, 0>>

ownerVars == <<pages, tables>>

NoSlot == <<0, 0>>

OwnerInit ==
    /\ pages = [k \in PageKeys |-> 0]
    /\ tables = [k \in TableKeys |-> NoSlot]

HoldsPage(frame)  == \E k \in PageKeys : pages[k] = frame
HoldsTable(frame) == \E k \in TableKeys : tables[k][1] = frame

GivePage(k, frame) ==
    /\ pages[k] = 0
    /\ ~HoldsPage(frame) /\ ~HoldsTable(frame)
    /\ pages' = [pages EXCEPT ![k] = frame]
    /\ UNCHANGED tables

GiveTable(k, frame, slot) ==
    /\ tables[k] = NoSlot
    /\ ~HoldsPage(frame)
    /\ \A j \in TableKeys : tables[j] # <<frame, slot>>
    /\ tables' = [tables EXCEPT ![k] = <<frame, slot>>]
    /\ UNCHANGED pages

OwnerNext ==
    \/ \E k \in PageKeys, frame \in Frames : GivePage(k, frame)
    \/ \E k \in TableKeys, frame \in Frames, slot \in Slots : GiveTable(k, frame, slot)

OwnerSpec == OwnerInit /\ [][OwnerNext]_ownerVars
=============================================================================
