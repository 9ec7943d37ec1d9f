--------------------------- MODULE AheadTage_proofs ---------------------------
(***************************************************************************)
(* For every InFlight, Distance, IdMod and set of addresses: the slots and *)
(* the delay queue of AheadTage hold the same predictions, an answer is    *)
(* picked by the outcomes of exactly the branches between the one that     *)
(* made it and the one that uses it, and the two together implement        *)
(* AheadOracle.                                                            *)
(***************************************************************************)
EXTENDS AheadTage

\* The oldest branch the queue may hold an entry for, and the number of entries
\* it holds between two calls.
First   == IF branches < Distance THEN Distance ELSE branches
Waiting == branches + Distance - First

\* The ids follow the branches, and no call but the one that aborts is made
\* with an id of a wrapped window.
IdsFollowBranches ==
    /\ buf.readId = branches
    /\ buf.allocId = AddId(branches, Distance)
    /\ branches + Distance <= IdMod
    /\ state = "PREDICTED" => /\ branches + Distance < IdMod
                              /\ id = branches
                              /\ lastIp \in AheadPcs

\* A slot in use holds the prediction its queue entry was generated with; the
\* others are clear.
SlotsMatchQueue ==
    \A k \in Index :
        LET s == buf.slot[PhysicalIndex(branches + k)]
            inUse == \/ k < Distance /\ branches + k >= Distance
                     \/ k = Distance /\ state = "PREDICTED"
        IN  /\ s = Empty \/ inUse
            /\ inUse => /\ s.valid /\ ~s.updated
                        /\ s.gen = queue[branches + k - First + 1].gen
                        /\ k = Distance => s.gen.pc = lastIp

\* The hash an answer for the current branch is picked by.
Gap == [j \in 1 .. Distance |-> branches - j]

\* The answer the current branch has to get.
Consulted ==
    IF branches < Distance THEN None
    ELSE [gen |-> At(buf, branches).gen, hash |-> Gap]

\* It got that answer, and its slot remembers the hash.
ConsultedIsDue ==
    state = "PREDICTED" =>
        /\ consulted = Consulted
        /\ branches >= Distance => At(buf, branches).hash = Gap

\* No assertion fails before the ids run out.
AbortsOnlyWhenIdsRunOut == aborted => branches + Distance >= IdMod

\* The inductive invariant.
IInv ==
    /\ TypeOK
    /\ IdsFollowBranches
    /\ QueueIsWindow
    /\ SlotsMatchQueue
    /\ ConsultedIsDue
    /\ AbortsOnlyWhenIdsRunOut

-----------------------------------------------------------------------------
\* The shape of the window: how First and Waiting move with the branches.
LEMMA WindowShape ==
    ASSUME branches \in Nat
    PROVE  /\ First \in Nat /\ Waiting \in Nat
           /\ Waiting = IF branches < Distance THEN branches ELSE Distance
           /\ First + Waiting = branches + Distance
           /\ First >= Distance /\ First >= branches
           /\ branches >= Distance => First = branches
BY CapacityFacts DEF First, Waiting

\* initialize_branch_predictor establishes the inductive invariant.
LEMMA InitIInv == Init => IInv
<1>. SUFFICES ASSUME Init PROVE IInv
  OBVIOUS
<1>. USE CapacityFacts DEF Init, NewBuffer
<1>1. TypeOK
  <2>1. Empty \in Slots
    BY DEF Empty, Slots
  <2>2. Distance \in Ids /\ 0 \in Ids
    BY DEF Ids
  <2>3. queue \in Seq(Entries)
    BY EmptySeq
  <2>. QED BY <2>1, <2>2, <2>3 DEF TypeOK
<1>2. IdsFollowBranches
  BY AddIdFacts DEF IdsFollowBranches
<1>3. QueueIsWindow
  BY DEF QueueIsWindow
<1>4. SlotsMatchQueue
  BY IndexFacts DEF SlotsMatchQueue, Index
<1>5. ConsultedIsDue /\ AbortsOnlyWhenIdsRunOut
  BY DEF ConsultedIsDue, AbortsOnlyWhenIdsRunOut
<1>. QED BY <1>1, <1>2, <1>3, <1>4, <1>5 DEF IInv

\* The window of ids has not wrapped as long as Distance more ids are left.
LEMMA WindowNotWrapped ==
    ASSUME IInv
    PROVE  /\ branches + Distance < IdMod =>
                /\ AddId(branches, Distance) = branches + Distance
                /\ InBuffer(buf, branches)
                /\ InBuffer(buf, branches + Distance)
           /\ InBuffer(buf, AddId(branches, Distance)) =>
                branches + Distance < IdMod
<1>. USE CapacityFacts
<1>0. branches \in Nat /\ IdsFollowBranches
  BY DEF IInv, TypeOK
<1>1. ASSUME branches + Distance < IdMod
      PROVE  /\ AddId(branches, Distance) = branches + Distance
             /\ InBuffer(buf, branches)
             /\ InBuffer(buf, branches + Distance)
  <2>1. AddId(branches, Distance) = branches + Distance
    BY <1>0, <1>1, AddIdFacts
  <2>. QED BY <2>1, <1>0 DEF InBuffer, IdsFollowBranches
<1>2. ASSUME branches + Distance = IdMod
      PROVE  ~InBuffer(buf, AddId(branches, Distance))
  <2>1. AddId(branches, Distance) = 0
    BY <1>0, <1>2, AddIdFull
  <2>2. branches > 0
    BY <1>0, <1>2 DEF Capacity
  <2>. QED BY <2>1, <2>2, <1>0 DEF InBuffer, IdsFollowBranches
<1>3. branches + Distance <= IdMod
  BY <1>0 DEF IdsFollowBranches
<1>. QED BY <1>0, <1>1, <1>2, <1>3

\* The queue as a window: its length, its entries, and its two ends.
LEMMA QueueFacts ==
    ASSUME IInv
    PROVE  /\ queue \in Seq(Entries)
           /\ Len(queue) = Waiting + (IF state = "PREDICTED" THEN 1 ELSE 0)
           /\ \A k \in 1 .. Len(queue) :
                 /\ queue[k].branchId = First + k - 1
                 /\ queue[k].gen \in Origins
                 /\ queue[k].gen.at = First + k - 1 - Distance
                 /\ queue[k].outcome =
                       IF First + k - 1 - Distance < branches
                       THEN First + k - 1 - Distance ELSE None
<1>1. branches \in Nat /\ queue \in Seq(Entries) /\ QueueIsWindow
  BY DEF IInv, TypeOK
<1>2. Len(queue) = Waiting + (IF state = "PREDICTED" THEN 1 ELSE 0)
  <2>1. Len(queue) = branches + Distance - First
                        + (IF state = "PREDICTED" THEN 1 ELSE 0)
    <3>1. branches + Distance - First + (IF state = "PREDICTED" THEN 1 ELSE 0) \in Int
      BY <1>1, CapacityFacts DEF First
    <3>. QED BY <1>1, <3>1, CapacityFacts DEF QueueIsWindow, First
  <2>. QED BY <2>1 DEF Waiting
<1>3. ASSUME NEW k \in 1 .. Len(queue)
      PROVE  /\ queue[k].branchId = First + k - 1
             /\ queue[k].gen.at = First + k - 1 - Distance
             /\ queue[k].outcome =
                   IF First + k - 1 - Distance < branches
                   THEN First + k - 1 - Distance ELSE None
  BY <1>1, <1>3 DEF QueueIsWindow, First
<1>4. ASSUME NEW k \in 1 .. Len(queue) PROVE queue[k].gen \in Origins
  <2>1. queue[k] \in Entries
    BY <1>1, ElementOfSeq
  <2>. QED BY <2>1 DEF Entries
<1>. QED BY <1>1, <1>2, <1>3, <1>4

\* The instruction before the one being predicted was no branch, so its slot
\* is not retired: predict_branch works on the buffer as it stands, and on the
\* queue without the entry the instruction appended.
LEMMA NothingToRetire ==
    ASSUME IInv
    PROVE  /\ ~At(buf, branches).updated
           /\ At(buf, branches) \in Slots
           /\ At(buf, branches + Distance) \in Slots
           /\ ~At(buf, branches + Distance).updated
           /\ At(buf, branches).valid <=> branches >= Distance
           /\ branches >= Distance =>
                 /\ At(buf, branches).gen \in Origins
                 /\ At(buf, branches).gen.at = branches - Distance
<1>. USE CapacityFacts
<1>1. branches \in Nat /\ buf.slot \in [Index -> Slots] /\ SlotsMatchQueue
  BY DEF IInv, TypeOK
<1>2. 0 \in Index /\ Distance \in Index /\ branches + 0 = branches /\ 0 # Distance
  BY <1>1 DEF Index
<1>3. PhysicalIndex(branches) \in Index /\ PhysicalIndex(branches + Distance) \in Index
  BY <1>1, IndexFacts
<1>4. \A k \in Index : ~buf.slot[PhysicalIndex(branches + k)].updated
  BY <1>1 DEF SlotsMatchQueue, Empty
<1>5. /\ branches < Distance => At(buf, branches) = Empty
      /\ branches >= Distance =>
            At(buf, branches).valid /\ At(buf, branches).gen = queue[branches - First + 1].gen
  <2>1. branches + 0 - First + 1 = branches - First + 1
    BY <1>1, WindowShape
  <2>. QED BY <1>1, <1>2, <2>1 DEF SlotsMatchQueue, At
<1>6. ASSUME branches >= Distance
      PROVE  /\ queue[branches - First + 1].gen \in Origins
             /\ queue[branches - First + 1].gen.at = branches - Distance
  <2>1. branches - First + 1 = 1 /\ First + 1 - 1 - Distance = branches - Distance
    BY <1>1, <1>6, WindowShape
  <2>2. 1 \in 1 .. Len(queue)
    BY <1>1, <1>6, WindowShape, QueueFacts
  <2>. QED BY <2>1, <2>2, QueueFacts
<1>7. At(buf, branches) \in Slots /\ At(buf, branches + Distance) \in Slots
  BY <1>1, <1>3 DEF At
<1>8. ~At(buf, branches).updated /\ ~At(buf, branches + Distance).updated
  BY <1>2, <1>4 DEF At
<1>9. At(buf, branches).valid <=> branches >= Distance
  BY <1>1, <1>5 DEF Empty
<1>. QED BY <1>5, <1>6, <1>7, <1>8, <1>9

-----------------------------------------------------------------------------
\* What predict_branch does: the entry a non-branch left makes room for the new
\* one, the slot furthest ahead is written, and the current branch gets the
\* answer it has to get, whose hash its slot remembers.
Predicted(ip) ==
    /\ branches + Distance < IdMod
    /\ UNCHANGED <<branches, trained, aborted>>
    /\ state' = "PREDICTED" /\ lastIp' = ip /\ id' = branches
    /\ source' \in {"tage", "btb"}
    /\ consulted' = Consulted
    /\ buf'.slot \in [Index -> Slots]
    /\ buf' = [slot |-> buf'.slot, readId |-> buf.readId, allocId |-> buf.allocId]
    /\ \A k \in Index : k # 0 /\ k # Distance =>
          buf'.slot[PhysicalIndex(branches + k)]
             = buf.slot[PhysicalIndex(branches + k)]
    /\ LET s == buf'.slot[PhysicalIndex(branches)]
       IN  IF branches < Distance THEN s = At(buf, branches)
           ELSE s = [At(buf, branches) EXCEPT !.hash = Gap]
    /\ LET s == buf'.slot[PhysicalIndex(branches + Distance)]
       IN  /\ s.valid /\ ~s.updated
           /\ s.gen = [pc |-> ip, at |-> branches]
    /\ queue' \in Seq(Entries)
    /\ Len(queue') = Waiting + 1
    /\ \A k \in 1 .. Waiting : queue'[k] = queue[k]
    /\ queue'[Waiting + 1] = NewEntry(branches, ip)

\* The queue predict_branch appends to holds the waiting entries and no other.
LEMMA QueueBefore ==
    ASSUME IInv
    PROVE  LET q == IF state = "PREDICTED" THEN PopBack(queue) ELSE queue
           IN  /\ q \in Seq(Entries)
               /\ Len(q) = Waiting
               /\ \A k \in 1 .. Waiting : q[k] = queue[k]
<1>1. branches \in Nat /\ Waiting \in Nat
  BY WindowShape DEF IInv, TypeOK
<1>2. CASE state = "PREDICTED"
  <2>1. Len(queue) - 1 = Waiting /\ Len(queue) - 1 \in Int
    BY <1>1, <1>2, QueueFacts
  <2>2. \A k \in 1 .. Len(queue) - 1 : queue[k] \in Entries
    BY <1>1, <2>1, QueueFacts, ElementOfSeq
  <2>3. /\ PopBack(queue) \in Seq(Entries)
        /\ Len(PopBack(queue)) = Waiting
        /\ \A k \in 1 .. Waiting : PopBack(queue)[k] = queue[k]
    BY <1>1, <2>1, <2>2, SubSeqProperties DEF PopBack
  <2>. QED BY <1>2, <2>3
<1>3. CASE state # "PREDICTED"
  BY <1>1, <1>3, QueueFacts
<1>. QED BY <1>2, <1>3

\* The answer is picked by the hash of the Distance branches that resolved
\* between the one that made it and the current one.
LEMMA PicksTheDueAnswer ==
    ASSUME IInv, NEW q \in Seq(Entries), Len(q) = Waiting,
           \A k \in 1 .. Waiting : q[k] = queue[k]
    PROVE  PickedAnswer(buf, q, branches) = Consulted
<1>. USE CapacityFacts
<1>1. branches \in Nat /\ Waiting \in Nat /\ First \in Nat
  BY WindowShape DEF IInv, TypeOK
<1>2. CASE branches < Distance
  BY <1>2, <1>1, NothingToRetire DEF PickedAnswer, Consulted
<1>3. CASE branches >= Distance
  <2>1. Waiting = Distance /\ First = branches
    BY <1>1, <1>3, WindowShape
  <2>2. ASSUME NEW k \in 1 .. Distance
        PROVE  q[k].branchId = branches + k - 1 /\ q[k].outcome = branches + k - 1 - Distance
    <3>1. k \in 1 .. Len(queue) /\ branches + k - 1 - Distance < branches
      BY <1>1, <2>1, QueueFacts
    <3>. QED BY <2>1, <3>1, QueueFacts
  <2>3. Found(q, branches)
    <3>1. 1 \in 1 .. Len(q) /\ q[1].branchId = branches
      BY <1>1, <2>1, <2>2
    <3>. QED BY <3>1 DEF Found
  <2>4. EntryFor(q, branches) = q[1]
    <3>. DEFINE First1(j) == /\ q[j].branchId = branches
                             /\ \A h \in 1 .. j - 1 : q[h].branchId # branches
    <3>1. 1 \in 1 .. Len(q) /\ First1(1)
      BY <1>1, <2>1, <2>2
    <3>2. \A j \in 1 .. Len(q) : First1(j) => j = 1
      BY <1>1, <2>1, <2>2
    <3>3. (CHOOSE j \in 1 .. Len(q) : First1(j)) = 1
      <4>. HIDE DEF First1
      <4>. QED BY <3>1, <3>2
    <3>. QED BY <3>3 DEF EntryFor
  <2>5. HashedBranches(q) = Gap
    <3>1. ASSUME NEW j \in 1 .. Distance
          PROVE  q[Distance - j + 1].outcome = branches - j
      <4>1. Distance - j + 1 \in 1 .. Distance
        OBVIOUS
      <4>. QED BY <1>1, <2>2, <4>1
    <3>2. HashedBranches(q) = [j \in 1 .. Distance |-> q[Distance - j + 1].outcome]
      BY <2>1 DEF HashedBranches
    <3>. QED BY <3>1, <3>2 DEF Gap
  <2>6. q[1].gen = At(buf, branches).gen
    <3>1. 0 \in Index /\ branches + 0 = branches /\ 0 < Distance
          /\ branches + 0 - First + 1 = 1
      BY <1>1, <2>1 DEF Index
    <3>2. SlotsMatchQueue
      BY DEF IInv
    <3>3. buf.slot[PhysicalIndex(branches + 0)].gen = queue[branches + 0 - First + 1].gen
      BY <1>3, <3>1, <3>2 DEF SlotsMatchQueue
    <3>4. q[1] = queue[1]
      BY <2>1
    <3>. QED BY <3>1, <3>3, <3>4 DEF At
  <2>7. At(buf, branches).valid
    BY <1>3, NothingToRetire
  <2>. QED BY <1>1, <1>3, <2>3, <2>4, <2>5, <2>6, <2>7 DEF PickedAnswer, Consulted
<1>. QED BY <1>1, <1>2, <1>3

\* An answer is no absence of one.
LEMMA ConsultedFacts ==
    ASSUME IInv
    PROVE  /\ branches >= Distance => Gap \in Hashes /\ Consulted \in Answers
           /\ branches >= Distance => Consulted # None /\ Consulted.hash = Gap
                                      /\ Consulted.gen = At(buf, branches).gen
           /\ branches < Distance => Consulted = None
<1>1. branches \in Nat
  BY DEF IInv, TypeOK
<1>2. ASSUME branches >= Distance
      PROVE  /\ Gap \in Hashes /\ Consulted \in Answers /\ Consulted # None
             /\ Consulted.hash = Gap /\ Consulted.gen = At(buf, branches).gen
  <2>1. Gap \in Hashes
    BY <1>1, <1>2, CapacityFacts DEF Gap, Hashes
  <2>2. Consulted = [gen |-> At(buf, branches).gen, hash |-> Gap]
    BY <1>1, <1>2, CapacityFacts DEF Consulted
  <2>3. Consulted \in Answers
    BY <1>2, <2>1, <2>2, NothingToRetire DEF Answers
  <2>. QED BY <2>1, <2>2, <2>3, AheadAssumption
<1>. QED BY <1>1, <1>2 DEF Consulted

\* predict_branch does what Predicted says, or aborts when no id is left to
\* predict for.
LEMMA PredictEffect ==
    ASSUME IInv, NEW ip \in AheadPcs, NEW useBm \in BOOLEAN,
           PredictBranch(ip, useBm)
    PROVE  Predicted(ip) \/ (Abort /\ branches + Distance >= IdMod)
<1>. USE CapacityFacts
<1>. DEFINE q == IF state = "PREDICTED" THEN PopBack(queue) ELSE queue
            f == branches + Distance
            r == RememberHash(buf, branches, Consulted)
            g == Generated(r, branches, ip)
<1>0. /\ TypeOK /\ IdsFollowBranches
      /\ branches \in Nat /\ buf.slot \in [Index -> Slots]
      /\ Waiting \in Nat /\ buf.readId = branches
  BY WindowShape DEF IInv, TypeOK, IdsFollowBranches
<1>1. state = "PREDICTED" =>
         /\ id = branches
         /\ RetireAsserts(buf, queue, id)
         /\ RetiredBuffer(buf, id) = buf
         /\ RetiredQueue(buf, queue, id) = PopBack(queue)
  <2>. SUFFICES ASSUME state = "PREDICTED"
       PROVE  /\ id = branches
              /\ RetireAsserts(buf, queue, id)
              /\ RetiredBuffer(buf, id) = buf
              /\ RetiredQueue(buf, queue, id) = PopBack(queue)
    OBVIOUS
  <2>1. id = branches /\ branches + Distance < IdMod
    BY <1>0 DEF IdsFollowBranches
  <2>2. Len(queue) = Waiting + 1 /\ Len(queue) \in 1 .. Len(queue)
    BY <1>0, QueueFacts
  <2>3. Back(queue).branchId = AddId(id, Distance)
    <3>1. First + (Waiting + 1) - 1 = branches + Distance
      BY <1>0, WindowShape
    <3>2. queue[Len(queue)].branchId = First + Len(queue) - 1
      BY <2>2, QueueFacts
    <3>. QED BY <2>1, <2>2, <3>1, <3>2, WindowNotWrapped DEF Back
  <2>4. queue # << >>
    BY <1>0, <2>2
  <2>. QED BY <2>1, <2>3, <2>4, <1>0, NothingToRetire, WindowNotWrapped
           DEF RetireAsserts, RetiredBuffer, RetiredQueue
<1>2. /\ q \in Seq(Entries) /\ Len(q) = Waiting
      /\ \A k \in 1 .. Waiting : q[k] = queue[k]
  BY QueueBefore
<1>3. PickedAnswer(buf, q, branches) = Consulted
  BY <1>2, PicksTheDueAnswer
<1>4. CASE branches + Distance < IdMod
  <2>1. /\ consulted' = Consulted
        /\ source' \in {"tage", "btb"}
        /\ buf' = g
        /\ queue' = Append(q, NewEntry(branches, ip))
        /\ id' = branches
        /\ lastIp' = ip
        /\ state' = "PREDICTED"
        /\ UNCHANGED <<branches, trained, aborted>>
    <3>1. InBuffer(buf, branches) /\ InBuffer(buf, AddId(branches, Distance))
      BY <1>4, WindowNotWrapped
    <3>2. CASE state = "PREDICTED"
      <4>1. q = PopBack(queue)
        BY <3>2
      <4>. HIDE DEF q, g
      <4>. QED BY <1>0, <1>1, <1>3, <3>1, <3>2, <4>1 DEF PredictBranch, g
    <3>3. CASE state # "PREDICTED"
      <4>1. q = queue
        BY <3>3
      <4>. HIDE DEF q, g
      <4>. QED BY <1>0, <1>3, <3>1, <3>3, <4>1 DEF PredictBranch, g
    <3>. QED BY <3>2, <3>3
  <2>2. PhysicalIndex(branches) \in Index /\ PhysicalIndex(f) \in Index
    BY <1>0, IndexFacts
  <2>3. PhysicalIndex(branches) # PhysicalIndex(f)
    <3>1. 0 \in Index /\ Distance \in Index /\ branches + 0 = branches /\ 0 # Distance
      BY <1>0 DEF Index
    <3>. QED BY <3>1, <1>0, IndexDistinct
  <2>. DEFINE s0 == IF branches < Distance THEN At(buf, branches)
                    ELSE [At(buf, branches) EXCEPT !.hash = Gap]
              sf == [At(buf, f) EXCEPT !.valid = TRUE,
                                       !.gen = [pc |-> ip, at |-> branches]]
  <2>4. s0 \in Slots
    <3>1. CASE branches < Distance
      BY <3>1, NothingToRetire
    <3>2. CASE branches >= Distance
      <4>1. Gap \in Hashes /\ At(buf, branches) \in Slots
        BY <3>2, NothingToRetire, ConsultedFacts
      <4>. QED BY <1>0, <3>2, <4>1 DEF Slots
    <3>. QED BY <1>0, <3>1, <3>2
  <2>5. sf \in Slots /\ sf.valid /\ ~sf.updated
        /\ sf.gen = [pc |-> ip, at |-> branches]
    BY <1>0, NothingToRetire DEF Slots, Origins
  <2>6. /\ r.slot = [buf.slot EXCEPT ![PhysicalIndex(branches)] = s0]
        /\ r.readId = buf.readId /\ r.allocId = buf.allocId
    <3>1. CASE branches < Distance
      <4>1. r = buf
        BY <3>1, ConsultedFacts DEF RememberHash
      <4>2. buf.slot = [buf.slot EXCEPT ![PhysicalIndex(branches)] = s0]
        BY <1>0, <3>1 DEF At
      <4>. QED BY <4>1, <4>2
    <3>2. CASE branches >= Distance
      BY <1>0, <3>2, ConsultedFacts DEF RememberHash, Put
    <3>. QED BY <1>0, <3>1, <3>2
  <2>7. At(r, f) = At(buf, f)
    BY <1>0, <2>2, <2>3, <2>6 DEF At
  <2>. HIDE DEF r, s0
  <2>8. /\ g.slot = [r.slot EXCEPT ![PhysicalIndex(f)] = sf]
        /\ g = [slot |-> g.slot, readId |-> buf.readId, allocId |-> buf.allocId]
    <3>1. AddId(branches, Distance) = f
      BY <1>4, WindowNotWrapped
    <3>. QED BY <2>6, <2>7, <3>1 DEF Generated, Put
  <2>. HIDE DEF g, sf
  <2>9. g.slot \in [Index -> Slots]
    <3>1. r.slot \in [Index -> Slots]
      BY <1>0, <2>4, <2>6
    <3>. QED BY <2>5, <2>8, <3>1
  <2>10. g.slot[PhysicalIndex(branches)] = s0 /\ g.slot[PhysicalIndex(f)] = sf
    BY <1>0, <2>2, <2>3, <2>6, <2>8
  <2>11. ASSUME NEW k \in Index, k # 0, k # Distance
         PROVE  g.slot[PhysicalIndex(branches + k)]
                   = buf.slot[PhysicalIndex(branches + k)]
    <3>1. branches + k \in Nat /\ 0 \in Index /\ Distance \in Index
          /\ branches + 0 = branches
      BY <1>0 DEF Index
    <3>2. PhysicalIndex(branches + k) \in Index
      BY <3>1, IndexFacts
    <3>3. /\ PhysicalIndex(branches + k) # PhysicalIndex(branches)
          /\ PhysicalIndex(branches + k) # PhysicalIndex(f)
      BY <2>11, <3>1, <1>0, IndexDistinct
    <3>. QED BY <3>2, <3>3, <2>2, <2>6, <2>8, <1>0
  <2>12. NewEntry(branches, ip) \in Entries
    BY <1>0, AddIdFacts DEF NewEntry, Entries, Origins
  <2>13. /\ queue' \in Seq(Entries) /\ Len(queue') = Waiting + 1
         /\ \A k \in 1 .. Waiting : queue'[k] = queue[k]
         /\ queue'[Waiting + 1] = NewEntry(branches, ip)
    <3>. HIDE DEF q
    <3>. QED BY <1>0, <1>2, <2>1, <2>12, AppendProperties
  <2>. QED BY <1>4, <2>1, <2>5, <2>8, <2>9, <2>10, <2>11, <2>13 DEF Predicted, s0
<1>5. CASE branches + Distance >= IdMod
  <2>1. ~InBuffer(buf, AddId(branches, Distance))
    BY <1>0, <1>5, WindowNotWrapped
  <2>2. LET b == IF state = "PREDICTED" THEN RetiredBuffer(buf, id) ELSE buf
        IN  b = buf
    BY <1>1
  <2>. QED BY <1>0, <1>5, <2>1, <2>2 DEF PredictBranch
<1>. QED BY <1>0, <1>4, <1>5

\* predict_branch keeps the inductive invariant.
LEMMA PredictIInv ==
    ASSUME IInv, NEW ip \in AheadPcs, NEW useBm \in BOOLEAN,
           PredictBranch(ip, useBm)
    PROVE  IInv'
<1>. USE CapacityFacts
<1>0. /\ TypeOK /\ IdsFollowBranches /\ SlotsMatchQueue /\ QueueIsWindow
      /\ AbortsOnlyWhenIdsRunOut /\ ConsultedIsDue
      /\ branches \in Nat /\ buf.slot \in [Index -> Slots]
      /\ First \in Nat /\ Waiting \in Nat
  BY WindowShape DEF IInv, TypeOK
<1>1. CASE Predicted(ip)
  <2>. USE <1>1 DEF Predicted
  <2>0. First' = First /\ Waiting' = Waiting
    BY DEF First, Waiting
  <2>1. TypeOK'
    <3>1. branches \in Ids
      BY <1>0 DEF Ids
    <3>2. buf' \in [slot : [Index -> Slots], readId : Ids, allocId : Ids]
      BY <1>0 DEF TypeOK
    <3>3. consulted' \in Answers \cup {None}
      BY <1>0, ConsultedFacts
    <3>. QED BY <1>0, <3>1, <3>2, <3>3 DEF TypeOK
  <2>2. IdsFollowBranches'
    <3>1. buf'.readId = buf.readId /\ buf'.allocId = buf.allocId
      OBVIOUS
    <3>. QED BY <1>0, <3>1 DEF IdsFollowBranches
  <2>3. \A k \in 1 .. Waiting + 1 :
           /\ queue'[k].branchId = First + k - 1
           /\ queue'[k].gen.at = First + k - 1 - Distance
           /\ queue'[k].outcome =
                 IF First + k - 1 - Distance < branches
                 THEN First + k - 1 - Distance ELSE None
    <3>. TAKE k \in 1 .. Waiting + 1
    <3>1. CASE k = Waiting + 1
      <4>1. First + k - 1 = branches + Distance /\ First + k - 1 - Distance = branches
        BY <1>0, <3>1, WindowShape
      <4>2. AddId(branches, Distance) = branches + Distance
        BY WindowNotWrapped
      <4>3. queue'[k] = NewEntry(branches, ip)
        BY <3>1
      <4>4. /\ queue'[k].branchId = branches + Distance
            /\ queue'[k].gen.at = branches /\ queue'[k].outcome = None
        BY <4>2, <4>3 DEF NewEntry
      <4>5. ~(branches < branches)
        BY <1>0
      <4>. QED BY <4>1, <4>4, <4>5
    <3>2. CASE k # Waiting + 1
      <4>1. k \in 1 .. Waiting /\ k \in 1 .. Len(queue)
        BY <1>0, <3>2, QueueFacts
      <4>. QED BY <4>1, QueueFacts
    <3>. QED BY <3>1, <3>2
  <2>4. QueueIsWindow'
    <3>1. branches + Distance - First + 1 = Waiting + 1
      BY <1>0 DEF Waiting
    <3>2. Len(queue') = branches + Distance - First + 1
          /\ \A k \in 1 .. branches + Distance - First + 1 :
                /\ queue'[k].branchId = First + k - 1
                /\ queue'[k].gen.at = First + k - 1 - Distance
                /\ queue'[k].outcome =
                      IF First + k - 1 - Distance < branches
                      THEN First + k - 1 - Distance ELSE None
      BY <2>3, <3>1
    <3>. HIDE <1>1
    <3>3. branches' = branches /\ state' = "PREDICTED"
      BY <1>1
    <3>. QED BY <1>0, <3>2, <3>3 DEF QueueIsWindow, First
  <2>5. SlotsMatchQueue'
    <3>. SUFFICES ASSUME NEW k \in Index
         PROVE (LET s == buf'.slot[PhysicalIndex(branches + k)]
                    inUse == \/ k < Distance /\ branches + k >= Distance
                             \/ k = Distance
                IN  /\ s = Empty \/ inUse
                    /\ inUse => /\ s.valid /\ ~s.updated
                                /\ s.gen = queue'[branches + k - First + 1].gen
                                /\ k = Distance => s.gen.pc = ip)
      BY <2>0 DEF SlotsMatchQueue
    <3>1. CASE k = Distance
      <4>1. branches + k - First + 1 = Waiting + 1
        BY <1>0, <3>1, WindowShape
      <4>. QED BY <3>1, <4>1 DEF NewEntry
    <3>2. CASE k # Distance
      <4>. DEFINE old == buf.slot[PhysicalIndex(branches + k)]
                  new == buf'.slot[PhysicalIndex(branches + k)]
                  inUse == k < Distance /\ branches + k >= Distance
      <4>1. /\ old = Empty \/ inUse
            /\ inUse => /\ old.valid /\ ~old.updated
                        /\ old.gen = queue[branches + k - First + 1].gen
        BY <1>0, <3>2 DEF SlotsMatchQueue
      <4>2. /\ new.valid = old.valid /\ new.updated = old.updated /\ new.gen = old.gen
            /\ ~inUse => new = old
        <5>1. CASE k = 0
          <6>1. branches + k = branches /\ At(buf, branches) = old
            BY <1>0, <5>1 DEF At
          <6>2. At(buf, branches) \in Slots
            BY NothingToRetire
          <6>. QED BY <1>0, <5>1, <6>1, <6>2 DEF Slots
        <5>2. CASE k # 0
          BY <3>2, <5>2
        <5>. QED BY <5>1, <5>2
      <4>3. inUse => queue'[branches + k - First + 1] = queue[branches + k - First + 1]
        <5>. SUFFICES ASSUME inUse
             PROVE  branches + k - First + 1 \in 1 .. Waiting
          OBVIOUS
        <5>1. k \in Nat /\ branches \in Nat /\ Distance \in Nat
              /\ k < Distance /\ branches + k >= Distance
          BY <1>0 DEF Index
        <5>2. /\ First \in Nat /\ Waiting \in Nat
              /\ First + Waiting = branches + Distance
              /\ branches >= Distance => First = branches
              /\ branches < Distance => Waiting = branches
          BY <5>1, WindowShape
        <5>. HIDE DEF old, new, inUse
        <5>. HIDE <1>1
        <5>. QED BY <5>1, <5>2
      <4>. HIDE DEF old, new, inUse
      <4>4. /\ new = Empty \/ inUse
            /\ inUse => /\ new.valid /\ ~new.updated
                        /\ new.gen = queue'[branches + k - First + 1].gen
        BY <4>1, <4>2, <4>3
      <4>. QED BY <3>2, <4>4 DEF new, inUse
    <3>. QED BY <3>1, <3>2
  <2>6. ConsultedIsDue'
    <3>. DEFINE p == PhysicalIndex(branches)
    <3>1. /\ buf'.slot[p].gen = buf.slot[p].gen
          /\ branches >= Distance => buf'.slot[p].hash = Gap
      <4>1. At(buf, branches) \in Slots
        BY NothingToRetire
      <4>. QED BY <1>0, <4>1, SMTT(30) DEF At, Slots
    <3>. HIDE <1>1
    <3>2. branches' = branches /\ consulted' = Consulted
      BY <1>1
    <3>3. Gap' = Gap
      BY <3>2 DEF Gap
    <3>4. Consulted' = Consulted
      BY <3>1, <3>2, <3>3 DEF Consulted, At
    <3>. QED BY <3>1, <3>2, <3>3, <3>4 DEF ConsultedIsDue, At
  <2>7. AbortsOnlyWhenIdsRunOut'
    BY <1>0 DEF AbortsOnlyWhenIdsRunOut
  <2>. QED BY <2>1, <2>2, <2>4, <2>5, <2>6, <2>7 DEF IInv
<1>2. CASE Abort /\ branches + Distance >= IdMod
  BY <1>0, <1>2
  DEF Abort, IInv, TypeOK, IdsFollowBranches, SlotsMatchQueue, QueueIsWindow, First,
      ConsultedIsDue, Consulted, Gap, At, AbortsOnlyWhenIdsRunOut
<1>. QED BY <1>1, <1>2, PredictEffect

-----------------------------------------------------------------------------
\* What last_branch_result does: the slot of the branch is cleared and becomes
\* the one furthest ahead, its queue entry goes if it had one, and the newest
\* entry takes the outcome.
Resolved ==
    /\ branches' = branches + 1
    /\ trained' \in {consulted, None}
    /\ state' = "NONE" /\ ~aborted
    /\ UNCHANGED <<lastIp, id, consulted, source, aborted>>
    /\ buf'.slot = [buf.slot EXCEPT ![PhysicalIndex(branches)] = Empty]
    /\ buf' = [slot |-> buf'.slot, readId |-> branches + 1,
               allocId |-> AddId(branches + 1, Distance)]
    /\ \A k \in Index :
          buf'.slot[PhysicalIndex(branches + 1 + k)] =
             IF k = Capacity - 1 THEN Empty
             ELSE buf.slot[PhysicalIndex(branches + (k + 1))]
    /\ queue' = IF branches < Distance THEN WithOutcome(queue)
                ELSE Tail(WithOutcome(queue))

\* The queue with the outcome of the branch written into its newest entry.
LEMMA OutcomeFacts ==
    ASSUME IInv, state = "PREDICTED"
    PROVE  LET q == WithOutcome(queue)
           IN  /\ q \in Seq(Entries) /\ Len(q) = Waiting + 1 /\ q # << >>
               /\ \A k \in 1 .. Waiting + 1 :
                     /\ q[k].branchId = First + k - 1
                     /\ q[k].gen = queue[k].gen
                     /\ q[k].outcome = First + k - 1 - Distance
               /\ Head(q) = q[1]
<1>. USE CapacityFacts
<1>. DEFINE q == WithOutcome(queue)
            n == Waiting + 1
            e == [queue[n] EXCEPT !.outcome = branches]
<1>1. branches \in Nat /\ Waiting \in Nat /\ First \in Nat /\ First >= Distance
      /\ First + Waiting = branches + Distance
  BY WindowShape DEF IInv, TypeOK
<1>2. queue \in Seq(Entries) /\ Len(queue) = n /\ n \in 1 .. Len(queue)
  BY <1>1, QueueFacts
<1>3. queue[n] \in Entries
  BY <1>2, ElementOfSeq
<1>4. q = [queue EXCEPT ![n] = e]
  BY <1>2 DEF WithOutcome
<1>5. e \in Entries /\ e.branchId = queue[n].branchId /\ e.gen = queue[n].gen
      /\ e.outcome = branches
  BY <1>1, <1>3 DEF Entries
<1>. HIDE DEF q, e
<1>6. /\ q \in Seq(Entries) /\ Len(q) = n
      /\ \A k \in 1 .. n : q[k] = IF k = n THEN e ELSE queue[k]
  BY <1>2, <1>4, <1>5, ExceptSeq
<1>7. ASSUME NEW k \in 1 .. n
      PROVE  /\ q[k].branchId = First + k - 1
             /\ q[k].gen = queue[k].gen
             /\ q[k].outcome = First + k - 1 - Distance
  <2>1. queue[k].branchId = First + k - 1
    BY <1>2, QueueFacts
  <2>2. CASE k = n
    <3>1. First + k - 1 - Distance = branches
      BY <1>1, <2>2
    <3>. QED BY <2>1, <2>2, <3>1, <1>5, <1>6
  <2>3. CASE k # n
    <3>1. First + k - 1 - Distance < branches
      BY <1>1, <2>3
    <3>2. queue[k].outcome = First + k - 1 - Distance
      BY <1>2, <3>1, QueueFacts
    <3>. QED BY <2>1, <2>3, <3>2, <1>6
  <2>. QED BY <2>2, <2>3
<1>8. q # << >> /\ Head(q) = q[1]
  BY <1>1, <1>6
<1>. QED BY <1>6, <1>7, <1>8 DEF q

\* last_branch_result does what Resolved says; none of its assertions can fail.
LEMMA BranchResultEffect ==
    ASSUME IInv, NEW conditional \in BOOLEAN, state = "PREDICTED",
           LastBranchResult(lastIp, conditional)
    PROVE  Resolved
<1>. USE CapacityFacts
<1>. DEFINE s0 == [At(buf, id) EXCEPT !.updated = TRUE]
            b == Put(buf, id, s0)
            q == WithOutcome(queue)
            p == PhysicalIndex(branches)
<1>0. /\ TypeOK /\ IdsFollowBranches
      /\ branches \in Nat /\ buf.slot \in [Index -> Slots]
      /\ id = branches /\ buf.readId = branches /\ branches + Distance < IdMod
      /\ First \in Nat /\ Waiting \in Nat
      /\ AddId(branches, Distance) = branches + Distance
      /\ buf.allocId = branches + Distance
  BY WindowShape, WindowNotWrapped DEF IInv, TypeOK, IdsFollowBranches
<1>1. p \in Index
  BY <1>0, IndexFacts
<1>2. b = [slot |-> [buf.slot EXCEPT ![p] = s0], readId |-> branches,
           allocId |-> branches + Distance]
  BY <1>0 DEF Put
<1>3. At(b, id) = s0
  <2>. HIDE DEF s0
  <2>1. b.slot = [buf.slot EXCEPT ![p] = s0]
    BY <1>2
  <2>. HIDE DEF b
  <2>. QED BY <1>0, <1>1, <2>1 DEF At
<1>4. s0.updated /\ s0.valid = At(buf, branches).valid
      /\ s0.gen = At(buf, branches).gen /\ s0.hash = At(buf, branches).hash
  <2>1. At(buf, branches) \in Slots
    BY NothingToRetire
  <2>. QED BY <1>0, <2>1 DEF Slots
<1>. HIDE DEF b, s0
<1>5. RetireAsserts(b, q, id) /\ SpeculativeAsserts(queue, id) /\ InBuffer(buf, id)
  <2>1. InBuffer(b, id) /\ InBuffer(buf, id) /\ id = b.readId
    BY <1>0, <1>2 DEF InBuffer
  <2>2. queue # << >> /\ Back(queue).branchId = AddId(id, Distance)
    <3>1. Len(queue) = Waiting + 1 /\ Len(queue) \in 1 .. Len(queue)
      BY <1>0, QueueFacts
    <3>2. First + Len(queue) - 1 = branches + Distance
      BY <1>0, <3>1, WindowShape
    <3>3. queue[Len(queue)].branchId = branches + Distance
      BY <3>1, <3>2, QueueFacts
    <3>4. queue # << >>
      BY <1>0, <3>1
    <3>. QED BY <1>0, <3>3, <3>4 DEF Back
  <2>3. q # << >>
    BY OutcomeFacts
  <2>. HIDE DEF q
  <2>. QED BY <1>3, <1>4, <2>1, <2>2, <2>3 DEF RetireAsserts, SpeculativeAsserts
<1>6. RetiredBuffer(b, id) = DeallocateFront(b, id, Empty)
  BY <1>3, <1>4 DEF RetiredBuffer
<1>7. RetiredQueue(b, q, id) = IF branches < Distance THEN q ELSE Tail(q)
  <2>1. FrontOf(q).branchId = First
    <3>1. 1 \in 1 .. Waiting + 1 /\ First + 1 - 1 = First
      BY <1>0
    <3>2. Head(q) = q[1] /\ q[1].branchId = First + 1 - 1
      BY <3>1, OutcomeFacts
    <3>. QED BY <3>1, <3>2 DEF FrontOf
  <2>2. First = id <=> ~(branches < Distance)
    BY <1>0 DEF First
  <2>. HIDE DEF q
  <2>. QED BY <1>3, <1>4, <2>1, <2>2 DEF RetiredQueue
<1>8. /\ branches' = branches + 1
      /\ trained' = Trained(b, q, id, conditional)
      /\ buf' = DeallocateFront(b, id, Empty)
      /\ queue' = IF branches < Distance THEN q ELSE Tail(q)
      /\ state' = "NONE"
      /\ UNCHANGED <<lastIp, id, consulted, source, aborted>>
      /\ ~aborted
  BY <1>5, <1>6, <1>7 DEF LastBranchResult, b, s0
<1>9. Trained(b, q, id, conditional) \in {consulted, None}
  <2>1. CASE branches < Distance
    BY <1>3, <1>4, <1>0, <2>1, NothingToRetire DEF Trained
  <2>2. CASE branches >= Distance
    <3>1. consulted = [gen |-> s0.gen, hash |-> s0.hash]
      BY <1>0, <1>4, <2>2 DEF IInv, ConsultedIsDue, Consulted
    <3>. QED BY <1>3, <3>1 DEF Trained
  <2>. QED BY <1>0, <2>1, <2>2
<1>10. buf' = [slot |-> [buf.slot EXCEPT ![p] = Empty], readId |-> branches + 1,
               allocId |-> AddId(branches + 1, Distance)]
  <2>1. buf' = [slot |-> [b.slot EXCEPT ![p] = Empty],
                readId |-> AddId(b.readId, 1), allocId |-> AddId(b.allocId, 1)]
    BY <1>0, <1>8 DEF DeallocateFront
  <2>2. [b.slot EXCEPT ![p] = Empty] = [buf.slot EXCEPT ![p] = Empty]
    BY <1>0, <1>1, <1>2
  <2>3. AddId(b.readId, 1) = branches + 1
    BY <1>0, <1>2, AddIdFacts
  <2>4. AddId(b.allocId, 1) = AddId(branches + 1, Distance)
    <3>1. branches + Distance + 1 = branches + 1 + Distance
      BY <1>0
    <3>. QED BY <1>2, <3>1 DEF AddId
  <2>. QED BY <2>1, <2>2, <2>3, <2>4
<1>11. \A k \in Index :
         buf'.slot[PhysicalIndex(branches + 1 + k)] =
            IF k = Capacity - 1 THEN Empty
            ELSE buf.slot[PhysicalIndex(branches + (k + 1))]
  <2>1. Written(buf.slot, buf'.slot, branches, Empty)
    BY <1>0, <1>10 DEF Written
  <2>. QED BY <1>0, <2>1, WindowMoves
<1>. QED BY <1>8, <1>9, <1>10, <1>11 DEF Resolved

\* last_branch_result keeps the inductive invariant.
LEMMA BranchResultIInv ==
    ASSUME IInv, NEW conditional \in BOOLEAN, state = "PREDICTED",
           LastBranchResult(lastIp, conditional)
    PROVE  IInv'
<1>. USE CapacityFacts
<1>. DEFINE q == WithOutcome(queue)
            shift == IF branches < Distance THEN 0 ELSE 1
<1>0. /\ TypeOK /\ IdsFollowBranches /\ SlotsMatchQueue
      /\ AbortsOnlyWhenIdsRunOut
      /\ branches \in Nat /\ buf.slot \in [Index -> Slots]
      /\ First \in Nat /\ Waiting \in Nat /\ branches + Distance < IdMod
  BY WindowShape DEF IInv, TypeOK, IdsFollowBranches
<1>1. Resolved
  BY BranchResultEffect
<1>. USE DEF Resolved
<1>2. /\ First' \in Nat /\ First' = First + shift
      /\ branches + 1 + Distance - First' = Waiting + 1 - shift
  <2>1. First' = IF branches + 1 < Distance THEN Distance ELSE branches + 1
    BY <1>1 DEF First
  <2>. HIDE DEF Resolved
  <2>2. First = (IF branches < Distance THEN Distance ELSE branches)
        /\ Waiting = (IF branches < Distance THEN branches ELSE Distance)
    BY <1>0, WindowShape DEF First
  <2>3. CASE branches < Distance
    BY <1>0, <2>1, <2>2, <2>3
  <2>4. CASE ~(branches < Distance)
    BY <1>0, <2>1, <2>2, <2>4
  <2>. QED BY <2>3, <2>4
<1>3. /\ q \in Seq(Entries) /\ Len(q) = Waiting + 1 /\ q # << >>
      /\ \A k \in 1 .. Waiting + 1 :
            /\ q[k].branchId = First + k - 1
            /\ q[k].gen = queue[k].gen
            /\ q[k].outcome = First + k - 1 - Distance
  BY OutcomeFacts
<1>4. \A k \in 1 .. Waiting + 1 : q[k].gen.at = First + k - 1 - Distance
  <2>1. Len(queue) = Waiting + 1
    BY <1>0, QueueFacts
  <2>. QED BY <1>3, <2>1, QueueFacts
<1>. HIDE DEF q
<1>5. /\ queue' \in Seq(Entries) /\ Len(queue') = Waiting + 1 - shift
      /\ \A k \in 1 .. Waiting + 1 - shift : queue'[k] = q[k + shift]
  <2>1. CASE branches < Distance
    <3>1. queue' = q
      BY <1>1, <2>1 DEF q
    <3>. QED BY <1>0, <1>3, <2>1, <3>1
  <2>2. CASE ~(branches < Distance)
    <3>1. queue' = Tail(q)
      BY <1>1, <2>2 DEF q
    <3>. QED BY <1>0, <1>3, <2>2, <3>1, HeadTailProperties
  <2>. QED BY <2>1, <2>2
<1>6. \A k \in 1 .. Waiting + 1 - shift :
         /\ queue'[k].branchId = First' + k - 1
         /\ queue'[k].gen.at = First' + k - 1 - Distance
         /\ queue'[k].gen = queue[k + shift].gen
         /\ queue'[k].outcome = First' + k - 1 - Distance
         /\ First' + k - 1 - Distance < branches + 1
  <2>. TAKE k \in 1 .. Waiting + 1 - shift
  <2>. DEFINE j == k + shift
  <2>1. /\ j \in 1 .. Waiting + 1
        /\ First + j - 1 = First' + k - 1
        /\ First + j - 1 - Distance = First' + k - 1 - Distance
    BY <1>0, <1>2
  <2>2. First' + k - 1 - Distance < branches + 1
    BY <1>0, <1>2
  <2>3. queue'[k] = q[j]
    BY <1>5
  <2>. HIDE DEF j, Resolved
  <2>4. /\ q[j].branchId = First + j - 1
        /\ q[j].gen = queue[j].gen
        /\ q[j].outcome = First + j - 1 - Distance
        /\ q[j].gen.at = First + j - 1 - Distance
    BY <1>3, <1>4, <2>1
  <2>5. /\ queue'[k].branchId = First' + k - 1
        /\ queue'[k].gen.at = First' + k - 1 - Distance
        /\ queue'[k].gen = queue[j].gen
        /\ queue'[k].outcome = First' + k - 1 - Distance
    BY <2>1, <2>3, <2>4
  <2>6. j = k + shift
    BY DEF j
  <2>. HIDE DEF shift
  <2>. QED BY <2>2, <2>5, <2>6
<1>7. QueueIsWindow'
  <2>1. branches + 1 + Distance - First' + 0 = Waiting + 1 - shift
    BY <1>0, <1>2
  <2>2. Len(queue') = branches + 1 + Distance - First' + 0
        /\ \A k \in 1 .. branches + 1 + Distance - First' + 0 :
              /\ queue'[k].branchId = First' + k - 1
              /\ queue'[k].gen.at = First' + k - 1 - Distance
              /\ queue'[k].outcome =
                    IF First' + k - 1 - Distance < branches + 1
                    THEN First' + k - 1 - Distance ELSE None
    BY <1>5, <1>6, <2>1
  <2>3. First' = IF branches' < Distance THEN Distance ELSE branches'
    BY DEF First
  <2>. HIDE DEF Resolved
  <2>4. branches' = branches + 1 /\ state' = "NONE"
    BY <1>1 DEF Resolved
  <2>5. (IF state' = "PREDICTED" THEN 1 ELSE 0) = 0
    BY <2>4
  <2>. HIDE DEF shift
  <2>. QED BY <2>2, <2>3, <2>4, <2>5 DEF QueueIsWindow
<1>8. SlotsMatchQueue'
  <2>. SUFFICES ASSUME NEW k \in Index
       PROVE (LET s == buf'.slot[PhysicalIndex(branches + 1 + k)]
                  inUse == k < Distance /\ branches + 1 + k >= Distance
              IN  /\ s = Empty \/ inUse
                  /\ inUse => /\ s.valid /\ ~s.updated
                              /\ s.gen = queue'[branches + 1 + k - First' + 1].gen
                              /\ k # Distance)
    BY <1>1 DEF SlotsMatchQueue
  <2>1. CASE k = Capacity - 1
    BY <1>1, <2>1 DEF Capacity, Index
  <2>2. CASE k # Capacity - 1
    <3>. DEFINE s == buf'.slot[PhysicalIndex(branches + 1 + k)]
                t == buf.slot[PhysicalIndex(branches + (k + 1))]
                inUse == k < Distance /\ branches + 1 + k >= Distance
    <3>1. s = t /\ k + 1 \in Index /\ k \in Nat
      BY <1>1, <2>2 DEF Index
    <3>2. inUse <=> \/ k + 1 < Distance /\ branches + (k + 1) >= Distance
                    \/ k + 1 = Distance
      BY <1>0, <3>1
    <3>3. /\ t = Empty \/ inUse
          /\ inUse => /\ t.valid /\ ~t.updated
                      /\ t.gen = queue[branches + (k + 1) - First + 1].gen
      <4>1. t = Empty \/ \/ k + 1 < Distance /\ branches + (k + 1) >= Distance
                         \/ k + 1 = Distance /\ state = "PREDICTED"
        BY <1>0, <3>1 DEF SlotsMatchQueue
      <4>2. (\/ k + 1 < Distance /\ branches + (k + 1) >= Distance
             \/ k + 1 = Distance)
            => /\ t.valid /\ ~t.updated
               /\ t.gen = queue[branches + (k + 1) - First + 1].gen
        BY <1>0, <3>1 DEF SlotsMatchQueue
      <4>. HIDE DEF inUse, t
      <4>. QED BY <3>2, <4>1, <4>2
    <3>4. inUse => queue'[branches + 1 + k - First' + 1].gen
                      = queue[branches + (k + 1) - First + 1].gen
      <4>. SUFFICES ASSUME inUse
           PROVE  queue'[branches + 1 + k - First' + 1].gen
                     = queue[branches + (k + 1) - First + 1].gen
        OBVIOUS
      <4>. DEFINE j == branches + 1 + k - First' + 1
      <4>1. j \in 1 .. Waiting + 1 - shift
        <5>1. First' <= branches + 1 + k
          <6>1. branches' = branches + 1 /\ branches + 1 + k >= Distance /\ k \in Nat
            BY <1>1, <3>1
          <6>. HIDE DEF Resolved, inUse
          <6>. QED BY <1>0, <6>1 DEF First
        <5>2. j \in Nat /\ j >= 1
          BY <1>0, <1>2, <3>1, <5>1
        <5>3. Waiting + 1 - shift = branches + 1 + Distance - First'
          BY <1>2
        <5>. HIDE DEF shift, Resolved
        <5>. QED BY <1>0, <1>2, <3>1, <5>2, <5>3
      <4>2. j + shift = branches + (k + 1) - First + 1
        BY <1>0, <1>2, <3>1
      <4>. HIDE DEF j, shift
      <4>. QED BY <1>6, <4>1, <4>2 DEF j
    <3>5. inUse => k # Distance
      BY <1>0, <3>1
    <3>. HIDE DEF s, t, inUse
    <3>6. /\ s = Empty \/ inUse
          /\ inUse => /\ s.valid /\ ~s.updated
                      /\ s.gen = queue'[branches + 1 + k - First' + 1].gen
                      /\ k # Distance
      BY <3>1, <3>3, <3>4, <3>5
    <3>. QED BY <3>6 DEF s, inUse
  <2>. QED BY <2>1, <2>2
<1>9. TypeOK'
  <2>1. Empty \in Slots
    BY DEF Empty, Slots
  <2>2. PhysicalIndex(branches) \in Index
    BY <1>0, IndexFacts
  <2>3. buf'.slot \in [Index -> Slots]
    BY <1>0, <1>1, <2>1, <2>2
  <2>4. branches + 1 \in Ids /\ AddId(branches + 1, Distance) \in Ids
    <3>1. branches + 1 \in Nat /\ branches + 1 < IdMod /\ branches + 1 \in Ids
      BY <1>0 DEF Ids
    <3>. QED BY <3>1, AddIdFacts
  <2>5. buf' \in [slot : [Index -> Slots], readId : Ids, allocId : Ids]
    BY <1>1, <2>3, <2>4
  <2>. QED BY <1>0, <1>1, <1>5, <2>5 DEF TypeOK
<1>10. IdsFollowBranches'
  BY <1>0, <1>1 DEF IdsFollowBranches
<1>11. ConsultedIsDue' /\ AbortsOnlyWhenIdsRunOut'
  BY <1>0, <1>1 DEF ConsultedIsDue, AbortsOnlyWhenIdsRunOut
<1>. QED BY <1>7, <1>8, <1>9, <1>10, <1>11 DEF IInv

\* Every step keeps the inductive invariant.
LEMMA NextIInv == IInv /\ [Next]_vars => IInv'
<1>. SUFFICES ASSUME IInv, [Next]_vars PROVE IInv'
  OBVIOUS
<1>1. ASSUME NEW ip \in AheadPcs, NEW useBm \in BOOLEAN, PredictBranch(ip, useBm)
      PROVE  IInv'
  BY <1>1, PredictIInv
<1>2. ASSUME NEW conditional \in BOOLEAN, state = "PREDICTED",
             LastBranchResult(lastIp, conditional)
      PROVE  IInv'
  BY <1>2, BranchResultIInv
<1>3. CASE UNCHANGED vars
  BY <1>3 DEF vars, IInv, TypeOK, IdsFollowBranches, SlotsMatchQueue, QueueIsWindow,
              First, ConsultedIsDue, Consulted, Gap, At, AbortsOnlyWhenIdsRunOut
<1>. QED BY <1>1, <1>2, <1>3 DEF Next

\* The inductive invariant holds in every reachable state.
LEMMA SpecIInv == Spec => []IInv
BY InitIInv, NextIInv, PTL DEF Spec

-----------------------------------------------------------------------------
\* A slot marked valid has its queue entry, and no other entry is for it.
LEMMA SlotsHaveEntries == IInv => SlotAndQueueAgree
<1>. SUFFICES ASSUME IInv, NEW k \in 0 .. Distance, branches + k < IdMod,
                     buf.slot[PhysicalIndex(branches + k)].valid
     PROVE  \E j \in 1 .. Len(queue) :
              /\ queue[j].branchId = branches + k
              /\ queue[j].gen = buf.slot[PhysicalIndex(branches + k)].gen
              /\ \A h \in 1 .. Len(queue) : queue[h].branchId = branches + k => h = j
  BY DEF SlotAndQueueAgree
<1>. USE CapacityFacts
<1>. DEFINE s == buf.slot[PhysicalIndex(branches + k)]
            j == branches + k - First + 1
<1>1. /\ SlotsMatchQueue /\ branches \in Nat /\ First \in Nat /\ Waiting \in Nat
      /\ First + Waiting = branches + Distance
      /\ First = IF branches < Distance THEN Distance ELSE branches
  BY WindowShape DEF IInv, TypeOK, First
<1>2. k \in Index /\ k \in Nat
  BY DEF Index
<1>3. s # Empty
  BY DEF Empty
<1>4. \/ k < Distance /\ branches + k >= Distance
      \/ k = Distance /\ state = "PREDICTED"
  BY <1>1, <1>2, <1>3 DEF SlotsMatchQueue
<1>5. s.gen = queue[j].gen
  BY <1>1, <1>2, <1>4 DEF SlotsMatchQueue
<1>6. j \in 1 .. Len(queue)
  <2>1. j \in Nat /\ j >= 1
    BY <1>1, <1>2, <1>4
  <2>2. CASE k < Distance
    BY <1>1, <1>2, <2>1, <2>2, QueueFacts
  <2>3. CASE k = Distance /\ state = "PREDICTED"
    BY <1>1, <1>2, <2>1, <2>3, QueueFacts
  <2>. QED BY <1>4, <2>2, <2>3
<1>7. \A h \in 1 .. Len(queue) : queue[h].branchId = First + h - 1
  BY QueueFacts
<1>8. First + j - 1 = branches + k
  BY <1>1, <1>2
<1>9. \A h \in 1 .. Len(queue) : First + h - 1 = branches + k => h = j
  BY <1>1, <1>2
<1>. HIDE DEF j, s
<1>10. queue[j].branchId = branches + k
  BY <1>6, <1>7, <1>8
<1>. QED BY <1>5, <1>6, <1>7, <1>9, <1>10 DEF s

\* The answer consulted is the one that is due, so its hash covers the gap.
LEMMA ConsultedCoversTheGap == IInv => HashCoversTheGap /\ AlwaysConsulted
<1>. SUFFICES ASSUME IInv PROVE HashCoversTheGap /\ AlwaysConsulted
  OBVIOUS
<1>1. branches \in Nat /\ ConsultedIsDue
  BY DEF IInv, TypeOK
<1>2. ASSUME state = "PREDICTED", branches >= Distance
      PROVE  consulted # None /\ consulted.hash = Gap
             /\ consulted.gen.at = branches - Distance
  BY <1>1, <1>2, ConsultedFacts, NothingToRetire DEF ConsultedIsDue
<1>3. ASSUME state = "PREDICTED", branches < Distance PROVE consulted = None
  BY <1>1, <1>3, ConsultedFacts DEF ConsultedIsDue
<1>. QED BY <1>1, <1>2, <1>3, CapacityFacts DEF HashCoversTheGap, AlwaysConsulted, Gap

-----------------------------------------------------------------------------
\* RecentOrigins reads the slots of the next branches in their order, the first
\* of them the slot of the current branch once Distance branches have gone by.
RecentSlots ==
    LET n == IF branches < Distance THEN branches ELSE Distance
    IN  /\ RecentOrigins =
             [k \in 1 .. n |->
                buf.slot[PhysicalIndex(branches + (Distance - n + k - 1))].gen]
        /\ RecentOrigins \in Seq(Origins \cup {None})
        /\ Len(RecentOrigins) = n

\* So it is whenever the inductive invariant holds: none of the ids wraps.
LEMMA RecentFacts == IInv => RecentSlots
<1>. SUFFICES ASSUME IInv PROVE RecentSlots
  OBVIOUS
<1>. USE CapacityFacts
<1>. DEFINE n == IF branches < Distance THEN branches ELSE Distance
<1>1. /\ branches \in Nat /\ buf.readId = branches /\ branches + Distance <= IdMod
      /\ n \in Nat /\ n <= Distance
  BY DEF IInv, TypeOK, IdsFollowBranches
<1>2. ASSUME NEW k \in 1 .. n
      PROVE  AddId(buf.readId, Distance - n + k - 1)
                = branches + (Distance - n + k - 1)
  <2>1. Distance - n + k - 1 \in Nat /\ Distance - n + k - 1 < Distance
    BY <1>1
  <2>2. branches + (Distance - n + k - 1) < IdMod
    BY <1>1, <2>1
  <2>. HIDE DEF n
  <2>. QED BY <1>1, <2>1, <2>2, AddIdFacts
<1>. HIDE DEF n
<1>3. RecentOrigins =
        [k \in 1 .. n |->
           buf.slot[PhysicalIndex(branches + (Distance - n + k - 1))].gen]
  BY <1>2 DEF RecentOrigins, At, n
<1>4. RecentOrigins \in [1 .. n -> Origins \cup {None}]
  <2>1. ASSUME NEW k \in 1 .. n
        PROVE  buf.slot[PhysicalIndex(branches + (Distance - n + k - 1))].gen
                  \in Origins \cup {None}
    <3>1. branches + (Distance - n + k - 1) \in Nat
      BY <1>1
    <3>2. PhysicalIndex(branches + (Distance - n + k - 1)) \in Index
      BY <3>1, IndexFacts
    <3>. QED BY <3>2 DEF IInv, TypeOK, Slots
  <2>. QED BY <2>1, <1>3
<1>5. RecentOrigins \in Seq(Origins \cup {None}) /\ Len(RecentOrigins) = n
  BY <1>1, <1>4, FunctionIsSeq
<1>. QED BY <1>3, <1>5 DEF n, RecentSlots

\* What the oracle calls due is the origin of the answer the branch has to get.
LEMMA DueIsConsulted ==
    ASSUME IInv
    PROVE  Oracle!Due = OriginOf(Consulted)
<1>. USE CapacityFacts
<1>1. branches \in Nat
  BY DEF IInv, TypeOK
<1>2. CASE branches < Distance
  <2>1. Len(RecentOrigins) # Distance
    BY <1>1, <1>2, RecentFacts DEF RecentSlots
  <2>. QED BY <1>2, <2>1, ConsultedFacts DEF Oracle!Due, OriginOf
<1>3. CASE branches >= Distance
  <2>1. Len(RecentOrigins) = Distance
    BY <1>1, <1>3, RecentFacts DEF RecentSlots
  <2>2. RecentOrigins[1] = buf.slot[PhysicalIndex(branches + 0)].gen
    <3>1. RecentOrigins = [k \in 1 .. Distance |->
             buf.slot[PhysicalIndex(branches + (Distance - Distance + k - 1))].gen]
      BY <1>1, <1>3, RecentFacts DEF RecentSlots
    <3>2. 1 \in 1 .. Distance /\ Distance - Distance + 1 - 1 = 0
      OBVIOUS
    <3>. QED BY <3>1, <3>2
  <2>3. branches + 0 = branches
    BY <1>1
  <2>4. OriginOf(Consulted) = At(buf, branches).gen
    BY <1>3, ConsultedFacts DEF OriginOf
  <2>. QED BY <2>1, <2>2, <2>3, <2>4 DEF Oracle!Due, At
<1>. QED BY <1>1, <1>2, <1>3

\* predict_branch is Predict of the oracle: no remembered origin moves.
LEMMA PredictRefines ==
    ASSUME IInv, IInv', NEW ip \in AheadPcs, Predicted(ip)
    PROVE  Oracle!Predict(ip)
<1>. USE CapacityFacts DEF Predicted
<1>. DEFINE n == IF branches < Distance THEN branches ELSE Distance
<1>1. branches \in Nat /\ n \in Nat /\ n <= Distance
  BY DEF IInv, TypeOK
<1>2. ASSUME NEW k \in 1 .. n
      PROVE  buf'.slot[PhysicalIndex(branches + (Distance - n + k - 1))].gen
                = buf.slot[PhysicalIndex(branches + (Distance - n + k - 1))].gen
  <2>1. Distance - n + k - 1 \in Index /\ Distance - n + k - 1 # Distance
    <3>. HIDE DEF Predicted, n
    <3>1. k \in Nat /\ k <= n
      BY <1>1
    <3>. QED BY <1>1, <3>1 DEF Index
  <2>2. buf'.slot[PhysicalIndex(branches)].gen = buf.slot[PhysicalIndex(branches)].gen
    <3>1. At(buf, branches) \in Slots
      BY NothingToRetire
    <3>. QED BY <3>1 DEF At, Slots
  <2>3. CASE Distance - n + k - 1 = 0
    <3>1. branches + (Distance - n + k - 1) = branches
      BY <1>1, <2>3
    <3>. HIDE DEF n
    <3>. QED BY <2>2, <3>1
  <2>4. CASE Distance - n + k - 1 # 0
    <3>. HIDE DEF n
    <3>. QED BY <2>1, <2>4
  <2>. QED BY <2>3, <2>4
<1>3. RecentOrigins = [k \in 1 .. n |->
         buf.slot[PhysicalIndex(branches + (Distance - n + k - 1))].gen]
  BY RecentFacts DEF RecentSlots
<1>4. RecentOrigins' = [k \in 1 .. n |->
         buf'.slot[PhysicalIndex(branches + (Distance - n + k - 1))].gen]
  <2>1. RecentSlots'
    BY RecentFacts, PTL
  <2>. QED BY <2>1 DEF RecentSlots
<1>. HIDE DEF n
<1>5. RecentOrigins' = RecentOrigins
  BY <1>2, <1>3, <1>4
<1>6. OriginOf(consulted)' = Oracle!Due
  BY DueIsConsulted DEF OriginOf
<1>7. OriginOf(trained)' = OriginOf(trained)
  BY DEF OriginOf
<1>. QED BY <1>5, <1>6, <1>7 DEF Oracle!Predict

\* last_branch_result is Resolve of the oracle: the prediction in the slot
\* furthest ahead is remembered and the one just served forgotten.
LEMMA ResolveRefines ==
    ASSUME IInv, IInv', state = "PREDICTED", Resolved
    PROVE  Oracle!Resolve
<1>0. RecentSlots'
  BY RecentFacts, PTL
<1>11. \A k \in Index : k # Capacity - 1 =>
          buf'.slot[PhysicalIndex(branches + 1 + k)]
             = buf.slot[PhysicalIndex(branches + (k + 1))]
  BY DEF Resolved
<1>. USE CapacityFacts DEF Resolved
<1>. DEFINE n == IF branches < Distance THEN branches ELSE Distance
            m == IF branches + 1 < Distance THEN branches + 1 ELSE Distance
            new == [pc |-> lastIp, at |-> branches]
            at(k) == buf.slot[PhysicalIndex(branches + k)].gen
<1>1. /\ branches \in Nat /\ n \in Nat /\ n <= Distance
      /\ m \in Nat /\ m <= Distance /\ SlotsMatchQueue
      /\ m = IF n < Distance THEN n + 1 ELSE n
      /\ lastIp \in AheadPcs
  BY DEF IInv, TypeOK, IdsFollowBranches
<1>2. at(Distance) = new
  <2>. DEFINE e == Waiting + 1
  <2>1. /\ branches + Distance - First + 1 = e /\ e \in Nat
        /\ First + e - 1 - Distance = branches
    <3>1. /\ First \in Nat /\ Waiting \in Nat /\ Distance \in Nat
          /\ First + Waiting = branches + Distance
      BY <1>1, WindowShape
    <3>. HIDE DEF Resolved
    <3>. QED BY <1>1, <3>1
  <2>2. e \in 1 .. Len(queue)
    <3>1. Len(queue) = e /\ Waiting \in Nat
      BY <1>1, WindowShape, QueueFacts
    <3>. QED BY <3>1
  <2>. HIDE DEF e
  <2>3. queue[e].gen \in Origins /\ queue[e].gen.at = branches
    BY <2>1, <2>2, QueueFacts
  <2>4. /\ buf.slot[PhysicalIndex(branches + Distance)].gen
               = queue[branches + Distance - First + 1].gen
        /\ buf.slot[PhysicalIndex(branches + Distance)].gen.pc = lastIp
    BY <1>1 DEF SlotsMatchQueue
  <2>. QED BY <2>1, <2>3, <2>4 DEF Origins
<1>3. RecentOrigins = [k \in 1 .. n |-> at(Distance - n + k - 1)]
  BY RecentFacts DEF RecentSlots
<1>4. RecentOrigins' = [k \in 1 .. m |-> at(Distance - m + k)]
  <2>1. RecentOrigins' = [k \in 1 .. m |->
           buf'.slot[PhysicalIndex(branches + 1 + (Distance - m + k - 1))].gen]
    BY <1>0 DEF RecentSlots
  <2>2. ASSUME NEW k \in 1 .. m
        PROVE  buf'.slot[PhysicalIndex(branches + 1 + (Distance - m + k - 1))]
                  = buf.slot[PhysicalIndex(branches + (Distance - m + k))]
    <3>1. /\ Distance - m + k - 1 \in Index
          /\ Distance - m + k - 1 # Capacity - 1
          /\ Distance - m + k - 1 + 1 = Distance - m + k
      <4>1. m \in Nat /\ m <= Distance /\ Distance \in Nat /\ Capacity \in Nat
            /\ Capacity > Distance
        BY <1>1
      <4>. HIDE DEF m, Resolved
      <4>. QED BY <4>1 DEF Index
    <3>. HIDE DEF m, Resolved
    <3>. QED BY <1>11, <3>1
  <2>. HIDE DEF m
  <2>. QED BY <2>1, <2>2
<1>5. RecentOrigins \in Seq(Origins \cup {None}) /\ new \in Origins \cup {None}
      /\ Len(RecentOrigins) = n
  BY <1>1, RecentFacts DEF RecentSlots, Origins
<1>. HIDE DEF new, at, n, m
<1>. DEFINE all == Append(RecentOrigins, new)
<1>6. /\ all \in Seq(Origins \cup {None}) /\ Len(all) = n + 1
      /\ \A k \in 1 .. n : all[k] = at(Distance - n + k - 1)
      /\ all[n + 1] = at(Distance)
  BY <1>1, <1>2, <1>3, <1>5, AppendProperties
<1>. HIDE DEF all
<1>7. RecentOrigins' \in Seq(Origins \cup {None}) /\ Len(RecentOrigins') = m
  BY <1>0 DEF RecentSlots, m, Origins
<1>8. RecentOrigins' = Oracle!Remember(new)
  <2>1. CASE n < Distance
    <3>1. ~(Len(all) > Distance) /\ m = n + 1
      BY <1>1, <1>6, <2>1
    <3>2. ASSUME NEW k \in 1 .. m PROVE RecentOrigins'[k] = all[k]
      <4>1. CASE k = n + 1
        <5>1. Distance - m + k = Distance
          BY <1>1, <3>1, <4>1
        <5>2. RecentOrigins'[k] = at(Distance - m + k)
          BY <1>4
        <5>. QED BY <1>6, <4>1, <5>1, <5>2
      <4>2. CASE k # n + 1
        <5>1. k \in 1 .. n /\ Distance - m + k = Distance - n + k - 1
          <6>1. n \in Nat /\ m = n + 1 /\ Distance \in Nat
            BY <1>1, <3>1
          <6>. HIDE DEF Resolved
          <6>. QED BY <6>1, <4>2
        <5>. QED BY <1>4, <1>6, <5>1
      <4>. QED BY <4>1, <4>2
    <3>3. RecentOrigins' = all
      BY <1>6, <1>7, <3>1, <3>2, SeqEqual
    <3>. QED BY <3>1, <3>3 DEF Oracle!Remember, all
  <2>2. CASE n = Distance
    <3>1. Len(all) > Distance /\ m = n /\ all # << >>
      BY <1>1, <1>6, <2>2
    <3>2. /\ Tail(all) \in Seq(Origins \cup {None}) /\ Len(Tail(all)) = n
          /\ \A k \in 1 .. n : Tail(all)[k] = all[k + 1]
      BY <1>1, <1>6, <3>1, HeadTailProperties
    <3>3. ASSUME NEW k \in 1 .. n PROVE RecentOrigins'[k] = Tail(all)[k]
      <4>1. Tail(all)[k] = all[k + 1] /\ RecentOrigins'[k] = at(Distance - m + k)
        BY <1>4, <3>1, <3>2
      <4>2. CASE k = n
        BY <1>1, <1>6, <2>2, <3>1, <4>1, <4>2
      <4>3. CASE k # n
        <5>1. k + 1 \in 1 .. n /\ Distance - n + (k + 1) - 1 = Distance - m + k
          BY <1>1, <3>1, <4>3
        <5>. QED BY <1>6, <4>1, <5>1
      <4>. QED BY <4>2, <4>3
    <3>4. RecentOrigins' = Tail(all)
      BY <1>7, <3>1, <3>2, <3>3, SeqEqual
    <3>. QED BY <3>1, <3>4 DEF Oracle!Remember, all
  <2>. QED BY <1>1, <2>1, <2>2
<1>9. lastIp # None
  BY <1>1, AheadAssumption
<1>10. OriginOf(trained)' \in {Oracle!Due, None}
  <2>1. consulted = Consulted
    BY DEF IInv, ConsultedIsDue
  <2>. QED BY <2>1, DueIsConsulted DEF OriginOf
<1>12. OriginOf(consulted)' = OriginOf(consulted)
  BY DEF OriginOf
<1>. QED BY <1>8, <1>9, <1>10, <1>12 DEF Oracle!Resolve, new

\* Every step of the predictor is a step of the oracle or leaves it alone.
LEMMA StepRefines ==
    IInv /\ IInv' /\ [Next]_vars => [Oracle!OracleNext]_(Oracle!oracleVars)
<1>. SUFFICES ASSUME IInv, IInv', [Next]_vars
     PROVE  [Oracle!OracleNext]_(Oracle!oracleVars)
  OBVIOUS
<1>1. ASSUME NEW ip \in AheadPcs, Predicted(ip) PROVE Oracle!OracleNext
  BY <1>1, PredictRefines DEF Oracle!OracleNext
<1>2. ASSUME NEW conditional \in BOOLEAN, state = "PREDICTED",
             LastBranchResult(lastIp, conditional)
      PROVE  Oracle!OracleNext
  BY <1>2, BranchResultEffect, ResolveRefines DEF Oracle!OracleNext
<1>3. ASSUME Abort \/ UNCHANGED vars PROVE UNCHANGED Oracle!oracleVars
  BY <1>3 DEF Abort, vars, Oracle!oracleVars, RecentOrigins, At, OriginOf
<1>4. ASSUME NEW ip \in AheadPcs, NEW useBm \in BOOLEAN, PredictBranch(ip, useBm)
      PROVE  [Oracle!OracleNext]_(Oracle!oracleVars)
  BY <1>1, <1>3, <1>4, PredictEffect
<1>. QED BY <1>2, <1>3, <1>4 DEF Next

-----------------------------------------------------------------------------
\* Every variable keeps its type (AheadTage's state, whatever the distance).
THEOREM AheadTypeCorrect == Spec => []TypeOK
<1>1. IInv => TypeOK
  BY DEF IInv
<1>. QED BY <1>1, SpecIInv, PTL

\* For every distance: the delay queue is the window of the branches predicted
\* for, in order and with their outcomes, each valid slot has its one entry, and
\* a branch is answered under the hash of exactly the Distance branches between,
\* as soon as there are so many (commit_state_at_retire, get_recent_hist_hash).
THEOREM QueueStaysSound == Spec => []QueueSound
<1>1. IInv => QueueSound
  BY SlotsHaveEntries, ConsultedCoversTheGap DEF IInv, QueueSound
<1>. QED BY <1>1, SpecIInv, PTL

\* No assertion of the predictor, its ring or its queue fails before the ids of
\* the branches are used up.
THEOREM AheadAssertionsHold == Spec => []AbortsOnlyWhenIdsRunOut
<1>1. IInv => AbortsOnlyWhenIdsRunOut
  BY DEF IInv
<1>. QED BY <1>1, SpecIInv, PTL

\* A branch trains the answer that was picked for it, under the hash it was
\* picked by, or none, in every step that trains (commit_state).
THEOREM TrainsThePickedAnswer == Spec => TrainsWhatWasPicked
<1>1. IInv /\ [Next]_vars => [trained' # trained => trained' \in {consulted, None}]_vars
  <2>. SUFFICES ASSUME IInv, Next
       PROVE  trained' # trained => trained' \in {consulted, None}
    OBVIOUS
  <2>1. ASSUME NEW ip \in AheadPcs, NEW useBm \in BOOLEAN, PredictBranch(ip, useBm)
        PROVE  trained' = trained
    BY <2>1, PredictEffect DEF Predicted, Abort
  <2>2. ASSUME NEW conditional \in BOOLEAN, state = "PREDICTED",
               LastBranchResult(lastIp, conditional)
        PROVE  trained' \in {consulted, None}
    BY <2>2, BranchResultEffect DEF Resolved
  <2>. QED BY <2>1, <2>2 DEF Next
<1>. QED BY <1>1, SpecIInv, PTL DEF Spec, TrainsWhatWasPicked

\* The slots and the delay queue together implement AheadOracle: the answer a
\* branch consults is one of those generated Distance branches before it.
THEOREM QueueImplementsOracle == Spec => ImplementsOracle
<1>1. Init => Oracle!OracleInit
  <2>. SUFFICES ASSUME Init PROVE Oracle!OracleInit
    OBVIOUS
  <2>1. IInv
    BY InitIInv
  <2>2. RecentOrigins = << >>
    <3>1. branches = 0 /\ branches < Distance
      BY CapacityFacts DEF Init
    <3>2. RecentOrigins = [k \in 1 .. 0 |->
             buf.slot[PhysicalIndex(branches + (Distance - 0 + k - 1))].gen]
      BY <2>1, <3>1, RecentFacts DEF RecentSlots
    <3>. QED BY <3>2
  <2>. QED BY <2>2 DEF Init, Oracle!OracleInit, OriginOf
<1>. QED BY <1>1, StepRefines, SpecIInv, PTL DEF Spec, ImplementsOracle, Oracle!OracleSpec
=============================================================================
