----------------------- MODULE AheadPredictor_proofs -----------------------
(***************************************************************************)
(* For every InFlight, Distance, IdMod and set of addresses: the type      *)
(* invariant of AheadPredictor, the ownership of the slots, and from them  *)
(* that a prediction is served exactly Distance branches after it was      *)
(* generated and that no assertion fails before the ids run out.           *)
(***************************************************************************)
EXTENDS AheadPredictor

\* The last answer is still what the slot of the current branch holds.
ServedFromSlot == state = "PREDICTED" => served = Answer(buf, branches)

\* The invariant is inductive: the type of the variables, where the ids are,
\* who owns a slot, and that nothing speculative is left between calls.
IInv ==
    /\ TypeOK
    /\ IdsFollowBranches
    /\ SlotOwnership
    /\ NoSpeculativeBitsLeft
    /\ ServedDistanceBack
    /\ AbortsOnlyWhenIdsRunOut
    /\ ServedFromSlot

\* initialize_branch_predictor establishes the inductive invariant.
LEMMA InitIInv == Init => IInv
<1>. SUFFICES ASSUME Init PROVE IInv
  OBVIOUS
<1>. USE DEF Init, NewBuffer
<1>1. TypeOK
  <2>1. Empty \in Slots
    BY DEF Empty, Slots
  <2>2. Distance \in Ids /\ 0 \in Ids
    BY CapacityFacts DEF Ids
  <2>. QED BY <2>1, <2>2 DEF TypeOK
<1>2. IdsFollowBranches
  BY CapacityFacts, AddIdFacts DEF IdsFollowBranches
<1>3. SlotOwnership
  BY IndexFacts, CapacityFacts DEF SlotOwnership, Index
<1>4. NoSpeculativeBitsLeft /\ ServedDistanceBack /\ AbortsOnlyWhenIdsRunOut
  BY DEF NoSpeculativeBitsLeft, ServedDistanceBack, AbortsOnlyWhenIdsRunOut
<1>5. ServedFromSlot
  BY DEF ServedFromSlot
<1>. QED BY <1>1, <1>2, <1>3, <1>4, <1>5 DEF IInv

-----------------------------------------------------------------------------
\* The window of ids has not wrapped as long as Distance more ids are left.
LEMMA WindowNotWrapped ==
    ASSUME IInv
    PROVE  /\ branches + Distance < IdMod =>
                /\ AddId(branches, Distance) = branches + Distance
                /\ InBuffer(buf, branches)
                /\ InBuffer(buf, branches + Distance)
           /\ InBuffer(buf, AddId(branches, Distance)) =>
                branches + Distance < IdMod
<1>. USE CapacityFacts
<1>0. branches \in Nat /\ IdsFollowBranches
  BY DEF IInv, TypeOK
<1>1. ASSUME branches + Distance < IdMod
      PROVE  /\ AddId(branches, Distance) = branches + Distance
             /\ InBuffer(buf, branches)
             /\ InBuffer(buf, branches + Distance)
  <2>1. AddId(branches, Distance) = branches + Distance
    BY <1>0, <1>1, AddIdFacts
  <2>. QED BY <2>1, <1>0 DEF InBuffer, IdsFollowBranches
<1>2. ASSUME branches + Distance = IdMod
      PROVE  ~InBuffer(buf, AddId(branches, Distance))
  <2>1. AddId(branches, Distance) = 0
    BY <1>0, <1>2, AddIdFull
  <2>2. branches > 0
    BY <1>0, <1>2 DEF Capacity
  <2>. QED BY <2>1, <2>2, <1>0 DEF InBuffer, IdsFollowBranches
<1>3. branches + Distance <= IdMod
  BY <1>0 DEF IdsFollowBranches
<1>. QED BY <1>0, <1>1, <1>2, <1>3

\* The instruction before the one being predicted was no branch, so its slot
\* is not retired: predict_branch works on the buffer as it stands.
LEMMA NothingToRetire ==
    ASSUME IInv
    PROVE  /\ ~At(buf, branches).updated
           /\ At(buf, branches) \in Slots
           /\ At(buf, branches + Distance) \in Slots
           /\ ~At(buf, branches + Distance).updated
<1>. USE CapacityFacts
<1>1. branches \in Nat /\ buf.slot \in [Index -> Slots] /\ SlotOwnership
  BY DEF IInv, TypeOK
<1>2. 0 \in Index /\ Distance \in Index /\ branches + 0 = branches
  BY <1>1 DEF Index
<1>3. PhysicalIndex(branches) \in Index /\ PhysicalIndex(branches + Distance) \in Index
  BY <1>1, IndexFacts
<1>4. \A k \in Index : ~buf.slot[PhysicalIndex(branches + k)].updated
  BY <1>1 DEF SlotOwnership, Empty
<1>. QED BY <1>1, <1>2, <1>3, <1>4 DEF At

\* What predict_branch does to the ring: the slot furthest ahead is written and
\* no other, the current one is answered from.
Predicted(ip) ==
    /\ branches + Distance < IdMod
    /\ UNCHANGED <<branches, specBits, trained, aborted>>
    /\ state' = "PREDICTED" /\ lastIp' = ip /\ id' = branches
    /\ served' = Answer(buf, branches)
    /\ buf'.slot \in [Index -> Slots]
    /\ buf' = [slot |-> buf'.slot, readId |-> buf.readId,
               allocId |-> buf.allocId]
    /\ \A k \in Index : k # Distance =>
          buf'.slot[PhysicalIndex(branches + k)]
             = buf.slot[PhysicalIndex(branches + k)]
    /\ LET s == buf'.slot[PhysicalIndex(branches + Distance)]
       IN  /\ s.valid /\ ~s.updated
           /\ s.gen = [pc |-> ip, at |-> branches]

\* predict_branch does just that, or aborts when no id is left to predict for.
LEMMA PredictEffect ==
    ASSUME IInv, NEW ip \in Pcs, PredictBranch(ip)
    PROVE  Predicted(ip) \/ (Abort /\ branches + Distance >= IdMod)
<1>. USE CapacityFacts
<1>. DEFINE i == branches
            f == branches + Distance
            g == Generated(buf, i, ip)
<1>0. /\ TypeOK /\ IdsFollowBranches /\ SlotOwnership
      /\ branches \in Nat /\ buf.slot \in [Index -> Slots]
  BY DEF IInv, TypeOK
<1>1. state = "PREDICTED" =>
         /\ id = i
         /\ RetireAsserts(buf, specBits, id)
         /\ RetiredBuffer(buf, id) = buf
         /\ RetiredBits(buf, specBits, id) = specBits
  BY <1>0, NothingToRetire, WindowNotWrapped
     DEF IdsFollowBranches, RetireAsserts, RetiredBuffer, RetiredBits
<1>2. buf.readId = i
  BY <1>0 DEF IdsFollowBranches
<1>3. CASE branches + Distance < IdMod
  <2>1. /\ buf' = g
        /\ served' = Answer(g, i)
        /\ id' = i
        /\ specBits' = specBits
        /\ lastIp' = ip
        /\ state' = "PREDICTED"
        /\ UNCHANGED <<branches, trained, aborted>>
    BY <1>1, <1>2, <1>3, WindowNotWrapped DEF PredictBranch
  <2>. DEFINE fs == [valid |-> TRUE, gen |-> [pc |-> ip, at |-> branches],
                     bits |-> At(buf, f).bits, updated |-> At(buf, f).updated]
  <2>2. /\ g.slot = [buf.slot EXCEPT ![PhysicalIndex(f)] = fs]
        /\ g = [slot |-> g.slot, readId |-> buf.readId, allocId |-> buf.allocId]
    BY <1>0, <1>3, WindowNotWrapped DEF Generated, Put, TypeOK
  <2>3. /\ fs \in Slots /\ fs.valid /\ ~fs.updated
        /\ fs.gen = [pc |-> ip, at |-> branches]
    BY <1>0, NothingToRetire DEF Slots, Origins
  <2>. HIDE DEF fs
  <2>4. PhysicalIndex(f) \in Index
    BY <1>0, IndexFacts
  <2>5. ASSUME NEW k \in Index, k # Distance
        PROVE  g.slot[PhysicalIndex(branches + k)]
                  = buf.slot[PhysicalIndex(branches + k)]
    <3>1. branches + k \in Nat /\ Distance \in Index
      BY <1>0 DEF Index
    <3>2. PhysicalIndex(branches + k) \in Index
      BY <3>1, IndexFacts
    <3>3. PhysicalIndex(branches + k) # PhysicalIndex(f)
      BY <2>5, <3>1, <1>0, IndexDistinct
    <3>. QED BY <3>2, <3>3, <2>2, <2>4, <1>0
  <2>6. g.slot \in [Index -> Slots] /\ g.slot[PhysicalIndex(f)] = fs
    BY <2>2, <2>3, <2>4, <1>0
  <2>7. Answer(g, i) = Answer(buf, i)
    <3>1. 0 \in Index /\ 0 # Distance /\ branches + 0 = branches
      BY <1>0 DEF Index
    <3>2. g.slot[PhysicalIndex(branches)] = buf.slot[PhysicalIndex(branches)]
      BY <2>5, <3>1
    <3>. HIDE DEF g
    <3>. QED BY <3>2 DEF Answer, At
  <2>. HIDE DEF g
  <2>. QED BY <1>3, <2>1, <2>2, <2>3, <2>5, <2>6, <2>7 DEF Predicted
<1>4. CASE branches + Distance >= IdMod
  BY <1>1, <1>2, <1>4, WindowNotWrapped, <1>0 DEF PredictBranch
<1>. QED BY <1>0, <1>3, <1>4

\* predict_branch keeps the inductive invariant.
LEMMA PredictIInv ==
    ASSUME IInv, NEW ip \in Pcs, PredictBranch(ip)
    PROVE  IInv'
<1>. USE CapacityFacts
<1>0. /\ TypeOK /\ IdsFollowBranches /\ SlotOwnership /\ ServedDistanceBack
      /\ AbortsOnlyWhenIdsRunOut /\ NoSpeculativeBitsLeft /\ ServedFromSlot
      /\ branches \in Nat /\ buf.slot \in [Index -> Slots]
  BY DEF IInv, TypeOK
<1>1. CASE Predicted(ip)
  <2>. USE <1>1 DEF Predicted
  <2>1. SlotOwnership'
    <3>. SUFFICES ASSUME NEW k \in Index
         PROVE (LET s == buf'.slot[PhysicalIndex(branches + k)]
                    inUse == \/ k < Distance /\ branches + k >= Distance
                             \/ k = Distance
                IN  /\ s = Empty \/ inUse
                    /\ inUse => /\ s.valid /\ ~s.updated
                                /\ s.gen \in Origins
                                /\ s.gen.at = branches + k - Distance
                                /\ k = Distance => s.gen.pc = ip)
      BY <1>1 DEF SlotOwnership
    <3>1. CASE k = Distance
      <4>1. [pc |-> ip, at |-> branches] \in Origins
        BY <1>0 DEF Origins
      <4>. QED BY <3>1, <4>1, <1>0, <1>1
    <3>2. CASE k # Distance
      <4>1. buf'.slot[PhysicalIndex(branches + k)]
               = buf.slot[PhysicalIndex(branches + k)]
        BY <1>1, <3>2
      <4>. QED BY <3>2, <4>1, <1>0 DEF SlotOwnership
    <3>. QED BY <3>1, <3>2
  <2>2. PhysicalIndex(branches) \in Index
    BY <1>0, IndexFacts
  <2>3. 0 \in Index /\ 0 # Distance /\ branches + 0 = branches
    BY <1>0 DEF Index
  <2>4. TypeOK'
    <3>1. served' \in Origins \cup {None}
      BY <1>0, <1>1, <2>2 DEF Answer, At, Slots
    <3>2. branches \in Ids
      BY <1>0, <1>1 DEF Ids
    <3>3. buf' \in [slot : [Index -> Slots], readId : Ids, allocId : Ids]
      BY <1>0, <1>1 DEF TypeOK
    <3>. QED BY <1>0, <1>1, <3>1, <3>2, <3>3 DEF TypeOK
  <2>5. IdsFollowBranches'
    <3>1. buf'.readId = buf.readId /\ buf'.allocId = buf.allocId
      BY <1>1
    <3>. QED BY <1>0, <1>1, <3>1 DEF IdsFollowBranches
  <2>6. ServedDistanceBack'
    <3>1. LET s == buf.slot[PhysicalIndex(branches)]
          IN  /\ branches < Distance => s = Empty
              /\ branches >= Distance =>
                   s.valid /\ s.gen \in Origins /\ s.gen.at = branches - Distance
      BY <2>3, <1>0 DEF SlotOwnership
    <3>. QED BY <1>0, <1>1, <3>1 DEF ServedDistanceBack, Answer, At, Empty
  <2>7. ServedFromSlot'
    <3>1. buf'.slot[PhysicalIndex(branches)] = buf.slot[PhysicalIndex(branches)]
      BY <1>1, <2>3
    <3>. QED BY <3>1, <1>1 DEF ServedFromSlot, Answer, At
  <2>8. NoSpeculativeBitsLeft' /\ AbortsOnlyWhenIdsRunOut'
    BY <1>0, <1>1 DEF NoSpeculativeBitsLeft, AbortsOnlyWhenIdsRunOut
  <2>. QED BY <2>1, <2>4, <2>5, <2>6, <2>7, <2>8 DEF IInv
<1>2. CASE Abort /\ branches + Distance >= IdMod
  BY <1>0, <1>2
  DEF Abort, IInv, TypeOK, IdsFollowBranches, SlotOwnership, ServedFromSlot, Answer,
      At, NoSpeculativeBitsLeft, ServedDistanceBack, AbortsOnlyWhenIdsRunOut
<1>. QED BY <1>1, <1>2, PredictEffect

-----------------------------------------------------------------------------
\* What last_branch_result does to the ring: the slot of the branch is cleared
\* and becomes the one furthest ahead, the other slots move one branch nearer.
Resolved ==
    /\ branches' = branches + 1
    /\ trained' \in {Answer(buf, branches), None}
    /\ state' = "NONE" /\ ~aborted
    /\ UNCHANGED <<specBits, lastIp, id, served, aborted>>
    /\ buf'.slot = [buf.slot EXCEPT ![PhysicalIndex(branches)] = Empty]
    /\ buf' = [slot |-> buf'.slot, readId |-> branches + 1,
               allocId |-> AddId(branches + 1, Distance)]
    /\ \A k \in Index :
          buf'.slot[PhysicalIndex(branches + 1 + k)] =
             IF k = Capacity - 1 THEN Empty
             ELSE buf.slot[PhysicalIndex(branches + (k + 1))]

\* last_branch_result does just that; none of its assertions can fail.
LEMMA BranchResultEffect ==
    ASSUME IInv, NEW kind \in Kinds, state = "PREDICTED",
           LastBranchResult(lastIp, kind)
    PROVE  Resolved
<1>. USE CapacityFacts
<1>. DEFINE bits == HistoryBits(kind)
            b == HistoryUpdated(buf, id, bits)
            p == PhysicalIndex(branches)
<1>0. /\ TypeOK /\ IdsFollowBranches /\ SlotOwnership /\ ServedDistanceBack
      /\ AbortsOnlyWhenIdsRunOut /\ NoSpeculativeBitsLeft
      /\ branches \in Nat /\ buf.slot \in [Index -> Slots] /\ specBits = 0
      /\ id = branches /\ buf.readId = branches /\ branches + Distance < IdMod
  BY DEF IInv, TypeOK, IdsFollowBranches, NoSpeculativeBitsLeft
<1>1. p \in Index
  BY <1>0, IndexFacts
<1>2. bits \in {2, 3} /\ bits <= MaxSpecBits
  <2>1. MaxSpecBits >= 3
    BY PredictorAssumption
  <2>. QED BY <2>1, PredictorAssumption DEF HistoryBits
<1>. DEFINE s0 == [valid |-> At(buf, id).valid, gen |-> At(buf, id).gen,
                   bits |-> bits, updated |-> TRUE]
<1>3. b = [slot |-> [buf.slot EXCEPT ![p] = s0], readId |-> buf.readId,
           allocId |-> buf.allocId]
  BY <1>0 DEF HistoryUpdated, Put
<1>4. At(b, id) = s0
  BY <1>0, <1>1, <1>3 DEF At
<1>. DEFINE n == DeallocateFront(b, id, Empty)
<1>5. /\ RetireAsserts(b, specBits + bits, id)
      /\ RetiredBuffer(b, id) = n
      /\ RetiredBits(b, specBits + bits, id) = specBits
  <2>1. InBuffer(b, id)
    BY <1>0, <1>3, WindowNotWrapped DEF InBuffer
  <2>2. At(b, id).updated = TRUE /\ At(b, id).bits = bits
    BY <1>4
  <2>3. specBits + bits = bits /\ bits > 0 /\ bits <= bits /\ bits - bits = specBits
    BY <1>0, <1>2
  <2>4. id = b.readId
    BY <1>0, <1>3
  <2>. HIDE DEF b, bits
  <2>5. RetireAsserts(b, specBits + bits, id)
    BY <2>1, <2>2, <2>3, <2>4 DEF RetireAsserts
  <2>6. RetiredBuffer(b, id) = n
    BY <2>2 DEF RetiredBuffer
  <2>7. RetiredBits(b, specBits + bits, id) = specBits
    BY <2>2, <2>3 DEF RetiredBits
  <2>. QED BY <2>5, <2>6, <2>7
<1>6. /\ branches' = branches + 1
      /\ trained' = Trained(b, id, kind)
      /\ buf' = n
      /\ specBits' = specBits
      /\ state' = "NONE"
      /\ UNCHANGED <<lastIp, id, served, aborted>>
      /\ ~aborted
  <2>1. InBuffer(buf, id) /\ specBits + bits <= MaxSpecBits
    BY <1>0, <1>2, WindowNotWrapped
  <2>. HIDE DEF bits
  <2>. QED BY <2>1, <1>5 DEF LastBranchResult, bits
<1>7. /\ n.slot = [buf.slot EXCEPT ![p] = Empty]
      /\ n.readId = branches + 1
      /\ n.allocId = AddId(branches + 1, Distance)
      /\ n = [slot |-> n.slot, readId |-> n.readId, allocId |-> n.allocId]
  <2>1. n = [slot |-> [b.slot EXCEPT ![p] = Empty],
             readId |-> AddId(b.readId, 1), allocId |-> AddId(b.allocId, 1)]
    BY <1>0 DEF DeallocateFront
  <2>2. [b.slot EXCEPT ![p] = Empty] = [buf.slot EXCEPT ![p] = Empty]
    BY <1>0, <1>1, <1>3
  <2>3. AddId(b.readId, 1) = branches + 1
    BY <1>0, <1>3, AddIdFacts
  <2>4. buf.allocId = branches + Distance
    BY <1>0, WindowNotWrapped DEF IdsFollowBranches
  <2>5. AddId(b.allocId, 1) = AddId(branches + 1, Distance)
    BY <1>0, <1>3, <2>4 DEF AddId
  <2>. HIDE DEF n, b
  <2>. QED BY <2>1, <2>2, <2>3, <2>5
<1>. HIDE DEF n, b, s0, bits
<1>8. \A k \in Index :
         n.slot[PhysicalIndex(branches + 1 + k)] =
            IF k = Capacity - 1 THEN Empty
            ELSE buf.slot[PhysicalIndex(branches + (k + 1))]
  <2>. DEFINE old == buf.slot
              new == n.slot
  <2>1. Written(old, new, branches, Empty) /\ branches \in Nat
    BY <1>0, <1>7 DEF Written
  <2>. HIDE DEF old, new
  <2>2. \A k \in Index :
           new[PhysicalIndex(branches + 1 + k)] =
              IF k = Capacity - 1 THEN Empty
              ELSE old[PhysicalIndex(branches + (k + 1))]
    BY <2>1, WindowMoves
  <2>. QED BY <2>2 DEF old, new
<1>9. trained' \in {Answer(buf, branches), None}
  <2>1. At(b, id).valid = At(buf, branches).valid /\ At(b, id).gen = At(buf, branches).gen
    BY <1>0, <1>4 DEF s0
  <2>. QED BY <1>6, <2>1 DEF Trained, Answer
<1>. QED BY <1>6, <1>7, <1>8, <1>9 DEF Resolved

\* last_branch_result keeps the inductive invariant.
LEMMA BranchResultIInv ==
    ASSUME IInv, NEW kind \in Kinds, state = "PREDICTED",
           LastBranchResult(lastIp, kind)
    PROVE  IInv'
<1>. USE CapacityFacts
<1>0. /\ TypeOK /\ IdsFollowBranches /\ SlotOwnership /\ ServedDistanceBack
      /\ AbortsOnlyWhenIdsRunOut /\ NoSpeculativeBitsLeft
      /\ branches \in Nat /\ buf.slot \in [Index -> Slots] /\ specBits = 0
      /\ id = branches /\ buf.readId = branches /\ branches + Distance < IdMod
  BY DEF IInv, TypeOK, IdsFollowBranches, NoSpeculativeBitsLeft
<1>1. PhysicalIndex(branches) \in Index
  BY <1>0, IndexFacts
<1>2. Resolved
  BY BranchResultEffect
<1>. USE DEF Resolved
<1>3. SlotOwnership'
  <2>. SUFFICES ASSUME NEW k \in Index
       PROVE (LET s == buf'.slot[PhysicalIndex(branches + 1 + k)]
                  inUse == k < Distance /\ branches + 1 + k >= Distance
              IN  /\ s = Empty \/ inUse
                  /\ inUse => /\ s.valid /\ ~s.updated
                              /\ s.gen \in Origins
                              /\ s.gen.at = branches + 1 + k - Distance
                              /\ k # Distance)
    BY <1>2 DEF SlotOwnership
  <2>1. CASE k = Capacity - 1
    BY <2>1, <1>2, <1>0 DEF Capacity, Index
  <2>2. CASE k # Capacity - 1
    <3>1. k + 1 \in Index /\ branches + (k + 1) = branches + 1 + k
      BY <2>2, <1>0 DEF Index
    <3>2. buf'.slot[PhysicalIndex(branches + 1 + k)]
             = buf.slot[PhysicalIndex(branches + (k + 1))]
      BY <2>2, <1>2
    <3>3. LET s == buf.slot[PhysicalIndex(branches + (k + 1))]
              inUse == \/ k + 1 < Distance /\ branches + (k + 1) >= Distance
                       \/ k + 1 = Distance
          IN  /\ s = Empty \/ inUse
              /\ inUse => /\ s.valid /\ ~s.updated
                          /\ s.gen \in Origins
                          /\ s.gen.at = branches + (k + 1) - Distance
      BY <3>1, <1>0 DEF SlotOwnership
    <3>4. k \in Nat /\ branches + 1 + k \in Nat
      BY <1>0 DEF Index
    <3>5. (k < Distance /\ branches + 1 + k >= Distance) <=>
             \/ k + 1 < Distance /\ branches + (k + 1) >= Distance
             \/ k + 1 = Distance
      BY <3>4, <1>0
    <3>6. k < Distance /\ branches + 1 + k >= Distance => k # Distance
      BY <3>4, <1>0
    <3>. DEFINE t == buf.slot[PhysicalIndex(branches + (k + 1))]
                inUse == k < Distance /\ branches + 1 + k >= Distance
    <3>7. t = Empty \/ inUse
      BY <3>3, <3>5
    <3>8. inUse => /\ t.valid /\ ~t.updated
                   /\ t.gen \in Origins
                   /\ t.gen.at = branches + 1 + k - Distance
      <4>. HAVE inUse
      <4>1. branches + (k + 1) - Distance = branches + 1 + k - Distance
        BY <3>4, <1>0
      <4>2. /\ t.valid /\ ~t.updated
            /\ t.gen \in Origins
            /\ t.gen.at = branches + (k + 1) - Distance
        BY <3>3, <3>5
      <4>. HIDE DEF t
      <4>. QED BY <4>1, <4>2
    <3>. HIDE DEF t, inUse
    <3>. QED BY <3>2, <3>6, <3>7, <3>8 DEF t, inUse
  <2>. QED BY <2>1, <2>2
<1>4. TypeOK'
  <2>1. Empty \in Slots
    BY DEF Empty, Slots
  <2>2. buf'.slot \in [Index -> Slots]
    BY <1>0, <1>1, <1>2, <2>1
  <2>3. branches + 1 \in Ids /\ AddId(branches + 1, Distance) \in Ids
    <3>1. branches + 1 \in Nat /\ branches + 1 < IdMod /\ branches + 1 \in Ids
      BY <1>0 DEF Ids
    <3>. QED BY <3>1, AddIdFacts
  <2>4. buf' \in [slot : [Index -> Slots], readId : Ids, allocId : Ids]
    BY <1>2, <2>2, <2>3
  <2>5. trained' \in Origins \cup {None}
    BY <1>0, <1>1, <1>2 DEF Answer, At, Slots
  <2>. QED BY <1>0, <1>2, <2>4, <2>5 DEF TypeOK
<1>5. IdsFollowBranches'
  BY <1>0, <1>2 DEF IdsFollowBranches
<1>6. NoSpeculativeBitsLeft' /\ ServedDistanceBack' /\ AbortsOnlyWhenIdsRunOut'
      /\ ServedFromSlot'
  BY <1>0, <1>2
     DEF ServedFromSlot, NoSpeculativeBitsLeft, ServedDistanceBack, AbortsOnlyWhenIdsRunOut
<1>. QED BY <1>3, <1>4, <1>5, <1>6 DEF IInv

\* Every step keeps the inductive invariant.
LEMMA NextIInv == IInv /\ [Next]_vars => IInv'
<1>. SUFFICES ASSUME IInv, [Next]_vars PROVE IInv'
  OBVIOUS
<1>1. ASSUME NEW ip \in Pcs, PredictBranch(ip) PROVE IInv'
  BY <1>1, PredictIInv
<1>2. ASSUME NEW kind \in Kinds, state = "PREDICTED", LastBranchResult(lastIp, kind)
      PROVE  IInv'
  BY <1>2, BranchResultIInv
<1>3. CASE UNCHANGED vars
  BY <1>3 DEF vars, IInv, TypeOK, IdsFollowBranches, SlotOwnership,
              NoSpeculativeBitsLeft, ServedDistanceBack, AbortsOnlyWhenIdsRunOut,
              ServedFromSlot, Answer, At
<1>. QED BY <1>1, <1>2, <1>3 DEF Next

-----------------------------------------------------------------------------
\* The inductive invariant holds in every reachable state.
LEMMA SpecIInv == Spec => []IInv
BY InitIInv, NextIInv, PTL DEF Spec

\* Every variable keeps its type (AheadPredictor's state, whatever the ring).
THEOREM TypeCorrect == Spec => []TypeOK
<1>1. IInv => TypeOK
  BY DEF IInv
<1>. QED BY <1>1, SpecIInv, PTL

\* Whatever the distance and the size of the ring, the slot of a branch holds
\* the prediction generated Distance branches before it and nothing else does.
THEOREM SlotsAreOwned == Spec => []SlotOwnership
<1>1. IInv => SlotOwnership
  BY DEF IInv
<1>. QED BY <1>1, SpecIInv, PTL

\* The answer of predict_branch is the prediction generated exactly Distance
\* branches earlier, whatever instructions are predicted in between.
THEOREM AnswersComeFromDistanceBack == Spec => []ServedDistanceBack
<1>1. IInv => ServedDistanceBack
  BY DEF IInv
<1>. QED BY <1>1, SpecIInv, PTL

\* The assertions of the predictor, the buffer and the history register hold
\* until the ids of the branches are used up.
THEOREM AssertionsHold == Spec => []AbortsOnlyWhenIdsRunOut
<1>1. IInv => AbortsOnlyWhenIdsRunOut
  BY DEF IInv
<1>. QED BY <1>1, SpecIInv, PTL

-----------------------------------------------------------------------------
\* Pcs is all the oracle needs to know of an address: None is none of them.
LEMMA NoneIsNoPc == None \notin Pcs
BY PredictorAssumption

\* RecentOrigins reads the slots of the next branches in their order, the first
\* of them the slot of the current branch once Distance branches have gone by.
RecentSlots ==
    LET n == IF branches < Distance THEN branches ELSE Distance
    IN  /\ RecentOrigins =
             [k \in 1 .. n |->
                buf.slot[PhysicalIndex(branches + (Distance - n + k - 1))].gen]
        /\ RecentOrigins \in Seq(Origins \cup {None})
        /\ Len(RecentOrigins) = n

\* So it is whenever the inductive invariant holds: none of the ids wraps.
LEMMA RecentFacts == IInv => RecentSlots
<1>. SUFFICES ASSUME IInv PROVE RecentSlots
  OBVIOUS
<1>. USE CapacityFacts
<1>. DEFINE n == IF branches < Distance THEN branches ELSE Distance
<1>1. /\ branches \in Nat /\ buf.readId = branches /\ branches + Distance <= IdMod
      /\ n \in Nat /\ n <= Distance
  BY DEF IInv, TypeOK, IdsFollowBranches
<1>2. ASSUME NEW k \in 1 .. n
      PROVE  AddId(buf.readId, Distance - n + k - 1)
                = branches + (Distance - n + k - 1)
  <2>1. Distance - n + k - 1 \in Nat /\ Distance - n + k - 1 < Distance
    BY <1>1
  <2>2. branches + (Distance - n + k - 1) < IdMod
    BY <1>1, <2>1
  <2>. HIDE DEF n
  <2>. QED BY <1>1, <2>1, <2>2, AddIdFacts
<1>. HIDE DEF n
<1>3. RecentOrigins =
        [k \in 1 .. n |->
           buf.slot[PhysicalIndex(branches + (Distance - n + k - 1))].gen]
  BY <1>2 DEF RecentOrigins, At, n
<1>4. RecentOrigins \in [1 .. n -> Origins \cup {None}]
  <2>1. ASSUME NEW k \in 1 .. n
        PROVE  buf.slot[PhysicalIndex(branches + (Distance - n + k - 1))].gen
                  \in Origins \cup {None}
    <3>1. branches + (Distance - n + k - 1) \in Nat
      BY <1>1
    <3>2. PhysicalIndex(branches + (Distance - n + k - 1)) \in Index
      BY <3>1, IndexFacts
    <3>. QED BY <3>2 DEF IInv, TypeOK, Slots
  <2>. QED BY <2>1, <1>3
<1>5. RecentOrigins \in Seq(Origins \cup {None}) /\ Len(RecentOrigins) = n
  BY <1>1, <1>4, FunctionIsSeq
<1>. QED BY <1>3, <1>5 DEF n, RecentSlots

\* What the oracle calls due is what the slot of the current branch holds.
LEMMA DueIsTheAnswer ==
    ASSUME IInv
    PROVE  Oracle!Due = Answer(buf, branches)
<1>. USE CapacityFacts
<1>1. branches \in Nat /\ SlotOwnership
  BY DEF IInv, TypeOK
<1>2. 0 \in Index /\ 0 # Distance /\ branches + 0 = branches
  BY <1>1 DEF Index
<1>3. CASE branches < Distance
  <2>1. Len(RecentOrigins) # Distance
    BY <1>1, <1>3, RecentFacts DEF RecentSlots
  <2>2. buf.slot[PhysicalIndex(branches)] = Empty
    BY <1>1, <1>2, <1>3 DEF SlotOwnership
  <2>. QED BY <2>1, <2>2 DEF Oracle!Due, Answer, At, Empty
<1>4. CASE branches >= Distance
  <2>1. Len(RecentOrigins) = Distance
    BY <1>1, <1>4, RecentFacts DEF RecentSlots
  <2>2. RecentOrigins[1] = buf.slot[PhysicalIndex(branches + 0)].gen
    <3>1. RecentOrigins = [k \in 1 .. Distance |->
             buf.slot[PhysicalIndex(branches + (Distance - Distance + k - 1))].gen]
      BY <1>1, <1>4, RecentFacts DEF RecentSlots
    <3>2. 1 \in 1 .. Distance /\ Distance - Distance + 1 - 1 = 0
      OBVIOUS
    <3>. QED BY <3>1, <3>2
  <2>3. buf.slot[PhysicalIndex(branches)].valid
    BY <1>1, <1>2, <1>4 DEF SlotOwnership
  <2>. QED BY <1>2, <2>1, <2>2, <2>3 DEF Oracle!Due, Answer, At
<1>. QED BY <1>1, <1>3, <1>4

\* predict_branch is Predict of the oracle: no remembered origin moves.
LEMMA PredictRefines ==
    ASSUME IInv, IInv', NEW ip \in Pcs, Predicted(ip)
    PROVE  Oracle!Predict(ip)
<1>. USE CapacityFacts DEF Predicted
<1>. DEFINE n == IF branches < Distance THEN branches ELSE Distance
<1>1. branches \in Nat /\ n \in Nat /\ n <= Distance
  BY DEF IInv, TypeOK
<1>2. ASSUME NEW k \in 1 .. n
      PROVE  buf'.slot[PhysicalIndex(branches + (Distance - n + k - 1))]
                = buf.slot[PhysicalIndex(branches + (Distance - n + k - 1))]
  <2>1. Distance - n + k - 1 \in Index /\ Distance - n + k - 1 # Distance
    BY <1>1 DEF Index
  <2>. HIDE DEF n
  <2>. QED BY <2>1
<1>3. RecentOrigins = [k \in 1 .. n |->
         buf.slot[PhysicalIndex(branches + (Distance - n + k - 1))].gen]
  BY RecentFacts DEF RecentSlots
<1>4. RecentOrigins' = [k \in 1 .. n |->
         buf'.slot[PhysicalIndex(branches + (Distance - n + k - 1))].gen]
  <2>1. RecentSlots'
    BY RecentFacts, PTL
  <2>. QED BY <2>1 DEF RecentSlots
<1>. HIDE DEF n
<1>5. RecentOrigins' = RecentOrigins
  BY <1>2, <1>3, <1>4
<1>. QED BY <1>5, DueIsTheAnswer DEF Oracle!Predict

\* last_branch_result is Resolve of the oracle: the prediction in the slot
\* furthest ahead is remembered and the one just served forgotten.
LEMMA ResolveRefines ==
    ASSUME IInv, IInv', state = "PREDICTED", Resolved
    PROVE  Oracle!Resolve
<1>. USE CapacityFacts DEF Resolved
<1>. DEFINE n == IF branches < Distance THEN branches ELSE Distance
            m == IF branches + 1 < Distance THEN branches + 1 ELSE Distance
            new == [pc |-> lastIp, at |-> branches]
            at(k) == buf.slot[PhysicalIndex(branches + k)].gen
<1>1. /\ branches \in Nat /\ n \in Nat /\ n <= Distance
      /\ m \in Nat /\ m <= Distance /\ SlotOwnership
      /\ m = IF n < Distance THEN n + 1 ELSE n
      /\ lastIp \in Pcs
  BY DEF IInv, TypeOK, IdsFollowBranches
<1>0. RecentSlots'
  BY RecentFacts, PTL
<1>2. at(Distance) = new
  <2>1. buf.slot[PhysicalIndex(branches + Distance)].gen \in Origins
    BY <1>1 DEF SlotOwnership
  <2>2. /\ buf.slot[PhysicalIndex(branches + Distance)].gen.at
               = branches + Distance - Distance
        /\ buf.slot[PhysicalIndex(branches + Distance)].gen.pc = lastIp
    BY <1>1 DEF SlotOwnership
  <2>3. branches + Distance - Distance = branches
    BY <1>1
  <2>. QED BY <2>1, <2>2, <2>3 DEF Origins
<1>3. RecentOrigins = [k \in 1 .. n |-> at(Distance - n + k - 1)]
  BY RecentFacts DEF RecentSlots
<1>4. RecentOrigins' = [k \in 1 .. m |-> at(Distance - m + k)]
  <2>1. RecentOrigins' = [k \in 1 .. m |->
           buf'.slot[PhysicalIndex(branches + 1 + (Distance - m + k - 1))].gen]
    BY <1>0 DEF RecentSlots
  <2>2. ASSUME NEW k \in 1 .. m
        PROVE  buf'.slot[PhysicalIndex(branches + 1 + (Distance - m + k - 1))]
                  = buf.slot[PhysicalIndex(branches + (Distance - m + k))]
    <3>1. /\ Distance - m + k - 1 \in Index
          /\ Distance - m + k - 1 # Capacity - 1
          /\ Distance - m + k - 1 + 1 = Distance - m + k
      BY <1>1 DEF Index
    <3>. HIDE DEF m
    <3>. QED BY <3>1
  <2>. HIDE DEF m
  <2>. QED BY <2>1, <2>2
<1>5. RecentOrigins \in Seq(Origins \cup {None}) /\ new \in Origins \cup {None}
      /\ Len(RecentOrigins) = n
  BY <1>1, RecentFacts DEF RecentSlots, Origins
<1>. HIDE DEF new, at, n, m
<1>. DEFINE all == Append(RecentOrigins, new)
<1>6. /\ all \in Seq(Origins \cup {None}) /\ Len(all) = n + 1
      /\ \A k \in 1 .. n : all[k] = at(Distance - n + k - 1)
      /\ all[n + 1] = at(Distance)
  BY <1>1, <1>2, <1>3, <1>5, AppendProperties
<1>. HIDE DEF all
<1>7. RecentOrigins' \in Seq(Origins \cup {None}) /\ Len(RecentOrigins') = m
  BY <1>0 DEF RecentSlots, m, Origins
<1>8. RecentOrigins' = Oracle!Remember(new)
  <2>1. CASE n < Distance
    <3>1. ~(Len(all) > Distance) /\ m = n + 1
      BY <1>1, <1>6, <2>1
    <3>2. ASSUME NEW k \in 1 .. m PROVE RecentOrigins'[k] = all[k]
      <4>1. CASE k = n + 1
        BY <1>1, <1>4, <1>6, <3>1, <4>1
      <4>2. CASE k # n + 1
        <5>1. k \in 1 .. n /\ Distance - m + k = Distance - n + k - 1
          <6>1. n \in Nat /\ m = n + 1 /\ Distance \in Nat
            BY <1>1, <3>1
          <6>. QED BY <6>1, <4>2
        <5>. QED BY <1>4, <1>6, <5>1
      <4>. QED BY <4>1, <4>2
    <3>3. RecentOrigins' = all
      BY <1>6, <1>7, <3>1, <3>2, SeqEqual
    <3>. QED BY <3>1, <3>3 DEF Oracle!Remember, all
  <2>2. CASE n = Distance
    <3>1. Len(all) > Distance /\ m = n /\ all # << >>
      BY <1>1, <1>6, <2>2
    <3>2. /\ Tail(all) \in Seq(Origins \cup {None}) /\ Len(Tail(all)) = n
          /\ \A k \in 1 .. n : Tail(all)[k] = all[k + 1]
      BY <1>1, <1>6, <3>1, HeadTailProperties
    <3>3. ASSUME NEW k \in 1 .. n PROVE RecentOrigins'[k] = Tail(all)[k]
      <4>1. Tail(all)[k] = all[k + 1] /\ RecentOrigins'[k] = at(Distance - m + k)
        BY <1>4, <3>1, <3>2
      <4>2. CASE k = n
        BY <1>1, <1>6, <2>2, <3>1, <4>1, <4>2
      <4>3. CASE k # n
        <5>1. k + 1 \in 1 .. n /\ Distance - n + (k + 1) - 1 = Distance - m + k
          BY <1>1, <3>1, <4>3
        <5>. QED BY <1>6, <4>1, <5>1
      <4>. QED BY <4>2, <4>3
    <3>4. RecentOrigins' = Tail(all)
      BY <1>7, <3>1, <3>2, <3>3, SeqEqual
    <3>. QED BY <3>1, <3>4 DEF Oracle!Remember, all
  <2>. QED BY <1>1, <2>1, <2>2
<1>9. lastIp # None
  BY <1>1, NoneIsNoPc
<1>. QED BY <1>8, <1>9, DueIsTheAnswer DEF Oracle!Resolve, new

\* Every step of the predictor is a step of the oracle or leaves it alone.
LEMMA StepRefines ==
    IInv /\ IInv' /\ [Next]_vars => [Oracle!OracleNext]_(Oracle!oracleVars)
<1>. SUFFICES ASSUME IInv, IInv', [Next]_vars
     PROVE  [Oracle!OracleNext]_(Oracle!oracleVars)
  OBVIOUS
<1>1. ASSUME NEW ip \in Pcs, PredictBranch(ip), Predicted(ip)
      PROVE  Oracle!OracleNext
  BY <1>1, PredictRefines DEF Oracle!OracleNext
<1>2. ASSUME NEW kind \in Kinds, state = "PREDICTED", LastBranchResult(lastIp, kind)
      PROVE  Oracle!OracleNext
  BY <1>2, BranchResultEffect, ResolveRefines DEF Oracle!OracleNext
<1>3. ASSUME Abort \/ UNCHANGED vars PROVE UNCHANGED Oracle!oracleVars
  BY <1>3 DEF Abort, vars, Oracle!oracleVars, RecentOrigins, At
<1>. QED BY <1>1, <1>2, <1>3, PredictEffect DEF Next

\* The slots of the circular buffer implement the promise of AheadOracle: for
\* every distance and ring, whatever instructions are predicted in between, a
\* branch is answered with what was generated Distance branches before it and
\* trains that answer or none (get_prediction, commit_state, deallocate_front).
THEOREM BufferImplementsOracle == Spec => ImplementsOracle
<1>1. Init => Oracle!OracleInit
  <2>. SUFFICES ASSUME Init PROVE Oracle!OracleInit
    OBVIOUS
  <2>1. IInv
    BY InitIInv
  <2>2. RecentOrigins = << >>
    <3>1. branches = 0 /\ branches < Distance
      BY CapacityFacts DEF Init
    <3>2. Len(RecentOrigins) = 0
      BY <2>1, <3>1, RecentFacts DEF RecentSlots
    <3>3. RecentOrigins = [k \in 1 .. 0 |->
             buf.slot[PhysicalIndex(branches + (Distance - 0 + k - 1))].gen]
      BY <2>1, <3>1, RecentFacts DEF RecentSlots
    <3>. QED BY <3>3
  <2>. QED BY <2>2 DEF Init, Oracle!OracleInit
<1>. QED BY <1>1, StepRefines, SpecIInv, PTL DEF Spec, ImplementsOracle, Oracle!OracleSpec

\* A conditional branch trains the prediction it was served or none, in every
\* step that trains (commit_state reads the slot predict_branch answered from).
THEOREM TrainsTheServedPrediction == Spec => TrainsWhatWasServed
<1>1. IInv /\ [Next]_vars => [trained' # trained => trained' \in {served, None}]_vars
  <2>. SUFFICES ASSUME IInv, Next
       PROVE  trained' # trained => trained' \in {served, None}
    OBVIOUS
  <2>1. ASSUME NEW ip \in Pcs, PredictBranch(ip) PROVE trained' = trained
    BY <2>1, PredictEffect DEF Predicted, Abort
  <2>2. ASSUME NEW kind \in Kinds, state = "PREDICTED",
               LastBranchResult(lastIp, kind)
        PROVE  trained' \in {served, None}
    BY <2>2, BranchResultEffect DEF Resolved, IInv, ServedFromSlot
  <2>. QED BY <2>1, <2>2 DEF Next
<1>. QED BY <1>1, SpecIInv, PTL DEF Spec, TrainsWhatWasServed
=============================================================================
