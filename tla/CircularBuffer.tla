--------------------------- MODULE CircularBuffer ---------------------------
(***************************************************************************)
(* CircularBuffer<T> of branch/ahead_tage/utils.hpp (the copies in the     *)
(* multi-block predictors are the same class): the metadata of the         *)
(* branches between the oldest unresolved one, read_id_, and the one a     *)
(* prediction is being generated for, alloc_id_ = read_id_ + Distance.     *)
(* Ids are uint32_t and wrap at IdMod (2^32 in the build, small in TLC).   *)
(*                                                                         *)
(* A buffer is a record [slot, readId, allocId]; the operators below are   *)
(* the methods, and the modules of the predictors EXTEND this one.         *)
(*                                                                         *)
(* The lemmas at the end are what the proofs of both ahead predictors rest *)
(* on: the slots of a window no longer than the ring are distinct, the     *)
(* window comes round to its first slot, and ids below IdMod are not       *)
(* wrapped.                                                                *)
(***************************************************************************)
EXTENDS Integers, SequenceTheorems, TLAPS

CONSTANTS
    InFlight,   \* inflight_branches: 1 in every predictor of the repository
    Distance,   \* the ahead distance: 1 (multi-block), 6 (ahead_tage)
    IdMod       \* number of distinct ids: 2^32

Capacity == InFlight + Distance

ASSUME BufferAssumption ==
    /\ InFlight \in Nat \ {0}
    /\ Distance \in Nat \ {0}
    /\ IdMod \in Nat
    /\ IdMod > Capacity

Ids   == 0 .. IdMod - 1
Index == 0 .. Capacity - 1

NewBuffer(empty) ==
    [slot |-> [i \in Index |-> empty], readId |-> 0, allocId |-> Distance]

PhysicalIndex(id) == id % Capacity

\* Mutated form of InBuffer: alloc_id_ taken as one past the end.
ContainsHalfOpen(b, id) == b.readId <= id /\ id < b.allocId

\* The assertion of operator[] and clear().
InBuffer(b, id) == b.readId <= id /\ id <= b.allocId

At(b, id)     == b.slot[PhysicalIndex(id)]
Put(b, id, v) ==
    [slot    |-> [b.slot EXCEPT ![PhysicalIndex(id)] = v],
     readId  |-> b.readId,
     allocId |-> b.allocId]

\* uint32_t arithmetic on ids
AddId(id, k) == (id + k) % IdMod

DeallocateFront(b, id, empty) ==
    [slot    |-> [b.slot EXCEPT ![PhysicalIndex(id)] = empty],
     readId  |-> AddId(b.readId, 1),
     allocId |-> AddId(b.allocId, 1)]
-----------------------------------------------------------------------------
(* Facts about the buffer *)

\* What \div and % return.
LEMMA DivMod ==
    ASSUME NEW x \in Nat, NEW c \in Nat \ {0}
    PROVE  /\ x \div c \in Nat
           /\ x % c \in 0 .. c - 1
           /\ x = c * (x \div c) + (x % c)
OBVIOUS

\* Quotient and remainder are unique.
LEMMA ModUnique ==
    ASSUME NEW c \in Nat \ {0}, NEW q \in Int, NEW r \in 0 .. c - 1,
           NEW p \in Int, NEW s \in 0 .. c - 1,
           c * q + r = c * p + s
    PROVE  r = s
<1>1. c * (q - p) = s - r
  OBVIOUS
<1>2. CASE q - p >= 1
  <2>1. c * (q - p) >= c
    BY <1>2
  <2>2. QED BY <1>1, <2>1
<1>3. CASE q - p <= -1
  <2>1. c * (q - p) <= -c
    BY <1>3
  <2>2. QED BY <1>1, <2>1
<1>4. CASE q = p
  BY <1>1, <1>4
<1>5. QED BY <1>2, <1>3, <1>4

\* A turn of the ring changes no remainder.
LEMMA ModPeriod ==
    ASSUME NEW x \in Nat, NEW c \in Nat \ {0}
    PROVE  (x + c) % c = x % c
<1>1. x + c = c * ((x + c) \div c) + ((x + c) % c)
  BY DivMod
<1>2. x + c = c * (x \div c + 1) + (x % c)
  <2>1. x = c * (x \div c) + (x % c) /\ x \div c \in Nat
    BY DivMod
  <2>2. QED BY <2>1
<1>3. (x + c) \div c \in Int /\ x \div c + 1 \in Int
  BY DivMod
<1>4. (x + c) % c \in 0 .. c - 1 /\ x % c \in 0 .. c - 1
  BY DivMod
<1>5. QED BY <1>1, <1>2, <1>3, <1>4, ModUnique

\* Numbers less than c apart have different remainders.
LEMMA ModDistinct ==
    ASSUME NEW c \in Nat \ {0}, NEW x \in Nat, NEW i \in 0 .. c - 1,
           NEW j \in 0 .. c - 1, (x + i) % c = (x + j) % c
    PROVE  i = j
<1>. DEFINE q == (x + i) \div c
            p == (x + j) \div c
<1>1. x + i = c * q + ((x + i) % c) /\ q \in Int
  BY DivMod
<1>2. x + j = c * p + ((x + j) % c) /\ p \in Int
  BY DivMod
<1>3. c * (q - p) = i - j
  <2>. HIDE DEF q, p
  <2>1. (x + i) % c \in Int /\ (x + j) % c \in Int
    BY DivMod
  <2>. QED BY <1>1, <1>2, <2>1
<1>4. CASE q - p >= 1
  <2>1. c * (q - p) >= c
    BY <1>4, <1>1, <1>2
  <2>2. QED BY <1>3, <2>1
<1>5. CASE q - p <= -1
  <2>1. c * (q - p) <= -c
    BY <1>5, <1>1, <1>2
  <2>2. QED BY <1>3, <2>1
<1>6. CASE q = p
  BY <1>3, <1>6
<1>7. QED BY <1>1, <1>2, <1>4, <1>5, <1>6

-----------------------------------------------------------------------------
\* The ring is long enough for the window it holds.
LEMMA CapacityFacts ==
    /\ InFlight \in Nat \ {0}
    /\ Distance \in Nat \ {0}
    /\ IdMod \in Nat
    /\ IdMod > Capacity
    /\ Capacity \in Nat \ {0}
    /\ Distance \in Index
    /\ Distance < Capacity
BY BufferAssumption DEF Capacity, Index

\* An id is kept in a slot of the ring.
LEMMA IndexFacts ==
    ASSUME NEW x \in Nat
    PROVE  PhysicalIndex(x) \in Index
BY CapacityFacts, DivMod DEF PhysicalIndex, Index

\* Ids less than a ring apart are kept in different slots.
LEMMA IndexDistinct ==
    ASSUME NEW x \in Nat, NEW i \in Index, NEW j \in Index, i # j
    PROVE  PhysicalIndex(x + i) # PhysicalIndex(x + j)
BY CapacityFacts, ModDistinct DEF PhysicalIndex, Index

\* The slot comes round after one turn of the ring.
LEMMA IndexPeriod ==
    ASSUME NEW x \in Nat
    PROVE  PhysicalIndex(x + Capacity) = PhysicalIndex(x)
BY CapacityFacts, ModPeriod DEF PhysicalIndex

\* Ids below IdMod are not wrapped.
LEMMA AddIdFacts ==
    ASSUME NEW x \in Nat, NEW k \in Nat
    PROVE  /\ AddId(x, k) \in Ids
           /\ x + k < IdMod => AddId(x, k) = x + k
<1>1. AddId(x, k) \in Ids
  BY CapacityFacts, DivMod DEF AddId, Ids
<1>2. ASSUME x + k < IdMod PROVE AddId(x, k) = x + k
  <2>1. /\ (x + k) \div IdMod \in Nat
        /\ (x + k) % IdMod \in 0 .. IdMod - 1
        /\ x + k = IdMod * ((x + k) \div IdMod) + ((x + k) % IdMod)
    BY CapacityFacts, DivMod
  <2>2. x + k = IdMod * 0 + (x + k)
    BY CapacityFacts
  <2>3. x + k \in 0 .. IdMod - 1
    BY <1>2, CapacityFacts
  <2>4. (x + k) % IdMod = x + k
    BY <2>1, <2>2, <2>3, CapacityFacts, ModUnique
  <2>. QED BY <2>4 DEF AddId
<1>. QED BY <1>1, <1>2

\* The first id after the last one is id 0 again.
LEMMA AddIdFull ==
    ASSUME NEW x \in Nat, NEW k \in Nat, x + k = IdMod
    PROVE  AddId(x, k) = 0
<1>1. (0 + IdMod) % IdMod = 0 % IdMod
  BY CapacityFacts, ModPeriod
<1>2. 0 % IdMod = 0
  BY CapacityFacts, AddIdFacts DEF AddId
<1>. QED BY <1>1, <1>2, CapacityFacts DEF AddId

\* The slot of x has been written, and no other.
Written(old, new, x, e) ==
    \A j \in Index : new[j] = IF j = PhysicalIndex(x) THEN e ELSE old[j]

\* The slots of the window after the first of them has been cleared: every other
\* moves one place nearer (deallocate_front).
LEMMA WindowMoves ==
    ASSUME NEW x \in Nat, NEW e, NEW old, NEW new, Written(old, new, x, e)
    PROVE  \A k \in Index :
              new[PhysicalIndex(x + 1 + k)] =
                 IF k = Capacity - 1 THEN e ELSE old[PhysicalIndex(x + (k + 1))]
<1>. TAKE k \in Index
<1>. USE CapacityFacts DEF Written
<1>. DEFINE p == PhysicalIndex(x)
<1>1. k \in Nat /\ x + 1 + k \in Nat /\ x + 1 + k = x + (k + 1)
  BY DEF Index
<1>2. PhysicalIndex(x + 1 + k) \in Index /\ p \in Index
  BY <1>1, IndexFacts
<1>3. CASE k = Capacity - 1
  <2>1. x + 1 + k = x + Capacity
    BY <1>1, <1>3
  <2>2. PhysicalIndex(x + 1 + k) = p
    BY <2>1, IndexPeriod
  <2>. QED BY <1>3, <2>2, <1>2
<1>4. CASE k # Capacity - 1
  <2>1. k + 1 \in Index /\ 0 \in Index /\ k + 1 # 0 /\ x + 0 = x
    BY <1>1, <1>4 DEF Index
  <2>2. PhysicalIndex(x + (k + 1)) # p
    BY <2>1, IndexDistinct
  <2>. QED BY <1>1, <1>2, <1>4, <2>2
<1>. QED BY <1>3, <1>4

-----------------------------------------------------------------------------
\* A function on 1 .. n is a sequence of length n.
LEMMA FunctionIsSeq ==
    ASSUME NEW S, NEW n \in Nat, NEW f \in [1 .. n -> S]
    PROVE  f \in Seq(S) /\ Len(f) = n
<1>1. f \in Seq(S)
  BY SeqDef
<1>2. DOMAIN f = 1 .. n /\ DOMAIN f = 1 .. Len(f) /\ Len(f) \in Nat
  BY <1>1, LenProperties
<1>. QED BY <1>1, <1>2
=============================================================================
