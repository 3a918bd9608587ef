-------------------------- MODULE DebrisFieldProofs --------------------------
(* Proofs about BodyPool and about DebrisField, which extends it.  Of the pool: the body
   slots stay sound for every pool size, every reservation and every sequence of calls.  Of
   the debris: for any grid, blasts, poses, limits and orders of commands, chunks leave no
   ghosts, the brick grid is exact, and chunks and bodies stay in step. *)
EXTENDS DebrisField, FiniteSetTheorems, SequenceTheorems, TLAPS

-----------------------------------------------------------------------------
(***************************************************************************)
(* The pool alone.                                                         *)
(***************************************************************************)

\* FreeListSound and SceneMatchesSlots are inductive only together: what ReleaseBox
\* pushes is off the free list because the scene holds it, and what AcquireBox pops is
\* out of the scene because the free list holds it.
IInv == TypeOK /\ FreeListSound /\ SceneMatchesSlots

\* The body of IdsStable.
SlotsKept ==
    \A p \in Slots :
        /\ p \in DOMAIN dynamics'
        /\ dynamics'[p].pooled = dynamics[p].pooled
        /\ dynamics'[p].actor => dynamics[p].actor

-----------------------------------------------------------------------------
\* Setting one flag of a slot keeps the others.
LEMMA SlotFlags ==
  ASSUME NEW b \in Slot, NEW v \in BOOLEAN
  PROVE  /\ [b EXCEPT !.inScene = v] \in Slot
         /\ [b EXCEPT !.inScene = v].actor = b.actor
         /\ [b EXCEPT !.inScene = v].pooled = b.pooled
         /\ [b EXCEPT !.inScene = v].inScene = v
         /\ [b EXCEPT !.actor = v] \in Slot
         /\ [b EXCEPT !.actor = v].actor = v
         /\ [b EXCEPT !.actor = v].pooled = b.pooled
         /\ [b EXCEPT !.actor = v].inScene = b.inScene
  BY DEF Slot

\* Replacing one slot keeps the others and the length.
LEMMA SlotUpdate ==
  ASSUME NEW d \in Seq(Slot), NEW p \in 1..Len(d), NEW x \in Slot,
         NEW e, e = [d EXCEPT ![p] = x]
  PROVE  /\ e \in Seq(Slot) /\ Len(e) = Len(d) /\ DOMAIN e = 1..Len(d)
         /\ e[p] = x
         /\ \A j \in 1..Len(d) \ {p} : e[j] = d[j]
  OBVIOUS

\* What remains of the free list after a pop.
LEMMA Popped ==
  ASSUME NEW S, NEW s \in Seq(S), s # <<>>
  PROVE  /\ SubSeq(s, 1, Len(s) - 1) \in Seq(S)
         /\ Len(SubSeq(s, 1, Len(s) - 1)) = Len(s) - 1
         /\ \A k \in 1..(Len(s) - 1) : SubSeq(s, 1, Len(s) - 1)[k] = s[k]
<1> DEFINE n == Len(s) - 1
<1>1. n \in Nat /\ \A p \in 1..n : s[p] \in S
  OBVIOUS
<1> HIDE DEF n
<1>2. /\ SubSeq(s, 1, n) \in Seq(S)
      /\ Len(SubSeq(s, 1, n)) = IF 1 <= n THEN n - 1 + 1 ELSE 0
      /\ \A k \in 1..(n - 1 + 1) : SubSeq(s, 1, n)[k] = s[1 + k - 1]
  BY <1>1, SubSeqProperties
<1>3. /\ SubSeq(s, 1, n) \in Seq(S)
      /\ Len(SubSeq(s, 1, n)) = n
      /\ \A k \in 1..n : SubSeq(s, 1, n)[k] = s[k]
  BY <1>1, <1>2
<1> QED BY <1>3 DEF n

\* With no slots there is nothing that could be wrong.
LEMMA NoSlots ==
  ASSUME dynamics = <<>>, freeList = <<>>, scene = {}, lent = {}, peak = 0, up \in BOOLEAN
  PROVE  IInv
<1>1. /\ dynamics \in Seq(Slot) /\ Len(dynamics) = 0 /\ Slots = {}
      /\ freeList \in Seq(BodyIds) /\ Len(freeList) = 0
  BY DEF Slots
<1>2. Pooled = {} /\ PooledAlive = {} /\ Simulated = {}
  BY <1>1, Zenon DEF Pooled, PooledAlive, Simulated
<1>3. TypeOK
  BY <1>1, PoolAssumption DEF TypeOK
<1>4. FreeListSound
  BY <1>1, <1>2 DEF FreeListSound
<1>5. SceneMatchesSlots
  BY <1>2 DEF SceneMatchesSlots
<1> QED BY <1>3, <1>4, <1>5 DEF IInv

LEMMA InitIInv == Init => IInv
  BY NoSlots DEF Init

LEMMA StartupIInv ==
  ASSUME IInv, Startup
  PROVE  IInv'
<1>1. TypeOK'
  BY DEF Startup, IInv, TypeOK
<1>2. FreeListSound'
  BY Zenon DEF Startup, IInv, FreeListSound, Slots, Pooled, PooledAlive
<1>3. SceneMatchesSlots'
  BY Zenon DEF Startup, IInv, SceneMatchesSlots, Slots, Pooled, Simulated
<1> QED BY <1>1, <1>2, <1>3 DEF IInv

LEMMA ShutdownIInv ==
  ASSUME IInv, Shutdown
  PROVE  IInv'
<1>1. /\ dynamics' \in Seq(Slot) /\ Len(dynamics') = 0 /\ Slots' = {}
      /\ freeList' \in Seq(BodyIds) /\ Len(freeList') = 0
  BY DEF Shutdown, Slots
<1>2. Pooled' = {} /\ PooledAlive' = {} /\ Simulated' = {}
  BY <1>1, Zenon DEF Pooled, PooledAlive, Simulated
<1>3. TypeOK'
  <2>1. up' \in BOOLEAN
    BY Zenon DEF Shutdown
  <2>2. scene' = {} /\ lent' = {} /\ peak' = 0
    BY DEF Shutdown
  <2> QED BY <1>1, <2>1, <2>2, PoolAssumption DEF TypeOK
<1>4. FreeListSound'
  BY <1>1, <1>2 DEF FreeListSound
<1>5. SceneMatchesSlots'
  BY <1>2 DEF SceneMatchesSlots, Shutdown
<1> QED BY <1>3, <1>4, <1>5 DEF IInv

LEMMA AddBodyIInv ==
  ASSUME IInv, NEW flag \in BOOLEAN, AddBody(flag)
  PROVE  IInv' /\ SlotsKept /\ PooledAlive' = PooledAlive
<1> DEFINE b == [actor |-> TRUE, pooled |-> FALSE, inScene |-> flag]
           n == Len(dynamics)
<1>1. /\ dynamics \in Seq(Slot) /\ n \in Nat /\ n < MaxBodies /\ b \in Slot
      /\ dynamics' = Append(dynamics, b)
  BY DEF IInv, TypeOK, AddBody, Slot
<1>2. /\ dynamics' \in Seq(Slot) /\ Len(dynamics') = n + 1
      /\ DOMAIN dynamics' = 1..(n + 1) /\ DOMAIN dynamics = 1..n
      /\ dynamics'[n + 1] = b
      /\ \A p \in 1..n : dynamics'[p] = dynamics[p]
  BY <1>1
<1> HIDE DEF b, n
<1>3. b.actor /\ ~b.pooled
  BY DEF b
<1>4. TypeOK'
  <2>1. up' \in BOOLEAN
    BY Zenon DEF AddBody, IInv, TypeOK
  <2>2. /\ scene' = scene \cup {n + 1} /\ lent' = lent
        /\ freeList' = freeList /\ peak' = peak
    BY DEF AddBody, n
  <2>3. n + 1 \in BodyIds
    BY <1>1, PoolAssumption DEF BodyIds
  <2> QED BY <1>1, <1>2, <2>1, <2>2, <2>3, PoolAssumption DEF IInv, TypeOK
<1>a. Pooled' = Pooled /\ PooledAlive' = PooledAlive
  BY <1>1, <1>2, <1>3 DEF Slots, Pooled, PooledAlive
<1>b. SlotsKept
  BY <1>1, <1>2 DEF SlotsKept, Slots
<1>5. FreeListSound'
  <2>1. Pooled' = Pooled /\ PooledAlive' = PooledAlive
    BY <1>a
  <2>2. \A p \in Pooled : dynamics'[p] = dynamics[p]
    BY <1>2 DEF Slots, Pooled
  <2>3. PooledAlive \subseteq Pooled /\ freeList' = freeList
    BY DEF PooledAlive, AddBody
  <2> QED BY <2>1, <2>2, <2>3 DEF IInv, FreeListSound
<1>6. SceneMatchesSlots'
  BY <1>1, <1>2, <1>3 DEF IInv, SceneMatchesSlots, AddBody, Slots, Pooled, Simulated, n
<1> QED BY <1>4, <1>5, <1>6, <1>a, <1>b DEF IInv

LEMMA ReservePoolIInv ==
  ASSUME IInv, NEW count \in Nat \ {0}, ReservePool(count)
  PROVE  IInv' /\ SlotsKept /\ Cardinality(PooledAlive') <= peak'
<1>1. PICK m \in 1..(count - PoolTotal) :
          /\ Len(dynamics) + m <= MaxBodies
          /\ dynamics' = dynamics \o [k \in 1..m |-> ParkedSlot]
          /\ freeList' = freeList \o [k \in 1..m |-> Len(dynamics) + k]
  BY DEF ReservePool
<1> DEFINE n == Len(dynamics)
           l == Len(freeList)
<1>2. /\ dynamics \in Seq(Slot) /\ n \in Nat /\ freeList \in Seq(BodyIds) /\ l \in Nat
      /\ m \in Nat /\ ParkedSlot \in Slot /\ n + m <= MaxBodies
  BY <1>1 DEF IInv, TypeOK, ParkedSlot, Slot
<1>3. /\ [k \in 1..m |-> ParkedSlot] \in Seq(Slot)
      /\ [k \in 1..m |-> n + k] \in Seq(BodyIds)
  BY <1>2, PoolAssumption DEF BodyIds
<1>4. /\ dynamics' \in Seq(Slot) /\ Len(dynamics') = n + m
      /\ DOMAIN dynamics' = 1..(n + m) /\ DOMAIN dynamics = 1..n
      /\ \A p \in 1..n : dynamics'[p] = dynamics[p]
      /\ \A p \in (n + 1)..(n + m) : dynamics'[p] = ParkedSlot
  BY <1>1, <1>2, <1>3
<1>5. /\ freeList' \in Seq(BodyIds) /\ Len(freeList') = l + m
      /\ \A k \in 1..l : freeList'[k] = freeList[k]
      /\ \A k \in (l + 1)..(l + m) : freeList'[k] = n + (k - l)
  BY <1>1, <1>2, <1>3
<1> HIDE DEF n, l
<1>6. TypeOK'
  BY <1>2, <1>4, <1>5, PoolAssumption DEF IInv, TypeOK, ReservePool, Larger, n, l
<1>7. FreeListSound'
  <2>1. \A k \in 1..l : freeList[k] \in 1..n
    BY <1>2, <1>4 DEF IInv, FreeListSound, Pooled, Slots, n, l
  <2>2. \A j, k \in 1..(l + m) : freeList'[j] = freeList'[k] => j = k
    <3>1. ASSUME NEW j \in 1..(l + m), NEW k \in 1..(l + m), freeList'[j] = freeList'[k]
          PROVE  j = k
      <4>1. CASE j \in 1..l /\ k \in 1..l
        BY <3>1, <4>1, <1>5 DEF IInv, FreeListSound, l
      <4>2. CASE j \in 1..l /\ k \in (l + 1)..(l + m)
        <5>1. freeList'[j] \in 1..n /\ freeList'[k] = n + (k - l)
          BY <4>2, <2>1, <1>5
        <5> QED BY <5>1, <3>1, <4>2, <1>2
      <4>3. CASE j \in (l + 1)..(l + m) /\ k \in 1..l
        <5>1. freeList'[k] \in 1..n /\ freeList'[j] = n + (j - l)
          BY <4>3, <2>1, <1>5
        <5> QED BY <5>1, <3>1, <4>3, <1>2
      <4>4. CASE j \in (l + 1)..(l + m) /\ k \in (l + 1)..(l + m)
        BY <3>1, <4>4, <1>2, <1>5
      <4> QED BY <4>1, <4>2, <4>3, <4>4, <1>2
    <3> QED BY <3>1
  <2>3. \A k \in 1..(l + m) :
            /\ freeList'[k] \in Pooled'
            /\ dynamics'[freeList'[k]].actor => ~dynamics'[freeList'[k]].inScene
    <3>1. ASSUME NEW k \in 1..l
          PROVE  /\ freeList'[k] \in Pooled'
                 /\ dynamics'[freeList'[k]].actor => ~dynamics'[freeList'[k]].inScene
      <4>1. freeList'[k] = freeList[k] /\ freeList[k] \in 1..n
        BY <2>1, <1>5
      <4>2. freeList[k] \in Pooled
            /\ (dynamics[freeList[k]].actor => ~dynamics[freeList[k]].inScene)
        BY DEF IInv, FreeListSound, l
      <4> QED BY <4>1, <4>2, <1>2, <1>4 DEF Pooled, Slots
    <3>2. ASSUME NEW k \in (l + 1)..(l + m)
          PROVE  /\ freeList'[k] \in Pooled'
                 /\ dynamics'[freeList'[k]].actor => ~dynamics'[freeList'[k]].inScene
      BY <1>2, <1>4, <1>5 DEF Pooled, Slots, ParkedSlot
    <3> QED BY <3>1, <3>2, <1>2
  <2>4. ASSUME NEW p \in PooledAlive', ~dynamics'[p].inScene
        PROVE  \E k \in 1..(l + m) : freeList'[k] = p
    <3>1. CASE p \in 1..n
      <4>1. p \in PooledAlive /\ ~dynamics[p].inScene
        BY <3>1, <2>4, <1>2, <1>4 DEF Pooled, PooledAlive, Slots
      <4>2. PICK k \in 1..l : freeList[k] = p
        BY <4>1 DEF IInv, FreeListSound, l
      <4> QED BY <4>2, <1>2, <1>5
    <3>2. CASE p \in (n + 1)..(n + m)
      <4>1. /\ l + (p - n) \in (l + 1)..(l + m)
            /\ freeList'[l + (p - n)] = n + ((l + (p - n)) - l)
        BY <3>2, <1>2, <1>5
      <4> QED BY <4>1, <3>2, <1>2
    <3> QED BY <3>1, <3>2, <1>2, <1>4 DEF PooledAlive, Pooled, Slots
  <2> QED BY <2>2, <2>3, <2>4, <1>5 DEF FreeListSound
<1>8. SceneMatchesSlots'
  <2>1. Simulated' = Simulated
    BY <1>2, <1>4 DEF Slots, Simulated, ParkedSlot
  <2>2. Simulated \cap Pooled' = Simulated \cap Pooled
    BY <1>2, <1>4 DEF Slots, Simulated, Pooled
  <2>3. scene' = scene /\ lent' = lent
    BY DEF ReservePool
  <2> QED BY <2>1, <2>2, <2>3 DEF IInv, SceneMatchesSlots
<1>9. SlotsKept
  BY <1>2, <1>4 DEF SlotsKept, Slots
<1>10. Cardinality(PooledAlive') <= peak'
  <2>1. /\ IsFiniteSet(Pooled) /\ Cardinality(Pooled) \in Nat
        /\ Pooled \subseteq 1..n
    <3>1. Pooled \subseteq 1..n /\ IsFiniteSet(1..n)
      BY <1>2, <1>4, FS_Interval DEF Pooled, Slots
    <3> QED BY <3>1, FS_Subset, FS_CardinalityType
  <2>2. /\ IsFiniteSet((n + 1)..(n + m)) /\ Cardinality((n + 1)..(n + m)) = m
    BY <1>1, <1>2, FS_Interval
  <2>3. PooledAlive' \subseteq Pooled \cup ((n + 1)..(n + m))
    BY <1>2, <1>4 DEF PooledAlive, Pooled, Slots
  <2>4. /\ IsFiniteSet(Pooled \cup ((n + 1)..(n + m)))
        /\ Cardinality(Pooled \cup ((n + 1)..(n + m)))
              = Cardinality(Pooled) + m - Cardinality(Pooled \cap ((n + 1)..(n + m)))
        /\ Pooled \cap ((n + 1)..(n + m)) = {}
    <3>1. Pooled \cap ((n + 1)..(n + m)) = {}
      BY <2>1, <1>2
    <3> QED BY <3>1, <2>1, <2>2, FS_Union
  <2>5. /\ Cardinality(PooledAlive') <= Cardinality(Pooled) + m
        /\ Cardinality(PooledAlive') \in Nat
    <3> DEFINE all == Pooled \cup ((n + 1)..(n + m))
    <3>1. IsFiniteSet(all) /\ Cardinality(all) = Cardinality(Pooled) + m
      <4>1. Cardinality(Pooled \cap ((n + 1)..(n + m))) = 0
        BY <2>4, FS_EmptySet
      <4>2. m \in Nat /\ Cardinality(Pooled) + m - 0 = Cardinality(Pooled) + m
        BY <1>2, <2>1
      <4> QED BY <4>1, <4>2, <2>4
    <3>2. PooledAlive' \subseteq all
      BY <2>3
    <3> HIDE DEF all
    <3> QED BY <3>1, <3>2, FS_Subset, FS_CardinalityType
  <2>6. count \in Nat /\ m <= count - Cardinality(Pooled) /\ peak' >= count
    BY <2>1, <1>1, PoolAssumption DEF ReservePool, Larger, PoolTotal, IInv, TypeOK
  <2> QED BY <2>1, <2>5, <2>6, <1>2, <1>6 DEF TypeOK
<1> QED BY <1>6, <1>7, <1>8, <1>9, <1>10 DEF IInv

-----------------------------------------------------------------------------
\* What IInv says of the slot on top of the free list: in the pool, out of the scene, and
\* on the free list nowhere else.
LEMMA TopOfFreeList ==
  ASSUME IInv, freeList # <<>>
  PROVE  /\ Len(freeList) \in Nat \ {0}
         /\ freeList[Len(freeList)] \in Pooled
         /\ freeList[Len(freeList)] \notin lent
         /\ \A k \in 1..(Len(freeList) - 1) : freeList[k] # freeList[Len(freeList)]
<1>1. Len(freeList) \in Nat \ {0}
  BY DEF IInv, TypeOK
<1>2. Len(freeList) \in 1..Len(freeList)
  BY <1>1
<1>3. freeList[Len(freeList)] \in Pooled
  BY <1>2 DEF IInv, FreeListSound
<1>4. freeList[Len(freeList)] \notin lent
  BY <1>2, <1>3 DEF IInv, FreeListSound, SceneMatchesSlots, Simulated, Pooled
<1>5. \A k \in 1..(Len(freeList) - 1) : freeList[k] # freeList[Len(freeList)]
  BY <1>1, <1>2 DEF IInv, FreeListSound
<1> QED BY <1>1, <1>3, <1>4, <1>5

LEMMA AcquireBoxIInv ==
  ASSUME IInv, NEW id \in BodyIds, AcquireBox(id)
  PROVE  /\ IInv' /\ SlotsKept
         /\ \/ PooledAlive' = PooledAlive /\ peak' >= peak
            \/ PooledAlive' \subseteq lent' /\ peak' >= Cardinality(lent')
<1> DEFINE n == Len(dynamics)
           l == Len(freeList)
<1>0. /\ dynamics \in Seq(Slot) /\ n \in Nat /\ n <= MaxBodies /\ Slots = 1..n
      /\ freeList \in Seq(BodyIds) /\ l \in Nat /\ MaxBodies \in Nat
      /\ up' \in BOOLEAN
  <2>1. up' \in BOOLEAN
    BY Zenon DEF AcquireBox, IInv, TypeOK
  <2> QED BY <2>1, PoolAssumption DEF IInv, TypeOK, Slots
<1>a. scene = Simulated /\ lent = Simulated \cap Pooled
  BY DEF IInv, SceneMatchesSlots
<1>1. CASE freeList # <<>> /\ dynamics[id].actor
  <2>1. /\ id = freeList[l] /\ l \in 1..l /\ id \in Pooled /\ id \notin lent /\ id \in 1..n
        /\ \A k \in 1..(l - 1) : freeList[k] # id
    BY <1>1, <1>0, TopOfFreeList DEF AcquireBox, Pooled
  <2>2. /\ freeList' = SubSeq(freeList, 1, l - 1)
        /\ dynamics' = [dynamics EXCEPT ![id] = [@ EXCEPT !.inScene = TRUE]]
        /\ scene' = scene \cup {id} /\ lent' = lent \cup {id}
        /\ peak' = Larger(peak, Cardinality(lent \cup {id}))
    BY <1>1 DEF AcquireBox, Lend
  <2>3. /\ freeList' \in Seq(BodyIds) /\ Len(freeList') = l - 1
        /\ \A k \in 1..(l - 1) : freeList'[k] = freeList[k]
    BY <2>2, <1>0, <1>1, Popped
  <2>4. /\ dynamics' \in Seq(Slot) /\ Len(dynamics') = n /\ Slots' = 1..n
        /\ dynamics'[id] = [dynamics[id] EXCEPT !.inScene = TRUE]
        /\ \A p \in 1..n \ {id} : dynamics'[p] = dynamics[p]
    <3> DEFINE x == [dynamics[id] EXCEPT !.inScene = TRUE]
    <3>1. dynamics[id] \in Slot /\ TRUE \in BOOLEAN
      BY <2>1, <1>0
    <3>2. x \in Slot
      BY <3>1, SlotFlags, Zenon
    <3>3. dynamics' = [dynamics EXCEPT ![id] = x]
      BY <2>2
    <3> HIDE DEF x
    <3>4. /\ dynamics' \in Seq(Slot) /\ Len(dynamics') = n /\ DOMAIN dynamics' = 1..n
          /\ dynamics'[id] = x
          /\ \A p \in 1..n \ {id} : dynamics'[p] = dynamics[p]
      BY <3>2, <3>3, <2>1, <1>0, SlotUpdate
    <3> QED BY <3>4 DEF Slots, x
  <2>5. /\ dynamics[id] \in Slot
        /\ dynamics'[id].actor = dynamics[id].actor
        /\ dynamics'[id].pooled = dynamics[id].pooled
        /\ dynamics'[id].inScene = TRUE
    <3>1. dynamics[id] \in Slot
      BY <2>1, <1>0
    <3> QED BY <3>1, <2>4, SlotFlags
  <2>6. Pooled' = Pooled /\ PooledAlive' = PooledAlive
    <3>1. Slots' = Slots
      BY <2>4, <1>0
    <3>2. \A p \in Slots : /\ dynamics'[p].pooled = dynamics[p].pooled
                           /\ dynamics'[p].actor = dynamics[p].actor
      BY <2>4, <2>5, <1>0
    <3>3. Pooled' = Pooled
      BY <3>1, <3>2 DEF Pooled
    <3> QED BY <3>1, <3>2, <3>3 DEF PooledAlive, Pooled
  <2>7. peak' \in Nat
    <3>1. lent \cup {id} \subseteq BodyIds /\ IsFiniteSet(BodyIds)
      BY FS_Interval, PoolAssumption DEF IInv, TypeOK, BodyIds
    <3>2. Cardinality(lent \cup {id}) \in Nat
      BY <3>1, FS_Subset, FS_CardinalityType
    <3> QED BY <2>2, <3>2 DEF Larger, IInv, TypeOK
  <2>8. TypeOK'
    BY <2>2, <2>3, <2>4, <2>7, <1>0 DEF IInv, TypeOK
  <2>9. FreeListSound'
    <3>1. ASSUME NEW j \in 1..(l - 1), NEW k \in 1..(l - 1), freeList'[j] = freeList'[k]
          PROVE  j = k
      <4>1. freeList[j] = freeList[k]
        BY <3>1, <2>3
      <4>2. j \in 1..l /\ k \in 1..l
        BY <1>0
      <4> QED BY <4>1, <4>2, Zenon DEF IInv, FreeListSound
    <3>2. \A k \in 1..(l - 1) :
             /\ freeList'[k] \in Pooled'
             /\ dynamics'[freeList'[k]].actor => ~dynamics'[freeList'[k]].inScene
      BY <2>1, <2>3, <2>4, <2>6, <1>0 DEF IInv, FreeListSound, Pooled
    <3>3. ASSUME NEW p \in PooledAlive', ~dynamics'[p].inScene
          PROVE  \E k \in 1..(l - 1) : freeList'[k] = p
      <4>1. p # id /\ p \in PooledAlive /\ ~dynamics[p].inScene
        BY <3>3, <2>4, <2>5, <2>6, <1>0 DEF PooledAlive, Pooled
      <4>2. PICK k \in 1..l : freeList[k] = p
        BY <4>1 DEF IInv, FreeListSound
      <4>3. k # l
        BY <4>1, <4>2, <2>1
      <4>4. k \in 1..(l - 1)
        BY <4>3, <1>0
      <4> QED BY <4>2, <4>4, <2>3
    <3>4. Len(freeList') = l - 1
      BY <2>3
    <3> QED BY <3>1, <3>2, <3>3, <3>4, Zenon DEF FreeListSound
  <2>10. Simulated' = Simulated \cup {id}
    <3>1. Slots' = Slots /\ id \in Slots
      BY <2>1, <2>4, <1>0
    <3>2. \A p \in Slots \ {id} : dynamics'[p] = dynamics[p]
      BY <2>4, <1>0 DEF Slots
    <3> QED BY <1>1, <2>1, <2>5, <3>1, <3>2 DEF Simulated
  <2>11. SceneMatchesSlots'
    BY <2>1, <2>2, <2>6, <2>10, <1>a DEF SceneMatchesSlots
  <2>12. SlotsKept
    <3>1. ASSUME NEW p \in 1..n
          PROVE  /\ dynamics'[p].pooled = dynamics[p].pooled
                 /\ dynamics'[p].actor = dynamics[p].actor
      <4>1. CASE p = id
        BY <4>1, <2>5
      <4>2. CASE p # id
        BY <4>2, <2>4
      <4> QED BY <4>1, <4>2
    <3>2. Slots = 1..n /\ Slots' = Slots
      BY <2>4, <1>0
    <3> QED BY <3>1, <3>2, Zenon DEF SlotsKept, Slots
  <2>13. peak' >= peak
    <3>1. lent \cup {id} \subseteq BodyIds /\ IsFiniteSet(BodyIds)
      BY FS_Interval, PoolAssumption DEF IInv, TypeOK, BodyIds
    <3>2. Cardinality(lent \cup {id}) \in Nat
      BY <3>1, FS_Subset, FS_CardinalityType
    <3> QED BY <2>2, <3>2 DEF Larger, IInv, TypeOK
  <2> QED BY <2>6, <2>8, <2>9, <2>11, <2>12, <2>13 DEF IInv
<1>2. CASE freeList # <<>> /\ ~dynamics[id].actor
  <2>1. /\ id = freeList[l] /\ l \in 1..l /\ id \in Pooled
        /\ \A k \in 1..(l - 1) : freeList[k] # id
    BY <1>2, <1>0, TopOfFreeList DEF AcquireBox
  <2>2. /\ freeList' = SubSeq(freeList, 1, l - 1)
        /\ dynamics' = dynamics /\ scene' = scene /\ lent' = lent /\ peak' = peak
    BY <1>2 DEF AcquireBox, Lend
  <2>3. /\ freeList' \in Seq(BodyIds) /\ Len(freeList') = l - 1
        /\ \A k \in 1..(l - 1) : freeList'[k] = freeList[k]
    BY <2>2, <1>0, <1>2, Popped
  <2>4. /\ Slots' = Slots /\ Pooled' = Pooled /\ PooledAlive' = PooledAlive
        /\ Simulated' = Simulated
    BY <2>2 DEF Slots, Pooled, PooledAlive, Simulated
  <2>5. TypeOK'
    BY <2>2, <2>3, <1>0 DEF IInv, TypeOK
  <2>6. FreeListSound'
    <3>1. \A p \in PooledAlive : p # id
      BY <1>2 DEF PooledAlive
    <3>2. ASSUME NEW p \in PooledAlive, ~dynamics[p].inScene
          PROVE  \E k \in 1..(l - 1) : freeList[k] = p
      <4>1. PICK k \in 1..l : freeList[k] = p
        BY <3>2 DEF IInv, FreeListSound
      <4>2. k # l
        BY <4>1, <3>1, <3>2, <2>1
      <4>3. k \in 1..(l - 1)
        BY <4>2, <1>0
      <4> QED BY <4>1, <4>3
    <3>3. ASSUME NEW j \in 1..(l - 1), NEW k \in 1..(l - 1), freeList'[j] = freeList'[k]
          PROVE  j = k
      <4>1. freeList[j] = freeList[k]
        BY <3>3, <2>3
      <4>2. j \in 1..l /\ k \in 1..l
        BY <1>0
      <4> QED BY <4>1, <4>2, Zenon DEF IInv, FreeListSound
    <3>4. \A k \in 1..(l - 1) :
             /\ freeList[k] \in Pooled
             /\ dynamics[freeList[k]].actor => ~dynamics[freeList[k]].inScene
      <4>1. \A k \in 1..l :
               /\ freeList[k] \in Pooled
               /\ dynamics[freeList[k]].actor => ~dynamics[freeList[k]].inScene
        BY Zenon DEF IInv, FreeListSound
      <4>2. \A k \in 1..(l - 1) : k \in 1..l
        BY <1>0
      <4> QED BY <4>1, <4>2, Zenon
    <3>5. \A k \in 1..(l - 1) :
             /\ freeList'[k] \in Pooled'
             /\ dynamics'[freeList'[k]].actor => ~dynamics'[freeList'[k]].inScene
      BY <3>4, <2>2, <2>3, <2>4
    <3>6. \A p \in PooledAlive' :
             ~dynamics'[p].inScene => \E k \in 1..(l - 1) : freeList'[k] = p
      BY <3>2, <2>2, <2>3, <2>4
    <3> QED BY <3>3, <3>5, <3>6, <2>3, Zenon DEF FreeListSound
  <2>7. SceneMatchesSlots'
    BY <2>2, <2>4, <1>a DEF SceneMatchesSlots
  <2>8. SlotsKept
    BY <2>2, <2>4 DEF SlotsKept, Slots
  <2> QED BY <2>2, <2>4, <2>5, <2>6, <2>7, <2>8 DEF IInv, TypeOK
<1>3. CASE freeList = <<>>
  <2>1. /\ id = n + 1 /\ id <= MaxBodies /\ freeList' = freeList
        /\ Lend(id, Append(dynamics, ParkedSlot))
    BY <1>3 DEF AcquireBox
  <2>2. /\ Append(dynamics, ParkedSlot) \in Seq(Slot) /\ ParkedSlot \in Slot
        /\ Len(Append(dynamics, ParkedSlot)) = n + 1
        /\ Append(dynamics, ParkedSlot)[n + 1] = ParkedSlot
        /\ \A p \in 1..n : Append(dynamics, ParkedSlot)[p] = dynamics[p]
    BY <1>0 DEF ParkedSlot, Slot
  <2>3. /\ dynamics' = [Append(dynamics, ParkedSlot) EXCEPT ![id] = [@ EXCEPT !.inScene = TRUE]]
        /\ scene' = scene \cup {id} /\ lent' = lent \cup {id}
        /\ peak' = Larger(peak, Cardinality(lent \cup {id}))
    BY <2>1, <2>2 DEF Lend, ParkedSlot
  <2>4. /\ dynamics' \in Seq(Slot) /\ Len(dynamics') = n + 1 /\ Slots' = 1..(n + 1)
        /\ dynamics'[id] = [ParkedSlot EXCEPT !.inScene = TRUE]
        /\ \A p \in 1..n : dynamics'[p] = dynamics[p]
    <3> DEFINE grown == Append(dynamics, ParkedSlot)
    <3>1. [ParkedSlot EXCEPT !.inScene = TRUE] \in Slot
      BY <2>2, SlotFlags
    <3>2. grown \in Seq(Slot) /\ id \in 1..Len(grown) /\ grown[id] = ParkedSlot
      BY <2>1, <2>2, <1>0
    <3>3. dynamics' = [grown EXCEPT ![id] = [ParkedSlot EXCEPT !.inScene = TRUE]]
      BY <2>3, <3>2
    <3> HIDE DEF grown
    <3>4. /\ dynamics' \in Seq(Slot) /\ Len(dynamics') = Len(grown)
          /\ DOMAIN dynamics' = 1..Len(grown)
          /\ dynamics'[id] = [ParkedSlot EXCEPT !.inScene = TRUE]
          /\ \A j \in 1..Len(grown) \ {id} : dynamics'[j] = grown[j]
      BY <3>1, <3>2, <3>3, SlotUpdate
    <3>5. /\ Len(grown) = n + 1
          /\ \A j \in 1..n : grown[j] = dynamics[j]
      BY <2>2 DEF grown
    <3>6. \A j \in 1..n : j \in 1..Len(grown) \ {id}
      BY <2>1, <3>5, <1>0
    <3> QED BY <3>4, <3>5, <3>6 DEF Slots
  <2>5. /\ Pooled' = Pooled \cup {id} /\ PooledAlive' = PooledAlive \cup {id}
        /\ Simulated' = Simulated \cup {id} /\ id \notin Pooled
    <3>1. dynamics'[id].actor = TRUE /\ dynamics'[id].pooled = TRUE
          /\ dynamics'[id].inScene = TRUE
      BY <2>2, <2>4, SlotFlags DEF ParkedSlot
    <3>2. Slots' = Slots \cup {id} /\ id \notin Slots
      BY <2>1, <2>4, <1>0
    <3>3. \A p \in Slots : dynamics'[p] = dynamics[p]
      BY <2>4, <1>0
    <3> QED BY <3>1, <3>2, <3>3, Zenon DEF Pooled, PooledAlive, Simulated
  <2>6. peak' \in Nat
    <3>1. lent \cup {id} \subseteq BodyIds /\ IsFiniteSet(BodyIds)
      BY FS_Interval, PoolAssumption DEF IInv, TypeOK, BodyIds
    <3>2. Cardinality(lent \cup {id}) \in Nat
      BY <3>1, FS_Subset, FS_CardinalityType
    <3> QED BY <2>3, <3>2 DEF Larger, IInv, TypeOK
  <2>7. TypeOK'
    BY <2>1, <2>3, <2>4, <2>6, <1>0 DEF IInv, TypeOK
  <2>8. FreeListSound'
    <3>1. l = 0
      BY <1>3
    <3>2. \A p \in PooledAlive : dynamics[p].inScene
      BY <3>1 DEF IInv, FreeListSound
    <3>3. \A p \in PooledAlive' : dynamics'[p].inScene
      <4>1. dynamics'[id].inScene = TRUE
        BY <2>2, <2>4, SlotFlags
      <4>2. \A p \in PooledAlive : p \in 1..n
        BY <1>0 DEF PooledAlive, Pooled
      <4> QED BY <4>1, <4>2, <3>2, <2>4, <2>5
    <3> QED BY <3>1, <3>3, <2>1 DEF FreeListSound
  <2>9. SceneMatchesSlots'
    BY <2>3, <2>5, <1>a DEF SceneMatchesSlots
  <2>10. SlotsKept
    BY <2>1, <2>4, <1>0 DEF SlotsKept
  <2>11. PooledAlive' \subseteq lent'
    <3>1. \A p \in PooledAlive : dynamics[p].inScene
      BY <1>3 DEF IInv, FreeListSound
    <3>2. PooledAlive \subseteq lent
      BY <3>1, <1>a DEF PooledAlive, Pooled, Simulated
    <3> QED BY <3>2, <2>3, <2>5
  <2>12. peak' >= Cardinality(lent')
    <3>1. lent \cup {id} \subseteq BodyIds /\ IsFiniteSet(BodyIds)
      BY FS_Interval, PoolAssumption DEF IInv, TypeOK, BodyIds
    <3>2. Cardinality(lent \cup {id}) \in Nat
      BY <3>1, FS_Subset, FS_CardinalityType
    <3> QED BY <2>3, <3>2 DEF Larger, IInv, TypeOK
  <2> QED BY <2>7, <2>8, <2>9, <2>10, <2>11, <2>12 DEF IInv
<1> QED BY <1>1, <1>2, <1>3

-----------------------------------------------------------------------------
LEMMA ReleaseBoxIInv ==
  ASSUME IInv, NEW id \in BodyIds, ReleaseBox(id)
  PROVE  IInv' /\ SlotsKept /\ PooledAlive' = PooledAlive
<1> DEFINE n == Len(dynamics)
           l == Len(freeList)
           x == [dynamics[id] EXCEPT !.inScene = FALSE]
<1>1. /\ dynamics \in Seq(Slot) /\ n \in Nat /\ n <= MaxBodies /\ Slots = 1..n
      /\ freeList \in Seq(BodyIds) /\ l \in Nat /\ id \in 1..n
  BY PoolAssumption DEF IInv, TypeOK, Slots, ReleaseBox
<1>2. scene = Simulated /\ lent = Simulated \cap Pooled
  BY DEF IInv, SceneMatchesSlots
<1>3. /\ up' = up /\ peak' = peak /\ scene' = scene \ {id} /\ lent' = lent \ {id}
      /\ freeList' = Append(freeList, id) /\ dynamics' = [dynamics EXCEPT ![id] = x]
  BY DEF ReleaseBox
<1>4. dynamics[id] \in Slot /\ dynamics[id].actor /\ dynamics[id].pooled
      /\ dynamics[id].inScene /\ FALSE \in BOOLEAN
  BY <1>1 DEF ReleaseBox, Releasable
<1>5. x \in Slot /\ x.actor = dynamics[id].actor /\ x.pooled = dynamics[id].pooled
      /\ x.inScene = FALSE
  BY <1>4, SlotFlags, Zenon
<1> HIDE DEF x
<1>6. /\ dynamics' \in Seq(Slot) /\ Len(dynamics') = n /\ Slots' = 1..n
      /\ dynamics'[id] = x /\ \A p \in 1..n \ {id} : dynamics'[p] = dynamics[p]
  <2>1. /\ dynamics' \in Seq(Slot) /\ Len(dynamics') = n /\ DOMAIN dynamics' = 1..n
        /\ dynamics'[id] = x /\ \A p \in 1..n \ {id} : dynamics'[p] = dynamics[p]
    BY <1>1, <1>3, <1>5, SlotUpdate
  <2> QED BY <2>1 DEF Slots
<1>7. /\ freeList' \in Seq(BodyIds) /\ Len(freeList') = l + 1 /\ freeList'[l + 1] = id
      /\ \A k \in 1..l : freeList'[k] = freeList[k]
  BY <1>1, <1>3
<1>8. Pooled' = Pooled /\ PooledAlive' = PooledAlive /\ id \in PooledAlive
      /\ Simulated' = Simulated \ {id}
  BY <1>1, <1>4, <1>5, <1>6, Zenon DEF Pooled, PooledAlive, Simulated
<1>9. TypeOK'
  BY <1>1, <1>3, <1>6, <1>7 DEF IInv, TypeOK
<1>10. FreeListSound'
  <2>1. \A k \in 1..l : freeList[k] # id
    BY <1>4 DEF IInv, FreeListSound
  <2>2. \A j, k \in 1..(l + 1) : freeList'[j] = freeList'[k] => j = k
    BY <2>1, <1>1, <1>7 DEF IInv, FreeListSound
  <2>3. ASSUME NEW k \in 1..(l + 1)
        PROVE  /\ freeList'[k] \in Pooled'
               /\ dynamics'[freeList'[k]].actor => ~dynamics'[freeList'[k]].inScene
    <3>1. CASE k = l + 1
      BY <3>1, <1>5, <1>6, <1>7, <1>8 DEF PooledAlive
    <3>2. CASE k \in 1..l
      <4>1. freeList[k] \in Pooled
            /\ (dynamics[freeList[k]].actor => ~dynamics[freeList[k]].inScene)
        BY <3>2 DEF IInv, FreeListSound
      <4>2. freeList'[k] = freeList[k] /\ freeList[k] \in 1..n \ {id}
        BY <3>2, <4>1, <2>1, <1>1, <1>7 DEF Pooled
      <4> QED BY <4>1, <4>2, <1>6, <1>8
    <3> QED BY <3>1, <3>2, <1>1
  <2>4. ASSUME NEW p \in PooledAlive, ~dynamics'[p].inScene
        PROVE  \E k \in 1..(l + 1) : freeList'[k] = p
    <3>1. CASE p = id
      BY <3>1, <1>1, <1>7
    <3>2. CASE p # id
      <4>1. ~dynamics[p].inScene
        BY <3>2, <2>4, <1>1, <1>6 DEF PooledAlive, Pooled
      <4>2. PICK k \in 1..l : freeList[k] = p
        BY <4>1 DEF IInv, FreeListSound
      <4> QED BY <4>2, <1>1, <1>7
    <3> QED BY <3>1, <3>2
  <2> QED BY <2>2, <2>3, <2>4, <1>7, <1>8 DEF FreeListSound
<1>11. SceneMatchesSlots'
  BY <1>2, <1>3, <1>8 DEF SceneMatchesSlots
<1>12. SlotsKept
  BY <1>1, <1>5, <1>6 DEF SlotsKept
<1> QED BY <1>8, <1>9, <1>10, <1>11, <1>12 DEF IInv

LEMMA RemoveBodyIInv ==
  ASSUME IInv, NEW id \in BodyIds, RemoveBody(id)
  PROVE  IInv' /\ SlotsKept /\ PooledAlive' \subseteq PooledAlive
<1> DEFINE n == Len(dynamics)
           x == [dynamics[id] EXCEPT !.actor = FALSE]
<1>1. /\ dynamics \in Seq(Slot) /\ n \in Nat /\ n <= MaxBodies /\ Slots = 1..n
      /\ id \in 1..n
  BY PoolAssumption DEF IInv, TypeOK, Slots, RemoveBody
<1>2. scene = Simulated /\ lent = Simulated \cap Pooled
  BY DEF IInv, SceneMatchesSlots
<1>3. /\ up' = up /\ peak' = peak /\ scene' = scene \ {id} /\ lent' = lent \ {id}
      /\ freeList' = freeList /\ dynamics' = [dynamics EXCEPT ![id] = x]
  BY DEF RemoveBody
<1>4. dynamics[id] \in Slot /\ dynamics[id].actor /\ FALSE \in BOOLEAN
  BY <1>1 DEF RemoveBody
<1>5. x \in Slot /\ x.actor = FALSE /\ x.pooled = dynamics[id].pooled
      /\ x.inScene = dynamics[id].inScene
  BY <1>4, SlotFlags, Zenon
<1> HIDE DEF x
<1>6. /\ dynamics' \in Seq(Slot) /\ Len(dynamics') = n /\ Slots' = 1..n
      /\ dynamics'[id] = x /\ \A p \in 1..n \ {id} : dynamics'[p] = dynamics[p]
  <2>1. /\ dynamics' \in Seq(Slot) /\ Len(dynamics') = n /\ DOMAIN dynamics' = 1..n
        /\ dynamics'[id] = x /\ \A p \in 1..n \ {id} : dynamics'[p] = dynamics[p]
    BY <1>1, <1>3, <1>5, SlotUpdate
  <2> QED BY <2>1 DEF Slots
<1>7. /\ Pooled' = Pooled /\ PooledAlive' = PooledAlive \ {id}
      /\ Simulated' = Simulated \ {id}
  BY <1>1, <1>4, <1>5, <1>6, Zenon DEF Pooled, PooledAlive, Simulated
<1>8. TypeOK'
  BY <1>3, <1>6, <1>1 DEF IInv, TypeOK
<1>9. FreeListSound'
  <2>1. ASSUME NEW k \in 1..Len(freeList)
        PROVE  /\ freeList[k] \in Pooled
               /\ dynamics'[freeList[k]].actor => ~dynamics'[freeList[k]].inScene
    <3>1. /\ freeList[k] \in Pooled /\ freeList[k] \in 1..n
          /\ dynamics[freeList[k]].actor => ~dynamics[freeList[k]].inScene
      BY <1>1 DEF IInv, FreeListSound, Pooled
    <3> QED BY <3>1, <1>5, <1>6
  <2>2. \A p \in PooledAlive' : dynamics'[p] = dynamics[p] /\ p \in PooledAlive
    BY <1>1, <1>6, <1>7 DEF PooledAlive, Pooled
  <2> QED BY <2>1, <2>2, <1>3, <1>7 DEF IInv, FreeListSound
<1>10. SceneMatchesSlots'
  BY <1>2, <1>3, <1>7 DEF SceneMatchesSlots
<1>11. SlotsKept
  BY <1>1, <1>5, <1>6 DEF SlotsKept
<1> QED BY <1>7, <1>8, <1>9, <1>10, <1>11 DEF IInv

LEMMA ClearDynamicsIInv ==
  ASSUME IInv, ClearDynamics
  PROVE  IInv' /\ SlotsKept /\ PooledAlive' = PooledAlive
<1> DEFINE n == Len(dynamics)
<1>1. /\ dynamics \in Seq(Slot) /\ n \in Nat /\ n <= MaxBodies /\ Slots = 1..n
      /\ \A p \in 1..n : dynamics[p] \in Slot
  BY PoolAssumption DEF IInv, TypeOK, Slots
<1>2. /\ up' = up /\ peak' = peak /\ lent' = {} /\ scene' = scene \ Simulated
      /\ dynamics' = [p \in 1..n |-> ClearedSlot(dynamics[p])]
  BY <1>1 DEF ClearDynamics
<1>3. ASSUME NEW b \in Slot
      PROVE  /\ ClearedSlot(b) \in Slot /\ ClearedSlot(b).pooled = b.pooled
             /\ ClearedSlot(b).actor => b.actor
             /\ b.pooled => ClearedSlot(b).actor = b.actor
             /\ ClearedSlot(b).actor => b.pooled /\ ~ClearedSlot(b).inScene
  BY SlotFlags DEF ClearedSlot
<1>4. /\ dynamics' \in Seq(Slot) /\ Len(dynamics') = n /\ Slots' = 1..n
      /\ \A p \in 1..n : dynamics'[p] = ClearedSlot(dynamics[p])
  BY <1>1, <1>2, <1>3 DEF Slots
<1>5. /\ Pooled' = Pooled /\ PooledAlive' = PooledAlive /\ Simulated' = {}
  <2>1. ASSUME NEW p \in Slots
        PROVE  /\ dynamics'[p].pooled = dynamics[p].pooled
               /\ dynamics[p].pooled => dynamics'[p].actor = dynamics[p].actor
               /\ ~(dynamics'[p].actor /\ (dynamics'[p].pooled => dynamics'[p].inScene))
    <3>1. dynamics[p] \in Slot /\ dynamics'[p] = ClearedSlot(dynamics[p])
      BY <1>1, <1>4
    <3>2. /\ dynamics'[p].pooled = dynamics[p].pooled
          /\ dynamics'[p].actor => dynamics[p].pooled /\ ~dynamics'[p].inScene
          /\ dynamics[p].pooled => dynamics'[p].actor = dynamics[p].actor
      BY <3>1, <1>3, Zenon
    <3> QED BY <3>2, Zenon
  <2>2. Slots' = Slots
    BY <1>1, <1>4
  <2> QED BY <2>1, <2>2, Zenon DEF Pooled, PooledAlive, Simulated
<1>6. PICK s \in [1..Cardinality(PooledAlive) -> PooledAlive] :
         Ascending(s, PooledAlive) /\ freeList' = s
  BY DEF ClearDynamics
<1>7. PooledAlive \subseteq BodyIds /\ Cardinality(PooledAlive) \in Nat
  <2>1. PooledAlive \subseteq 1..n /\ IsFiniteSet(1..n)
    BY <1>1, FS_Interval DEF PooledAlive, Pooled
  <2>2. Cardinality(PooledAlive) \in Nat
    BY <2>1, FS_Subset, FS_CardinalityType
  <2> QED BY <2>1, <2>2, <1>1, PoolAssumption DEF BodyIds
<1>8. s \in Seq(BodyIds) /\ Len(s) = Cardinality(PooledAlive)
      /\ \A k \in 1..Len(s) : s[k] \in PooledAlive
  BY <1>6, <1>7
<1>9. TypeOK'
  BY <1>1, <1>2, <1>4, <1>6, <1>8 DEF IInv, TypeOK
<1>10. FreeListSound'
  <2>1. \A j, k \in 1..Len(s) : s[j] = s[k] => j = k
    <3>1. \A j, k \in 1..Len(s) : j < k => s[j] < s[k]
      BY <1>6 DEF Ascending
    <3>2. \A k \in 1..Len(s) : s[k] \in Int
      <4>1. \A p \in PooledAlive : p \in Int
        BY <1>1 DEF PooledAlive, Pooled
      <4> QED BY <4>1, <1>8
    <3>3. \A k \in 1..Len(s) : k \in Int
      OBVIOUS
    <3>4. ASSUME NEW j \in 1..Len(s), NEW k \in 1..Len(s), s[j] = s[k], j # k
          PROVE  FALSE
      <4>1. j < k \/ k < j
        BY <3>3, <3>4
      <4> QED BY <4>1, <3>1, <3>2, <3>4
    <3> QED BY <3>4
  <2>2. \A k \in 1..Len(s) : s[k] \in Pooled /\ s[k] \in 1..n
    BY <1>1, <1>8 DEF PooledAlive, Pooled
  <2>3. \A k \in 1..Len(s) : dynamics'[s[k]].actor => ~dynamics'[s[k]].inScene
    BY <2>2, <1>1, <1>3, <1>4
  <2>4. \A p \in PooledAlive : \E k \in 1..Len(s) : s[k] = p
    BY <1>6 DEF Ascending
  <2> QED BY <2>1, <2>2, <2>3, <2>4, <1>5, <1>6 DEF FreeListSound
<1>11. SceneMatchesSlots'
  BY <1>2, <1>5 DEF IInv, SceneMatchesSlots
<1>12. SlotsKept
  BY <1>1, <1>3, <1>4 DEF SlotsKept
<1> QED BY <1>5, <1>9, <1>10, <1>11, <1>12 DEF IInv

-----------------------------------------------------------------------------
LEMMA NextIInv == IInv /\ [Next]_vars => IInv'
<1> SUFFICES ASSUME IInv, [Next]_vars
             PROVE  IInv'
  OBVIOUS
<1>1. CASE Startup
  BY <1>1, StartupIInv
<1>2. CASE Shutdown
  BY <1>2, ShutdownIInv
<1>3. CASE AddBox
  BY <1>3, AddBodyIInv DEF AddBox
<1>4. CASE AddDynamicBox
  BY <1>4, AddBodyIInv DEF AddDynamicBox
<1>5. CASE \E count \in Reservations : ReservePool(count)
  BY <1>5, ReservePoolIInv, PoolAssumption
<1>6. CASE \E id \in BodyIds : AcquireBox(id)
  BY <1>6, AcquireBoxIInv
<1>7. CASE \E id \in BodyIds : ReleaseBox(id)
  BY <1>7, ReleaseBoxIInv
<1>8. CASE \E id \in BodyIds : RemoveBody(id)
  BY <1>8, RemoveBodyIInv
<1>9. CASE ClearDynamics
  BY <1>9, ClearDynamicsIInv
<1>10. CASE UNCHANGED vars
  <2>1. TypeOK'
    BY <1>10 DEF vars, IInv, TypeOK
  <2>2. FreeListSound'
    BY <1>10, Zenon DEF vars, IInv, FreeListSound, Slots, Pooled, PooledAlive
  <2>3. SceneMatchesSlots'
    BY <1>10, Zenon DEF vars, IInv, SceneMatchesSlots, Slots, Pooled, Simulated
  <2> QED BY <2>1, <2>2, <2>3 DEF IInv
<1> QED BY <1>1, <1>2, <1>3, <1>4, <1>5, <1>6, <1>7, <1>8, <1>9, <1>10 DEF Next

LEMMA SpecIInv == Spec => []IInv
  BY InitIInv, NextIInv, PTL DEF Spec

\* The variables of PhysicsWorld keep their types whatever is called in whatever order.
THEOREM TypeCorrect == Spec => []TypeOK
<1>1. IInv => TypeOK
  BY DEF IInv
<1> QED BY <1>1, SpecIInv, PTL

\* The free list never holds a slot twice, never a slot in use, and never loses one.
THEOREM FreeListCorrect == Spec => []FreeListSound
<1>1. IInv => FreeListSound
  BY DEF IInv
<1> QED BY <1>1, SpecIInv, PTL

\* The slots' flags always tell which bodies the PhysX scene simulates.
THEOREM SceneCorrect == Spec => []SceneMatchesSlots
<1>1. IInv => SceneMatchesSlots
  BY DEF IInv
<1> QED BY <1>1, SpecIInv, PTL

\* AcquireBox never returns an id that is still held.
THEOREM LendCorrect == Spec => NoDoubleLend
<1>1. ASSUME IInv, NEW id \in BodyIds, AcquireBox(id)
      PROVE  id \notin lent
  <2>1. CASE freeList # <<>>
    BY <1>1, <2>1, TopOfFreeList DEF AcquireBox
  <2>2. CASE freeList = <<>>
    <3>1. id = Len(dynamics) + 1 /\ Slots = 1..Len(dynamics) /\ Len(dynamics) \in Nat
      BY <1>1, <2>2 DEF AcquireBox, IInv, TypeOK, Slots
    <3> QED BY <1>1, <3>1 DEF IInv, SceneMatchesSlots, Pooled
  <2> QED BY <2>1, <2>2
<1>2. IInv =>
      [\A id \in BodyIds : (AcquireBox(id) /\ id \in lent') => id \notin lent]_vars
  BY <1>1
<1> QED BY <1>2, SpecIInv, PTL DEF NoDoubleLend

\* Ids are stable: a slot stays, stays pooled or plain, and a tombstone is never revived.
THEOREM IdsCorrect == Spec => IdsStable
<1>1. ASSUME IInv, [Next]_vars, up'
      PROVE  SlotsKept \/ UNCHANGED vars
  <2>1. CASE Startup \/ Shutdown
    BY <1>1, <2>1, Zenon DEF Startup, Shutdown, SlotsKept, Slots
  <2>2. CASE AddBox \/ AddDynamicBox
    BY <1>1, <2>2, AddBodyIInv DEF AddBox, AddDynamicBox
  <2>3. CASE \E count \in Reservations : ReservePool(count)
    BY <1>1, <2>3, ReservePoolIInv, PoolAssumption
  <2>4. CASE \E id \in BodyIds : AcquireBox(id) \/ ReleaseBox(id) \/ RemoveBody(id)
    BY <1>1, <2>4, AcquireBoxIInv, ReleaseBoxIInv, RemoveBodyIInv
  <2>5. CASE ClearDynamics
    BY <1>1, <2>5, ClearDynamicsIInv
  <2> QED BY <1>1, <2>1, <2>2, <2>3, <2>4, <2>5 DEF Next
<1>2. IInv /\ [Next]_vars =>
      [up' => \A p \in Slots :
          /\ p \in DOMAIN dynamics'
          /\ dynamics'[p].pooled = dynamics[p].pooled
          /\ dynamics'[p].actor => dynamics[p].actor]_vars
  BY <1>1 DEF SlotsKept
<1> QED BY <1>2, SpecIInv, PTL DEF Spec, IdsStable

\* The pool is never larger than what was reserved or lent at once: acquisitions reuse.
THEOREM PoolBounded == Spec => []PoolRecycles
<1> DEFINE RInv == IInv /\ PoolRecycles
<1>0. ASSUME IInv
      PROVE  /\ IsFiniteSet(PooledAlive) /\ Cardinality(PooledAlive) \in Nat
             /\ IsFiniteSet(lent) /\ Cardinality(lent) \in Nat /\ peak \in Nat
  <2>1. /\ PooledAlive \subseteq 1..Len(dynamics) /\ IsFiniteSet(1..Len(dynamics))
        /\ lent \subseteq BodyIds /\ IsFiniteSet(BodyIds)
    BY <1>0, FS_Interval, PoolAssumption
       DEF PooledAlive, Pooled, Slots, BodyIds, IInv, TypeOK
  <2> QED BY <2>1, <1>0, FS_Subset, FS_CardinalityType DEF IInv, TypeOK
<1>a. ASSUME IInv'
      PROVE  /\ Cardinality(PooledAlive') \in Nat
             /\ IsFiniteSet(lent') /\ Cardinality(lent') \in Nat /\ peak' \in Nat
  <2>1. /\ PooledAlive' \subseteq 1..Len(dynamics') /\ IsFiniteSet(1..Len(dynamics'))
        /\ lent' \subseteq BodyIds /\ IsFiniteSet(BodyIds)
    <3>1. /\ dynamics' \in Seq(Slot) /\ Len(dynamics') \in Int
          /\ MaxBodies \in Int /\ lent' \subseteq BodyIds
      BY <1>a, PoolAssumption DEF IInv, TypeOK
    <3>2. PooledAlive' \subseteq 1..Len(dynamics')
      BY <3>1 DEF PooledAlive, Pooled, Slots
    <3> QED BY <3>1, <3>2, FS_Interval DEF BodyIds
  <2> QED BY <2>1, <1>a, FS_Subset, FS_CardinalityType DEF IInv, TypeOK
<1>1. Init => RInv
  <2>1. ASSUME Init PROVE PoolRecycles
    <3>1. PooledAlive = {} /\ peak = 0
      BY <2>1 DEF Init, PooledAlive, Pooled, Slots
    <3> QED BY <3>1, FS_EmptySet DEF PoolRecycles
  <2> QED BY <2>1, InitIInv
<1>2. RInv /\ [Next]_vars => RInv'
  <2> SUFFICES ASSUME IInv, PoolRecycles, [Next]_vars
               PROVE  PoolRecycles'
    BY NextIInv
  <2>0. /\ IInv'
        /\ IsFiniteSet(PooledAlive) /\ Cardinality(PooledAlive) \in Nat /\ peak \in Nat
        /\ IsFiniteSet(lent') /\ Cardinality(lent') \in Nat /\ peak' \in Nat
        /\ Cardinality(PooledAlive') \in Nat
    <3>1. IInv'
      BY NextIInv
    <3> QED BY <3>1, <1>0, <1>a
  <2>1. ASSUME PooledAlive' \subseteq PooledAlive, peak' >= peak
        PROVE  PoolRecycles'
    BY <2>0, <2>1, FS_Subset DEF PoolRecycles
  <2>2. CASE Startup \/ UNCHANGED vars
    BY <2>2, Zenon DEF Startup, vars, PoolRecycles, PooledAlive, Pooled, Slots
  <2>3. CASE Shutdown
    <3>1. PooledAlive' = {} /\ peak' = 0
      BY <2>3 DEF Shutdown, PooledAlive, Pooled, Slots
    <3> QED BY <3>1, FS_EmptySet DEF PoolRecycles
  <2>4. CASE AddBox \/ AddDynamicBox
    <3>1. peak' = peak
      BY <2>4 DEF AddBox, AddDynamicBox, AddBody
    <3>2. PooledAlive' = PooledAlive
      BY <2>4, AddBodyIInv DEF AddBox, AddDynamicBox
    <3> QED BY <2>0, <2>1, <3>1, <3>2
  <2>5. CASE \E count \in Reservations : ReservePool(count)
    BY <2>5, ReservePoolIInv, PoolAssumption DEF PoolRecycles
  <2>6. CASE \E id \in BodyIds : AcquireBox(id)
    <3>1. \/ PooledAlive' = PooledAlive /\ peak' >= peak
          \/ PooledAlive' \subseteq lent' /\ peak' >= Cardinality(lent')
      BY <2>6, AcquireBoxIInv
    <3>2. ASSUME PooledAlive' \subseteq lent', peak' >= Cardinality(lent')
          PROVE  PoolRecycles'
      BY <3>2, <2>0, FS_Subset DEF PoolRecycles
    <3> QED BY <3>1, <3>2, <2>1
  <2>7. CASE \E id \in BodyIds : ReleaseBox(id) \/ RemoveBody(id)
    <3>1. peak' = peak
      BY <2>7 DEF ReleaseBox, RemoveBody
    <3>2. PooledAlive' \subseteq PooledAlive
      BY <2>7, ReleaseBoxIInv, RemoveBodyIInv
    <3> QED BY <2>0, <2>1, <3>1, <3>2
  <2>8. CASE ClearDynamics
    <3>1. peak' = peak
      BY <2>8 DEF ClearDynamics
    <3> QED BY <2>0, <2>1, <2>8, <3>1, ClearDynamicsIInv
  <2> QED BY <2>2, <2>3, <2>4, <2>5, <2>6, <2>7, <2>8 DEF Next
<1>3. RInv => PoolRecycles
  OBVIOUS
<1> HIDE DEF RInv
<1> QED BY <1>1, <1>2, <1>3, PTL DEF Spec

-----------------------------------------------------------------------------
(***************************************************************************)
(* The debris.                                                             *)
(***************************************************************************)

Device == [voxel : [Cells -> Voxels], brick : [Bricks -> BOOLEAN]]
Job    == [blast : Blasts, parts : Seq(SUBSET Cells), cap : MaxLives]
Pcs    == {"boot", "drain", "spawn", "cull", "paint", "present"}

\* FieldTypeOK, but for the flags and the pool; the iterator and the job in more detail.
DataOK ==
    /\ terrain \in [Cells -> Voxels]
    /\ live \in Seq(Chunk)
    /\ pc \in Pcs
    /\ i \in 1..(Len(live) + 1)
    /\ pc \notin {"cull", "paint"} => i = 1
    /\ pc = "spawn" => job \in Job
    /\ budget \in 0..CmdsPerDrain

-----------------------------------------------------------------------------
(* Chunks.                                                                 *)

\* Erasing one element moves the later ones down.
LEMMA Removed ==
    ASSUME NEW S, NEW s \in Seq(S), NEW k \in 1..Len(s)
    PROVE  /\ RemoveAt(s, k) \in Seq(S)
           /\ Len(RemoveAt(s, k)) = Len(s) - 1
           /\ \A j \in 1..(Len(s) - 1) :
                 RemoveAt(s, k)[j] = IF j < k THEN s[j] ELSE s[j + 1]
<1> DEFINE a == SubSeq(s, 1, k - 1)
           b == SubSeq(s, k + 1, Len(s))
<1>1. /\ a \in Seq(S) /\ Len(a) = k - 1
      /\ \A j \in 1..(k - 1) : a[j] = s[j]
  <2>1. k - 1 \in Nat /\ \A j \in 1..(k - 1) : s[j] \in S
    OBVIOUS
  <2>2. /\ a \in Seq(S) /\ Len(a) = IF 1 <= k - 1 THEN k - 1 - 1 + 1 ELSE 0
        /\ \A j \in 1..(k - 1 - 1 + 1) : a[j] = s[1 + j - 1]
    BY <2>1, SubSeqProperties
  <2> QED BY <2>1, <2>2
<1>2. /\ b \in Seq(S) /\ Len(b) = Len(s) - k
      /\ \A j \in 1..(Len(s) - k) : b[j] = s[k + j]
  <2>1. k + 1 \in Nat /\ Len(s) \in Nat /\ \A j \in (k + 1)..Len(s) : s[j] \in S
    OBVIOUS
  <2>2. /\ b \in Seq(S) /\ Len(b) = IF k + 1 <= Len(s) THEN Len(s) - (k + 1) + 1 ELSE 0
        /\ \A j \in 1..(Len(s) - (k + 1) + 1) : b[j] = s[k + 1 + j - 1]
    BY <2>1, SubSeqProperties
  <2> QED BY <2>1, <2>2
<1> HIDE DEF a, b
<1>3. RemoveAt(s, k) = a \o b
  BY DEF RemoveAt, a, b
<1>4. /\ a \o b \in Seq(S) /\ Len(a \o b) = Len(s) - 1
      /\ \A j \in 1..(Len(s) - 1) : (a \o b)[j] = IF j < k THEN a[j] ELSE b[j - (k - 1)]
  <2>1. Len(a) + Len(b) = Len(s) - 1 /\ Len(a) = k - 1
    BY <1>1, <1>2
  <2>2. /\ a \o b \in Seq(S) /\ Len(a \o b) = Len(a) + Len(b)
        /\ \A j \in 1..(Len(a) + Len(b)) :
              (a \o b)[j] = IF j <= Len(a) THEN a[j] ELSE b[j - Len(a)]
    BY <1>1, <1>2, ConcatProperties
  <2>3. \A j \in 1..(Len(s) - 1) : j < k <=> j <= k - 1
    OBVIOUS
  <2> QED BY <2>1, <2>2, <2>3
<1>5. ASSUME NEW j \in 1..(Len(s) - 1), ~(j < k)
      PROVE  b[j - (k - 1)] = s[j + 1]
  <2>1. j - (k - 1) \in 1..(Len(s) - k) /\ k + (j - (k - 1)) = j + 1
    BY <1>5
  <2> QED BY <1>2, <2>1
<1> QED BY <1>1, <1>3, <1>4, <1>5

\* Replacing one chunk.
LEMMA Replaced ==
    ASSUME NEW s \in Seq(Chunk), NEW k \in 1..Len(s), NEW c \in Chunk,
           NEW t, t = [s EXCEPT ![k] = c]
    PROVE  /\ t \in Seq(Chunk) /\ Len(t) = Len(s)
           /\ t[k] = c /\ \A j \in 1..Len(s) \ {k} : t[j] = s[j]
  OBVIOUS

\* A chunk that has not expired can grow older.
LEMMA Aged ==
    ASSUME NEW c \in Chunk, c.age < Ttl
    PROVE  LET d == [c EXCEPT !.age = c.age + 1]
           IN  d \in Chunk /\ d.id = c.id /\ d.prev = c.prev
<1>1. c.age \in 0..Ttl /\ Ttl \in Nat
  BY DebrisAssumption DEF Chunk
<1>2. c.age + 1 \in 0..Ttl
  BY <1>1
<1> QED BY <1>2 DEF Chunk

-----------------------------------------------------------------------------
(* The renderer's grid.                                                    *)

Exact(d) == \A b \in Bricks : d.brick[b] <=> Occupied(d.voxel, b)

LEMMA EditedVoxel ==
    ASSUME RendererValid, NEW d, NEW box, NEW src, NEW c \in Cells
    PROVE  Edited(d, box, src).voxel[c] = IF c \in box THEN src[c] ELSE d.voxel[c]
  BY DEF Edited

LEMMA UploadedVoxel ==
    ASSUME RendererValid, NEW d, NEW grid, NEW c \in Cells
    PROVE  Uploaded(d, grid).voxel[c] = grid[c]
  BY DEF Uploaded

\* A brick that the box does not meet keeps its cells, so its mark stays right.
LEMMA EditedExact ==
    ASSUME NEW d, Exact(d), NEW box, NEW src
    PROVE  Exact(Edited(d, box, src))
<1>1. CASE ~RendererValid
  BY <1>1 DEF Edited
<1>2. CASE RendererValid
  <2> DEFINE voxel == [c \in Cells |-> IF c \in box THEN src[c] ELSE d.voxel[c]]
             e == Edited(d, box, src)
  <2>1. /\ e.voxel = voxel
        /\ \A b \in Bricks : e.brick[b] = (IF \E c \in box : BrickOf[c] = b
                                           THEN Occupied(voxel, b) ELSE d.brick[b])
    BY <1>2 DEF Edited
  <2>2. ASSUME NEW b \in Bricks, ~\E c \in box : BrickOf[c] = b
        PROVE  Occupied(voxel, b) <=> Occupied(d.voxel, b)
    BY <2>2 DEF Occupied
  <2>3. ASSUME NEW b \in Bricks
        PROVE  e.brick[b] <=> Occupied(e.voxel, b)
    <3> HIDE DEF e, voxel
    <3>1. CASE \E c \in box : BrickOf[c] = b
      BY <2>1, <3>1
    <3>2. CASE ~\E c \in box : BrickOf[c] = b
      BY <2>1, <2>2, <3>2 DEF Exact
    <3> QED BY <3>1, <3>2
  <2> QED BY <2>3 DEF Exact
<1> QED BY <1>1, <1>2

LEMMA UploadedExact ==
    ASSUME NEW d, Exact(d), NEW grid
    PROVE  Exact(Uploaded(d, grid))
  BY DEF Exact, Uploaded

LEMMA DeviceTypes ==
    ASSUME NEW d \in Device, NEW grid \in [Cells -> Voxels], NEW box
    PROVE  Edited(d, box, grid) \in Device /\ Uploaded(d, grid) \in Device
<1> DEFINE voxel == [c \in Cells |-> IF c \in box THEN grid[c] ELSE d.voxel[c]]
<1>1. voxel \in [Cells -> Voxels]
  BY DEF Device
<1>2. \A g, b : Occupied(g, b) \in BOOLEAN
  BY Zenon DEF Occupied
<1>3. \A b \in Bricks : d.brick[b] \in BOOLEAN
  BY DEF Device
<1> HIDE DEF voxel
<1>4. [b \in Bricks |-> IF \E c \in box : BrickOf[c] = b
                        THEN Occupied(voxel, b) ELSE d.brick[b]] \in [Bricks -> BOOLEAN]
  BY <1>2, <1>3
<1>5. [b \in Bricks |-> Occupied(grid, b)] \in [Bricks -> BOOLEAN]
  BY <1>2
<1> QED BY <1>1, <1>4, <1>5 DEF Edited, Uploaded, Device, voxel

-----------------------------------------------------------------------------
(* Steps, as far as the grid is concerned.                                 *)

GridInv == DataOK /\ device \in Device /\ NoGhosts /\ BricksExact

\* Nothing is drawn and no chunk gives up its footprint.
LEMMA GridKept ==
    ASSUME GridInv, DataOK', UNCHANGED <<terrain, device>>,
           \A n \in 1..Len(live) : \E m \in 1..Len(live') : live'[m].prev = live[n].prev
    PROVE  GridInv'
<1>1. NoGhosts'
  BY DEF GridInv, NoGhosts
<1>2. device' \in Device /\ BricksExact'
  BY DEF GridInv, BricksExact
<1> QED BY <1>1, <1>2 DEF GridInv

\* The renderer's grid becomes that of the terrain.
LEMMA GridUploaded ==
    ASSUME GridInv, DataOK', terrain' \in [Cells -> Voxels],
           device' = Uploaded(device, terrain')
    PROVE  GridInv'
<1>1. NoGhosts'
  BY UploadedVoxel DEF NoGhosts
<1>2. BricksExact'
  BY UploadedExact DEF GridInv, BricksExact, Exact
<1>3. device' \in Device
  BY DeviceTypes DEF GridInv
<1> QED BY <1>1, <1>2, <1>3 DEF GridInv

LEMMA StampedType ==
    ASSUME NEW grid \in [Cells -> Voxels], NEW s, \A c \in DOMAIN s : s[c] \in Voxels
    PROVE  Stamped(grid, s) \in [Cells -> Voxels]
  BY DEF Stamped

LEMMA EmptyType == Empty \in [Cells -> Voxels]
  BY DEF Empty, Voxels

LEMMA InitGrid == FieldInit => GridInv
<1> SUFFICES ASSUME FieldInit
             PROVE  GridInv
  OBVIOUS
<1>1. terrain \in [Cells -> Voxels]
  BY EmptyType, StampedType, DebrisAssumption DEF FieldInit
<1>2. DataOK
  BY <1>1, DebrisAssumption DEF FieldInit, DataOK, Pcs
<1>3. \A b \in Bricks : Occupied(terrain, b) \in BOOLEAN
  BY Zenon DEF Occupied
<1>4. device \in Device
  BY <1>1, <1>3 DEF FieldInit, Device
<1>5. NoGhosts /\ BricksExact
  BY DEF FieldInit, NoGhosts, BricksExact
<1> QED BY <1>2, <1>4, <1>5 DEF GridInv

\* Steps that only move the main thread, or the job, on.
LEMMA MoveGrid ==
    ASSUME GridInv,
           \/ Boot
           \/ \E b \in Blasts, cap \in MaxLives : VoxelBreak(b, cap)
           \/ \E p \in BOOLEAN : SetPaused(p)
           \/ SpawnSkip \/ SpawnRefused \/ EndDrain \/ CullDone \/ PaintDone \/ Present
    PROVE  GridInv'
<1>1. UNCHANGED <<terrain, device, live>>
  BY DEF Boot, VoxelBreak, SetPaused, SpawnSkip, SpawnRefused, EndDrain, CullDone, PaintDone,
         Present
<1>2. budget' \in 0..CmdsPerDrain
  BY DebrisAssumption
     DEF Boot, VoxelBreak, SetPaused, SpawnSkip, SpawnRefused, EndDrain, CullDone, PaintDone,
         Present, Command, GridInv, DataOK
<1>3. /\ pc' \in Pcs /\ i' \in 1..(Len(live) + 1)
      /\ pc' \notin {"cull", "paint"} => i' = 1
  BY DEF Boot, VoxelBreak, SetPaused, SpawnSkip, SpawnRefused, EndDrain, CullDone, PaintDone,
         Present, Command, GridInv, DataOK, Pcs
<1>4. pc' = "spawn" => job' \in Job
  <2>1. CASE \E b \in Blasts, cap \in MaxLives : VoxelBreak(b, cap)
    <3>1. PICK b \in Blasts, cap \in MaxLives : VoxelBreak(b, cap)
      BY <2>1
    <3>2. b.parts \in Seq(SUBSET Cells)
      <4>1. b.parts \in Seq(SUBSET b.region) /\ b.region \subseteq Cells
        BY DebrisAssumption
      <4>2. SUBSET b.region \subseteq SUBSET Cells
        BY <4>1
      <4> QED BY <4>1, <4>2, SeqMonotonic
    <3> QED BY <3>1, <3>2 DEF VoxelBreak, Job
  <2>2. CASE SpawnSkip \/ SpawnRefused
    <3>1. /\ job \in Job /\ job.parts # <<>>
          /\ job' \in {[job EXCEPT !.parts = Tail(@)], [job EXCEPT !.parts = <<>>]}
      BY <2>2 DEF SpawnSkip, SpawnRefused, SpawnDone, GridInv, DataOK
    <3>2. job.parts \in Seq(SUBSET Cells)
      BY <3>1 DEF Job
    <3>3. Tail(job.parts) \in Seq(SUBSET Cells) /\ <<>> \in Seq(SUBSET Cells)
      BY <3>1, <3>2, HeadTailProperties
    <3>4. \A q \in Seq(SUBSET Cells) : [job EXCEPT !.parts = q] \in Job
      BY <3>1 DEF Job
    <3> QED BY <3>1, <3>3, <3>4
  <2>3. CASE \/ Boot \/ EndDrain \/ CullDone \/ PaintDone \/ Present
             \/ \E p \in BOOLEAN : SetPaused(p)
    BY <2>3 DEF Boot, SetPaused, EndDrain, CullDone, PaintDone, Present, Command
  <2> QED BY <2>1, <2>2, <2>3
<1>5. DataOK'
  BY <1>1, <1>2, <1>3, <1>4 DEF GridInv, DataOK
<1> QED BY <1>1, <1>5, GridKept

\* The new chunk has drawn nothing yet.
LEMMA SpawnGrid ==
    ASSUME GridInv, NEW id \in BodyIds, SpawnChunk(id)
    PROVE  GridInv' /\ Len(live') = Len(live) + 1 /\ live'[Len(live) + 1].id = id
           /\ \A n \in 1..Len(live) : live'[n] = live[n]
<1> DEFINE part == Head(job.parts)
           new  == [id |-> id, age |-> 0, mats |-> {terrain[c] : c \in Captured(part)},
                    prev |-> {}, solid |-> {}]
<1>1. /\ pc = "spawn" /\ job \in Job /\ job.parts # <<>>
      /\ live' = Append(live, new)
      /\ job' = [job EXCEPT !.parts = Tail(job.parts)]
      /\ UNCHANGED <<terrain, device, pc, i, budget>>
  BY DEF SpawnChunk, SpawnDone, GridInv, DataOK
<1>2. /\ job.parts \in Seq(SUBSET Cells) /\ part \in SUBSET Cells
      /\ Tail(job.parts) \in Seq(SUBSET Cells)
  <2>1. job.parts \in Seq(SUBSET Cells)
    BY <1>1 DEF Job
  <2> QED BY <1>1, <2>1, HeadTailProperties
<1>3. new \in Chunk
  <2>1. {terrain[c] : c \in Captured(part)} \subseteq Materials
    BY <1>2 DEF Captured, Voxels, GridInv, DataOK
  <2>2. 0 \in 0..Ttl
    BY DebrisAssumption
  <2> QED BY <2>1, <2>2 DEF Chunk
<1> HIDE DEF new, part
<1>4. /\ live' \in Seq(Chunk) /\ Len(live') = Len(live) + 1
      /\ live'[Len(live) + 1] = new
      /\ \A n \in 1..Len(live) : live'[n] = live[n]
  BY <1>1, <1>3 DEF GridInv, DataOK
<1>5. job' \in Job
  BY <1>1, <1>2 DEF Job
<1>6. DataOK'
  BY <1>1, <1>4, <1>5 DEF GridInv, DataOK
<1>7. \A n \in 1..Len(live) : n \in 1..Len(live') /\ live'[n].prev = live[n].prev
  BY <1>4 DEF GridInv, DataOK
<1>8. GridInv'
  BY <1>1, <1>6, <1>7, GridKept
<1> QED BY <1>4, <1>8 DEF new

\* A survivor keeps its footprint.
LEMMA CullKeepGrid ==
    ASSUME GridInv, CullKeep
    PROVE  GridInv' /\ Len(live') = Len(live)
           /\ \A n \in 1..Len(live) : live'[n].id = live[n].id
<1>1. /\ pc = "cull" /\ i <= Len(live) /\ live[i].age < Ttl
      /\ live' = [live EXCEPT ![i].age = @ + 1]
      /\ i' = i + 1
      /\ UNCHANGED <<terrain, device, pc, job, budget>>
  BY DEF CullKeep
<1>2. live \in Seq(Chunk) /\ i \in 1..Len(live)
  BY <1>1 DEF GridInv, DataOK
<1>3. /\ live' \in Seq(Chunk) /\ Len(live') = Len(live)
      /\ \A n \in 1..Len(live) : live'[n].id = live[n].id /\ live'[n].prev = live[n].prev
  <2>1. live[i] \in Chunk /\ live[i].age < Ttl
    BY <1>1, <1>2
  <2>2. PICK d \in Chunk : /\ d = [live[i] EXCEPT !.age = live[i].age + 1]
                           /\ d.id = live[i].id /\ d.prev = live[i].prev
    BY <2>1, Aged
  <2>3. live' = [live EXCEPT ![i] = d]
    BY <1>1, <2>2
  <2>4. /\ live' \in Seq(Chunk) /\ Len(live') = Len(live)
        /\ live'[i] = d /\ \A j \in 1..Len(live) \ {i} : live'[j] = live[j]
    BY <1>2, <2>3, Replaced
  <2> QED BY <2>2, <2>4
<1>4. DataOK'
  <2>1. i' \in 1..(Len(live') + 1) /\ pc' = "cull"
    BY <1>1, <1>2, <1>3
  <2> QED BY <1>1, <1>3, <2>1 DEF GridInv, DataOK
<1>5. GridInv'
  BY <1>1, <1>3, <1>4, GridKept
<1> QED BY <1>3, <1>5

LEMMA PlaceGrid ==
    ASSUME GridInv, NEW s \in Stamps, VoxelPlace(s)
    PROVE  GridInv'
<1>1. terrain' \in [Cells -> Voxels]
  BY StampedType, DebrisAssumption DEF VoxelPlace, GridInv, DataOK
<1>2. DataOK'
  BY <1>1, DebrisAssumption DEF VoxelPlace, Command, GridInv, DataOK
<1> QED BY <1>1, <1>2, GridUploaded DEF VoxelPlace

LEMMA ClearGrid ==
    ASSUME GridInv, VoxelClear
    PROVE  GridInv'
<1>1. terrain' \in [Cells -> Voxels]
  BY EmptyType DEF VoxelClear
<1>2. live' \in Seq(Chunk) /\ Len(live') = 0 /\ i = 1 /\ UNCHANGED <<i, pc, job>>
  BY DEF VoxelClear, Command, GridInv, DataOK
<1>3. DataOK'
  BY <1>1, <1>2, DebrisAssumption DEF VoxelClear, Command, GridInv, DataOK
<1> QED BY <1>1, <1>3, GridUploaded DEF VoxelClear

\* The carved cells are inside the region that is uploaded.
LEMMA CarveGrid ==
    ASSUME GridInv, Carve
    PROVE  GridInv'
<1>1. /\ pc = "spawn" /\ pc' = "drain" /\ i = 1 /\ UNCHANGED <<live, i, budget>>
      /\ terrain' = [c \in Cells |-> IF c \in job.blast.sphere THEN Air ELSE terrain[c]]
      /\ device' = Edited(device, job.blast.region, terrain')
      /\ job.blast.sphere \subseteq job.blast.region
  BY DebrisAssumption DEF Carve, GridInv, DataOK, Job
<1>2. terrain' \in [Cells -> Voxels]
  BY <1>1 DEF GridInv, DataOK, Voxels
<1>3. DataOK'
  BY <1>1, <1>2 DEF GridInv, DataOK, Pcs
<1>4. device' \in Device
  BY <1>1, <1>2, DeviceTypes DEF GridInv
<1>5. BricksExact'
  BY <1>1, EditedExact DEF GridInv, BricksExact, Exact
<1>6. NoGhosts'
  <2> SUFFICES ASSUME RendererValid, NEW c \in Cells, device'.voxel[c] # terrain'[c]
               PROVE  \E n \in 1..Len(live) : c \in live[n].prev
    BY <1>1 DEF NoGhosts
  <2>1. device'.voxel[c] = IF c \in job.blast.region THEN terrain'[c] ELSE device.voxel[c]
    BY <1>1, EditedVoxel
  <2>2. device.voxel[c] # terrain[c]
    BY <1>1, <2>1
  <2> QED BY <2>2 DEF GridInv, NoGhosts
<1> QED BY <1>3, <1>4, <1>5, <1>6 DEF GridInv

\* The footprint of the chunk that goes is terrain again, those of the others stay theirs.
LEMMA CullDeadGrid ==
    ASSUME GridInv, CullDead
    PROVE  GridInv'
<1>1. /\ pc = "cull" /\ live \in Seq(Chunk) /\ i \in 1..Len(live)
      /\ live' = RemoveAt(live, i)
      /\ device' = Edited(device, live[i].prev, terrain)
      /\ UNCHANGED <<terrain, pc, i, job, budget>>
  BY DEF CullDead, GridInv, DataOK
<1>2. /\ live' \in Seq(Chunk) /\ Len(live') = Len(live) - 1
      /\ \A j \in 1..(Len(live) - 1) : live'[j] = IF j < i THEN live[j] ELSE live[j + 1]
  BY <1>1, Removed
<1>3. DataOK'
  BY <1>1, <1>2 DEF GridInv, DataOK
<1>4. device' \in Device
  BY <1>1, DeviceTypes DEF GridInv, DataOK
<1>5. BricksExact'
  BY <1>1, EditedExact DEF GridInv, BricksExact, Exact
<1>6. NoGhosts'
  <2> SUFFICES ASSUME RendererValid, NEW c \in Cells, device'.voxel[c] # terrain[c]
               PROVE  \E m \in 1..Len(live') : c \in live'[m].prev
    BY <1>1 DEF NoGhosts
  <2>1. c \notin live[i].prev /\ device.voxel[c] # terrain[c]
    BY <1>1, EditedVoxel
  <2>2. PICK n \in 1..Len(live) : c \in live[n].prev
    BY <2>1 DEF GridInv, NoGhosts
  <2>3. n # i
    BY <2>1, <2>2
  <2>4. CASE n < i
    <3>1. n \in 1..(Len(live) - 1)
      BY <1>1, <2>4
    <3> QED BY <1>2, <2>2, <2>4, <3>1
  <2>5. CASE n > i
    <3>1. n - 1 \in 1..(Len(live) - 1) /\ ~(n - 1 < i) /\ n - 1 + 1 = n
      BY <1>1, <2>5
    <3> QED BY <1>2, <2>2, <3>1
  <2> QED BY <1>1, <2>3, <2>4, <2>5
<1> QED BY <1>3, <1>4, <1>5, <1>6 DEF GridInv

\* What the chunk showed is terrain again or inside the box it is drawn into, which becomes
\* its footprint.
LEMMA PaintGrid ==
    ASSUME GridInv, NEW pose \in Poses, Paint(pose)
    PROVE  GridInv' /\ Len(live') = Len(live)
           /\ \A n \in 1..Len(live) : live'[n].id = live[n].id
<1> DEFINE box  == WorldAabb(pose)
           rest == Leftover(live[i].prev, box)
           d    == Edited(device, rest, terrain)
<1>1. /\ pc = "paint" /\ live \in Seq(Chunk) /\ i \in 1..Len(live)
      /\ live' = [live EXCEPT ![i].prev = box, ![i].solid = pose.solid]
      /\ i' = i + 1
      /\ UNCHANGED <<terrain, pc, job, budget>>
  BY DEF Paint, GridInv, DataOK
<1>2. PICK region \in Regions(pose, live[i].mats) : device' = Edited(d, box, region)
  BY DEF Paint
<1>3. box \in SUBSET Cells /\ pose.solid \in SUBSET Cells
  BY DebrisAssumption DEF WorldAabb
<1>4. /\ live' \in Seq(Chunk) /\ Len(live') = Len(live)
      /\ \A j \in 1..Len(live) : live'[j].id = live[j].id
      /\ live'[i].prev = box
      /\ \A j \in 1..Len(live) \ {i} : live'[j].prev = live[j].prev
  <2> DEFINE new == [[live[i] EXCEPT !.prev = box] EXCEPT !.solid = pose.solid]
  <2>1. live[i] \in Chunk
    BY <1>1
  <2>2. new \in Chunk /\ new.id = live[i].id /\ new.prev = box
    BY <1>3, <2>1 DEF Chunk
  <2>3. live' = [live EXCEPT ![i] = new]
    BY <1>1
  <2> HIDE DEF new, box
  <2> SUFFICES /\ live' \in Seq(Chunk) /\ Len(live') = Len(live)
               /\ \A j \in 1..Len(live) : live'[j].id = live[j].id
               /\ live'[i].prev = box
               /\ \A j \in 1..Len(live) \ {i} : live'[j].prev = live[j].prev
    BY DEF box
  <2>4. /\ live' \in Seq(Chunk) /\ Len(live') = Len(live)
        /\ live'[i] = new /\ \A j \in 1..Len(live) \ {i} : live'[j] = live[j]
    <3>1. PICK c \in Chunk : c = new
      BY <2>2
    <3>2. live' = [live EXCEPT ![i] = c]
      BY <2>3, <3>1
    <3>3. live \in Seq(Chunk) /\ i \in 1..Len(live)
      BY <1>1
    <3>4. /\ live' \in Seq(Chunk) /\ Len(live') = Len(live)
          /\ live'[i] = c /\ \A j \in 1..Len(live) \ {i} : live'[j] = live[j]
      BY <3>2, <3>3, Replaced
    <3> QED BY <3>1, <3>4
  <2> QED BY <2>2, <2>4
<1>5. DataOK'
  BY <1>1, <1>4 DEF GridInv, DataOK
<1>6. region \in [Cells -> Voxels]
  <2>1. PICK img \in [pose.solid -> live[i].mats] : region = Stamped(terrain, img)
    BY <1>2 DEF Regions
  <2>2. live[i].mats \subseteq Materials
    <3>1. live[i] \in Chunk
      BY <1>1
    <3> QED BY <3>1 DEF Chunk
  <2>3. \A c \in DOMAIN img : img[c] \in Voxels
    BY <2>2 DEF Voxels
  <2> QED BY <2>1, <2>3, StampedType DEF GridInv, DataOK
<1>7. device' \in Device
  <2>1. d \in Device
    BY DeviceTypes DEF GridInv, DataOK
  <2> QED BY <1>2, <1>6, <2>1, DeviceTypes
<1>8. BricksExact'
  <2>1. Exact(device)
    BY DEF GridInv, BricksExact, Exact
  <2>2. Exact(d)
    BY <2>1, EditedExact
  <2>3. Exact(device')
    BY <1>2, <2>2, EditedExact
  <2> QED BY <2>3 DEF BricksExact, Exact
<1>9. NoGhosts'
  <2> HIDE DEF box, rest, d
  <2> SUFFICES ASSUME RendererValid, NEW c \in Cells, device'.voxel[c] # terrain[c]
               PROVE  \E m \in 1..Len(live) : c \in live'[m].prev
    BY <1>1, <1>4 DEF NoGhosts
  <2>1. CASE c \in box
    BY <1>1, <1>4, <2>1
  <2>2. CASE c \notin box
    <3>1. d.voxel[c] # terrain[c]
      BY <1>2, <2>2, EditedVoxel
    <3>2. c \notin rest /\ device.voxel[c] # terrain[c]
      BY <3>1, EditedVoxel DEF d
    <3>3. c \notin live[i].prev
      BY <2>2, <3>2 DEF rest, Leftover
    <3>4. PICK n \in 1..Len(live) : c \in live[n].prev
      BY <3>2 DEF GridInv, NoGhosts
    <3> QED BY <1>4, <3>3, <3>4
  <2> QED BY <2>1, <2>2
<1> QED BY <1>4, <1>5, <1>7, <1>8, <1>9 DEF GridInv

-----------------------------------------------------------------------------
(* Steps, as far as the pool is concerned.                                 *)

\* The game asks for nothing but pooled boxes and never removes one.
AllPooled == \A n \in 1..Len(dynamics) : dynamics[n].actor /\ dynamics[n].pooled

OwnInv == IInv /\ AllPooled /\ ChunksOwnBodies

\* What IInv says of the variables.
LEMMA PoolFacts ==
    ASSUME IInv
    PROVE  /\ dynamics \in Seq(Slot) /\ Slots = 1..Len(dynamics)
           /\ Len(dynamics) \in Nat
           /\ scene = Simulated /\ lent = Simulated \cap Pooled
           /\ freeList \in Seq(BodyIds)
  BY DEF IInv, TypeOK, SceneMatchesSlots, Slots

LEMMA InitOwn == FieldInit => OwnInv
<1> SUFFICES ASSUME FieldInit
             PROVE  OwnInv
  OBVIOUS
<1>1. Init
  BY DEF FieldInit, Init, Init
<1>2. IInv
  BY <1>1, InitIInv
<1>3. Len(dynamics) = 0 /\ Len(live) = 0 /\ lent = {} /\ scene = {}
  BY <1>1 DEF Init, FieldInit
<1> QED BY <1>2, <1>3 DEF OwnInv, AllPooled, ChunksOwnBodies

\* No body is lent or taken back, and no chunk comes or goes.
LEMMA OwnKept ==
    ASSUME OwnInv, IInv', AllPooled', UNCHANGED <<scene, lent>>,
           Len(live') = Len(live), \A n \in 1..Len(live) : live'[n].id = live[n].id
    PROVE  OwnInv'
<1>1. {live'[n].id : n \in 1..Len(live')} = {live[n].id : n \in 1..Len(live)}
  OBVIOUS
<1>2. \A m, n \in 1..Len(live') : live'[m].id = live'[n].id => m = n
  BY DEF OwnInv, ChunksOwnBodies
<1> QED BY <1>1, <1>2 DEF OwnInv, ChunksOwnBodies

LEMMA QuietOwn ==
    ASSUME OwnInv, UNCHANGED poolVars,
           Len(live') = Len(live), \A n \in 1..Len(live) : live'[n].id = live[n].id
    PROVE  OwnInv'
<1>1. vars' = vars
  BY Zenon DEF poolVars
<1>2. IInv'
  BY <1>1, NextIInv DEF OwnInv
<1>3. AllPooled' /\ UNCHANGED <<scene, lent>>
  BY <1>1 DEF OwnInv, AllPooled, vars
<1> QED BY <1>2, <1>3, OwnKept

LEMMA BootOwn ==
    ASSUME OwnInv, Boot
    PROVE  OwnInv'
<1>1. Startup /\ UNCHANGED live
  BY DEF Boot
<1>2. IInv'
  BY <1>1, StartupIInv DEF OwnInv
<1>3. AllPooled' /\ UNCHANGED <<scene, lent>>
  BY <1>1 DEF OwnInv, AllPooled, Startup
<1> QED BY <1>1, <1>2, <1>3, OwnKept

LEMMA PooledFinite ==
    ASSUME OwnInv
    PROVE  /\ Pooled = 1..Len(dynamics)
           /\ PoolTotal = Len(dynamics)
<1>1. Pooled = 1..Len(dynamics)
  BY PoolFacts DEF OwnInv, AllPooled, Pooled
<1>2. Cardinality(1..Len(dynamics)) = Len(dynamics)
  <2>1. Len(dynamics) \in Nat
    BY PoolFacts DEF OwnInv
  <2> DEFINE n == Len(dynamics)
  <2> SUFFICES ASSUME n \in Nat
               PROVE  Cardinality(1..n) = n
    BY <2>1
  <2> HIDE DEF n
  <2>2. 1 \in Int /\ n \in Int
    OBVIOUS
  <2>3. Cardinality(1..n) = IF 1 > n THEN 0 ELSE n - 1 + 1
    BY <2>2, FS_Interval
  <2> QED BY <2>3
<1> QED BY <1>1, <1>2 DEF PoolTotal

\* The actors that are added for the live cap are parked ones.
LEMMA BreakOwn ==
    ASSUME OwnInv, NEW b \in Blasts, NEW cap \in MaxLives, VoxelBreak(b, cap)
    PROVE  OwnInv'
<1>1. UNCHANGED live /\ (ReservePool(cap) \/ UNCHANGED poolVars)
  BY DEF VoxelBreak, ReserveDebris
<1>2. CASE UNCHANGED poolVars
  BY <1>1, <1>2, QuietOwn
<1>3. CASE ReservePool(cap)
  <2>1. PICK n \in 1..(cap - Len(dynamics)) :
              dynamics' = dynamics \o [k \in 1..n |-> ParkedSlot]
    BY <1>3, PooledFinite DEF ReservePool
  <2>2. cap \in Nat \ {0}
    BY <2>1, PoolFacts, DebrisAssumption DEF OwnInv
  <2>3. IInv'
    BY <1>3, <2>2, ReservePoolIInv DEF OwnInv
  <2>4. AllPooled'
    <3> DEFINE more == [k \in 1..n |-> ParkedSlot]
    <3>1. ParkedSlot \in Slot /\ ParkedSlot.actor /\ ParkedSlot.pooled
      BY DEF ParkedSlot, Slot
    <3>2. /\ more \in Seq(Slot) /\ Len(more) = n /\ n \in Nat
          /\ \A k \in 1..n : more[k].actor /\ more[k].pooled
      BY <2>1, <3>1
    <3>3. /\ Len(dynamics') = Len(dynamics) + n
          /\ \A k \in 1..(Len(dynamics) + n) :
                dynamics'[k] = IF k <= Len(dynamics) THEN dynamics[k]
                               ELSE more[k - Len(dynamics)]
      BY <2>1, <3>2, PoolFacts, ConcatProperties DEF OwnInv
    <3> HIDE DEF more
    <3> QED BY <3>2, <3>3, PoolFacts DEF OwnInv, AllPooled
  <2>5. UNCHANGED <<scene, lent>>
    BY <1>3 DEF ReservePool
  <2> QED BY <1>1, <2>3, <2>4, <2>5, OwnKept
<1> QED BY <1>1, <1>2, <1>3

\* What AcquireBox lends nobody holds: it was parked, or is new.
LEMMA Acquired ==
    ASSUME OwnInv, NEW id \in BodyIds, AcquireBox(id)
    PROVE  /\ IInv' /\ id \notin lent
           /\ lent' = lent \cup {id} /\ scene' = scene \cup {id}
           /\ AllPooled'
           /\ freeList # <<>> => Len(dynamics') = Len(dynamics)
<1>0. /\ dynamics \in Seq(Slot) /\ Len(dynamics) \in Nat
      /\ freeList \in Seq(BodyIds)
      /\ lent \subseteq 1..Len(dynamics)
  BY PoolFacts DEF OwnInv, Simulated
<1>1. IInv'
  BY AcquireBoxIInv DEF OwnInv
<1>2. CASE freeList # <<>>
  <2>1. /\ id = freeList[Len(freeList)]
        /\ Lend(id, dynamics)
    BY <1>2 DEF AcquireBox
  <2>2. id \in Pooled /\ id \notin lent
    BY <1>2, <2>1, TopOfFreeList DEF OwnInv
  <2>3. id \in 1..Len(dynamics) /\ dynamics[id].actor
    BY <2>2, PooledFinite DEF OwnInv, AllPooled
  <2>4. /\ dynamics' = [dynamics EXCEPT ![id] = [dynamics[id] EXCEPT !.inScene = TRUE]]
        /\ lent' = lent \cup {id} /\ scene' = scene \cup {id}
    BY <2>1, <2>3 DEF Lend
  <2>5. AllPooled' /\ Len(dynamics') = Len(dynamics)
    <3> DEFINE x == [dynamics[id] EXCEPT !.inScene = TRUE]
    <3>1. dynamics[id] \in Slot /\ dynamics[id].actor /\ dynamics[id].pooled
      BY <1>0, <2>3 DEF OwnInv, AllPooled
    <3>2. x \in Slot /\ x.actor /\ x.pooled
      BY <3>1 DEF Slot
    <3>3. dynamics' = [dynamics EXCEPT ![id] = x]
      BY <2>4
    <3> HIDE DEF x
    <3> QED BY <1>0, <2>3, <3>2, <3>3 DEF OwnInv, AllPooled
  <2> QED BY <1>1, <2>2, <2>4, <2>5
<1>3. CASE freeList = <<>>
  <2> DEFINE slots == Append(dynamics, ParkedSlot)
  <2>1. id = Len(dynamics) + 1 /\ Lend(id, slots)
    BY <1>3 DEF AcquireBox
  <2>2. ParkedSlot \in Slot /\ ParkedSlot.actor /\ ParkedSlot.pooled
    BY DEF ParkedSlot, Slot
  <2>3. /\ slots \in Seq(Slot) /\ Len(slots) = Len(dynamics) + 1
        /\ \A n \in 1..Len(slots) : slots[n] \in Slot /\ slots[n].actor /\ slots[n].pooled
    BY <1>0, <2>2 DEF OwnInv, AllPooled
  <2> HIDE DEF slots
  <2>4. /\ dynamics' = [slots EXCEPT ![id] = [slots[id] EXCEPT !.inScene = TRUE]]
        /\ lent' = lent \cup {id} /\ scene' = scene \cup {id}
        /\ id \in 1..Len(slots) /\ id \notin lent
    BY <1>0, <2>1, <2>3 DEF Lend
  <2>5. AllPooled'
    <3> DEFINE x == [slots[id] EXCEPT !.inScene = TRUE]
    <3>1. x \in Slot /\ x.actor /\ x.pooled
      BY <2>3, <2>4 DEF Slot
    <3>2. dynamics' = [slots EXCEPT ![id] = x]
      BY <2>4
    <3> HIDE DEF x
    <3> QED BY <2>3, <2>4, <3>1, <3>2 DEF AllPooled
  <2> QED BY <1>1, <1>3, <2>4, <2>5
<1> QED BY <1>2, <1>3

LEMMA SpawnOwn ==
    ASSUME GridInv, OwnInv, NEW id \in BodyIds, SpawnChunk(id)
    PROVE  OwnInv'
<1>1. /\ IInv' /\ AllPooled' /\ id \notin lent
      /\ lent' = lent \cup {id} /\ scene' = scene \cup {id}
  BY Acquired DEF SpawnChunk
<1>2. /\ Len(live) \in Nat /\ Len(live') = Len(live) + 1
      /\ live'[Len(live) + 1].id = id
      /\ \A n \in 1..Len(live) : live'[n] = live[n]
  BY SpawnGrid DEF GridInv, DataOK
<1>3. \A n \in 1..Len(live) : live'[n].id \in lent
  BY <1>2 DEF OwnInv, ChunksOwnBodies
<1>4. \A m, n \in 1..Len(live') : live'[m].id = live'[n].id => m = n
  <2> SUFFICES ASSUME NEW m \in 1..(Len(live) + 1), NEW n \in 1..(Len(live) + 1),
                      live'[m].id = live'[n].id
               PROVE  m = n
    BY <1>2
  <2>1. CASE m \in 1..Len(live) /\ n \in 1..Len(live)
    BY <1>2, <2>1 DEF OwnInv, ChunksOwnBodies
  <2>2. CASE m = Len(live) + 1 \/ n = Len(live) + 1
    BY <1>1, <1>2, <1>3, <2>2
  <2> QED BY <1>2, <2>1, <2>2
<1>5. {live'[n].id : n \in 1..Len(live')} = {live[n].id : n \in 1..Len(live)} \cup {id}
  <2>1. 1..Len(live') = 1..Len(live) \cup {Len(live) + 1}
    BY <1>2
  <2> QED BY <1>2, <2>1
<1>6. ChunksOwnBodies'
  BY <1>1, <1>4, <1>5 DEF OwnInv, ChunksOwnBodies
<1> QED BY <1>1, <1>6 DEF OwnInv

LEMMA CullDeadOwn ==
    ASSUME GridInv, OwnInv, CullDead
    PROVE  OwnInv'
<1> DEFINE id == live[i].id
<1>1. /\ live \in Seq(Chunk) /\ i \in 1..Len(live) /\ Len(live) \in Nat
      /\ live' = RemoveAt(live, i)
      /\ ReleaseBox(id) /\ id \in BodyIds
  <2>1. live \in Seq(Chunk) /\ i \in 1..Len(live)
    BY DEF CullDead, GridInv, DataOK
  <2>2. live[i] \in Chunk
    BY <2>1
  <2>3. id \in BodyIds
    BY <2>2 DEF Chunk
  <2> QED BY <2>1, <2>3 DEF CullDead
<1>2. /\ Len(live') = Len(live) - 1
      /\ \A j \in 1..(Len(live) - 1) : live'[j] = IF j < i THEN live[j] ELSE live[j + 1]
  BY <1>1, Removed
<1>3. IInv'
  BY <1>1, ReleaseBoxIInv DEF OwnInv
<1>4. /\ scene' = scene \ {id} /\ lent' = lent \ {id} /\ id \in 1..Len(dynamics)
      /\ dynamics' = [dynamics EXCEPT ![id] = [dynamics[id] EXCEPT !.inScene = FALSE]]
  BY <1>1, PoolFacts DEF ReleaseBox, OwnInv
<1>5. AllPooled'
  <2> DEFINE x == [dynamics[id] EXCEPT !.inScene = FALSE]
  <2>1. dynamics \in Seq(Slot) /\ dynamics[id] \in Slot
    BY <1>4, PoolFacts DEF OwnInv
  <2>2. x \in Slot /\ x.actor /\ x.pooled
    BY <1>4, <2>1 DEF Slot, OwnInv, AllPooled
  <2>3. dynamics' = [dynamics EXCEPT ![id] = x]
    BY <1>4
  <2> HIDE DEF x
  <2> QED BY <1>4, <2>1, <2>2, <2>3 DEF OwnInv, AllPooled
<1> DEFINE old(j) == IF j < i THEN j ELSE j + 1
<1>6. \A j \in 1..Len(live') : /\ old(j) \in 1..Len(live) \ {i}
                              /\ live'[j] = live[old(j)]
  BY <1>1, <1>2
<1>7. \A m, n \in 1..Len(live') : live'[m].id = live'[n].id => m = n
  <2> SUFFICES ASSUME NEW m \in 1..Len(live'), NEW n \in 1..Len(live'),
                      live'[m].id = live'[n].id
               PROVE  m = n
    OBVIOUS
  <2>1. old(m) = old(n)
    BY <1>6 DEF OwnInv, ChunksOwnBodies
  <2> QED BY <1>1, <1>2, <2>1
<1>8. {live'[n].id : n \in 1..Len(live')} = {live[n].id : n \in 1..Len(live)} \ {id}
  <2>1. ASSUME NEW n \in 1..Len(live')
        PROVE  live'[n].id \in {live[m].id : m \in 1..Len(live)} \ {id}
    BY <1>1, <1>6 DEF OwnInv, ChunksOwnBodies
  <2>2. ASSUME NEW n \in 1..Len(live), live[n].id # id
        PROVE  \E j \in 1..Len(live') : live'[j].id = live[n].id
    <3>1. CASE n < i
      <4>1. n \in 1..(Len(live) - 1)
        BY <1>1, <3>1
      <4> QED BY <1>2, <3>1, <4>1
    <3>2. CASE n > i
      <4>1. n - 1 \in 1..(Len(live) - 1) /\ ~(n - 1 < i) /\ n - 1 + 1 = n
        BY <1>1, <3>2
      <4> QED BY <1>2, <4>1
    <3> QED BY <1>1, <2>2, <3>1, <3>2
  <2> QED BY <2>1, <2>2
<1>9. ChunksOwnBodies'
  BY <1>4, <1>7, <1>8 DEF OwnInv, ChunksOwnBodies
<1> QED BY <1>3, <1>5, <1>9 DEF OwnInv

LEMMA ClearOwn ==
    ASSUME OwnInv, VoxelClear
    PROVE  OwnInv'
<1>1. ClearDynamics /\ live' = <<>>
  BY DEF VoxelClear
<1>2. IInv'
  BY <1>1, ClearDynamicsIInv DEF OwnInv
<1>3. scene' = {} /\ lent' = {}
  BY <1>1, PoolFacts DEF OwnInv, ClearDynamics
<1>4. AllPooled'
  <2>1. /\ dynamics \in Seq(Slot) /\ Len(dynamics) \in Nat
        /\ dynamics' = [n \in 1..Len(dynamics) |-> ClearedSlot(dynamics[n])]
    BY <1>1, PoolFacts DEF OwnInv, ClearDynamics
  <2>2. Len(dynamics') = Len(dynamics)
    BY <2>1
  <2>3. ASSUME NEW b \in Slot, b.actor, b.pooled
        PROVE  ClearedSlot(b).actor /\ ClearedSlot(b).pooled
    BY <2>3 DEF ClearedSlot, Slot
  <2>4. \A n \in 1..Len(dynamics) : dynamics'[n].actor /\ dynamics'[n].pooled
    BY <2>1, <2>3 DEF OwnInv, AllPooled
  <2> QED BY <2>2, <2>4 DEF AllPooled
<1>5. Len(live') = 0
  BY <1>1
<1> QED BY <1>2, <1>3, <1>4, <1>5 DEF OwnInv, ChunksOwnBodies

\* Everything else leaves the pool alone.
LEMMA OtherOwn ==
    ASSUME GridInv, OwnInv,
           \/ \E s \in Stamps : VoxelPlace(s)
           \/ \E p \in BOOLEAN : SetPaused(p)
           \/ \E pose \in Poses : Paint(pose)
           \/ SpawnSkip \/ SpawnRefused \/ Carve \/ EndDrain \/ CullKeep
           \/ CullDone \/ PaintDone \/ Present
    PROVE  OwnInv'
<1>1. UNCHANGED poolVars
  BY DEF VoxelPlace, SetPaused, Paint, SpawnSkip, SpawnRefused, Carve, EndDrain, CullKeep,
         CullDone, PaintDone, Present
<1>2. Len(live') = Len(live) /\ \A n \in 1..Len(live) : live'[n].id = live[n].id
  <2>1. CASE CullKeep
    BY <2>1, CullKeepGrid
  <2>2. CASE \E pose \in Poses : Paint(pose)
    BY <2>2, PaintGrid
  <2>3. CASE UNCHANGED live
    BY <2>3
  <2> QED BY <2>1, <2>2, <2>3
          DEF VoxelPlace, SetPaused, SpawnSkip, SpawnRefused, Carve, EndDrain, CullDone,
              PaintDone, Present
<1> QED BY <1>1, <1>2, QuietOwn

-----------------------------------------------------------------------------
(* The invariant.                                                          *)

\* The three safety properties need the job, the iterator and the pool (IInv) with them:
\* a chunk's body is new to it because AcquireBox lends nothing twice, and the last footprint
\* of a chunk is known because it is on the list.
FieldIInv == GridInv /\ OwnInv

LEMMA StepGrid ==
    ASSUME GridInv, [FieldNext]_fieldVars
    PROVE  GridInv'
<1>1. CASE UNCHANGED fieldVars
  <2>1. DataOK'
    BY <1>1 DEF GridInv, DataOK, fieldVars
  <2> QED BY <1>1, <2>1, GridKept DEF fieldVars
<1>2. CASE Commands
  BY <1>2, MoveGrid, PlaceGrid, ClearGrid DEF Commands
<1>3. CASE MainThread
  BY <1>3, MoveGrid, SpawnGrid, CarveGrid, CullDeadGrid, CullKeepGrid, PaintGrid DEF MainThread
<1> QED BY <1>1, <1>2, <1>3 DEF FieldNext

LEMMA StepOwn ==
    ASSUME GridInv, OwnInv, [FieldNext]_fieldVars
    PROVE  OwnInv'
<1>1. CASE UNCHANGED fieldVars
  BY <1>1, QuietOwn DEF fieldVars
<1>2. CASE Commands
  BY <1>2, BreakOwn, ClearOwn, OtherOwn DEF Commands
<1>3. CASE MainThread
  BY <1>3, BootOwn, SpawnOwn, CullDeadOwn, OtherOwn DEF MainThread
<1> QED BY <1>1, <1>2, <1>3 DEF FieldNext

LEMMA Inductive == FieldSpec => []FieldIInv
<1>1. FieldInit => FieldIInv
  BY InitGrid, InitOwn DEF FieldIInv
<1>2. FieldIInv /\ [FieldNext]_fieldVars => FieldIInv'
  BY StepGrid, StepOwn DEF FieldIInv
<1> QED BY <1>1, <1>2, PTL DEF FieldSpec

-----------------------------------------------------------------------------
(* Theorems.                                                               *)

\* "Debris voxels live ONLY in the GPU grid": whatever commands come between the frames, and
\* wherever PhysX moves the chunks, nothing of a chunk outlives its last footprint.
THEOREM NoGhostsCorrect == FieldSpec => []NoGhosts
<1>1. FieldIInv => NoGhosts
  BY DEF FieldIInv, GridInv
<1> QED BY <1>1, Inductive, PTL

\* The incremental edits keep the empty-space grid that the ray march skips by exact.
THEOREM BricksCorrect == FieldSpec => []BricksExact
<1>1. FieldIInv => BricksExact
  BY DEF FieldIInv, GridInv
<1> QED BY <1>1, Inductive, PTL

\* Each chunk has a body of its own, and PhysX simulates no body without a chunk.
THEOREM BodiesCorrect == FieldSpec => []ChunksOwnBodies
<1>1. FieldIInv => ChunksOwnBodies
  BY DEF FieldIInv, OwnInv
<1> QED BY <1>1, Inductive, PTL

LEMMA PausedOK == FieldSpec => [](paused \in BOOLEAN)
<1>1. FieldInit => paused \in BOOLEAN
  BY Zenon DEF FieldInit
<1>2. paused \in BOOLEAN /\ [FieldNext]_fieldVars => (paused \in BOOLEAN)'
  BY Zenon DEF FieldNext, fieldVars, Commands, MainThread, Boot, VoxelBreak, SpawnSkip, SpawnChunk,
     SpawnRefused, Carve, VoxelPlace, VoxelClear, SetPaused, EndDrain, CullDead, CullKeep,
     CullDone, Paint, PaintDone, Present
<1> QED BY <1>1, <1>2, PTL DEF FieldSpec

\* Every cell keeps a voxel, every chunk a body id and an age within its time to live, and
\* the loops of a frame stay within the list they walk.
THEOREM FieldTypeCorrect == FieldSpec => []FieldTypeOK
<1>1. TypeOK => TypeOK
  BY Zenon DEF TypeOK, TypeOK, Slot, Slot
<1>2. FieldIInv => /\ TypeOK
              /\ terrain \in [Cells -> Voxels]
              /\ device \in Device
              /\ live \in Seq(Chunk)
              /\ pc \in Pcs
              /\ i \in 1..(Len(live) + 1)
              /\ budget \in 0..CmdsPerDrain
  BY <1>1, Zenon DEF FieldIInv, GridInv, OwnInv, DataOK, IInv
<1>3. FieldIInv /\ paused \in BOOLEAN => FieldTypeOK
  BY <1>2, Zenon DEF FieldTypeOK, Device, Pcs
<1> QED BY <1>3, Inductive, PausedOK, PTL

\* When nothing is parked every actor of the pool carries a chunk.
LEMMA AllRidden ==
    ASSUME FieldIInv, freeList = <<>>
    PROVE  Len(live) >= Len(dynamics)
<1>0. /\ dynamics \in Seq(Slot) /\ Len(dynamics) \in Nat /\ Slots = 1..Len(dynamics)
      /\ lent = Simulated \cap Pooled
      /\ Pooled = 1..Len(dynamics)
      /\ Len(live) \in Nat
  BY PoolFacts, PooledFinite DEF FieldIInv, GridInv, DataOK, OwnInv
<1>1. ASSUME NEW n \in 1..Len(dynamics)
      PROVE  n \in lent
  <2>1. n \in PooledAlive
    BY <1>0 DEF FieldIInv, OwnInv, AllPooled, PooledAlive
  <2>2. dynamics[n].inScene
    BY <2>1 DEF FieldIInv, OwnInv, IInv, FreeListSound
  <2> QED BY <1>0, <2>1, <2>2 DEF Simulated, PooledAlive
<1>2. lent = 1..Len(dynamics)
  BY <1>0, <1>1
<1>3. \E f \in [1..Len(dynamics) -> 1..Len(live)] :
         \A n \in 1..Len(dynamics) : live[f[n]].id = n
  <2>1. \A n \in 1..Len(dynamics) : \E m \in 1..Len(live) : live[m].id = n
    BY <1>2 DEF FieldIInv, OwnInv, ChunksOwnBodies
  <2> DEFINE f == [n \in 1..Len(dynamics) |-> CHOOSE m \in 1..Len(live) : live[m].id = n]
  <2>2. f \in [1..Len(dynamics) -> 1..Len(live)]
    BY <2>1
  <2>3. \A n \in 1..Len(dynamics) : live[f[n]].id = n
    BY <2>1
  <2> QED BY <2>2, <2>3
<1>4. PICK f \in [1..Len(dynamics) -> 1..Len(live)] :
              \A n \in 1..Len(dynamics) : live[f[n]].id = n
  BY <1>3
<1>5. ~\E m, n \in 1..Len(dynamics) : m # n /\ f[m] = f[n]
  BY <1>4
<1>6. \A k \in Nat : IsFiniteSet(1..k) /\ Cardinality(1..k) = k
  BY FS_Interval
<1>7. ~(Len(live) < Len(dynamics))
  BY <1>0, <1>5, <1>6, FS_PigeonHole
<1> QED BY <1>0, <1>7

\* Once ReservePool has met the live cap, debris never makes PhysX create another actor: a
\* spawn with nothing parked means as many chunks as actors, and the cap stops it first.
THEOREM RecycleCorrect == FieldSpec => SpawnsRecycle
<1>1. ASSUME FieldIInv, [FieldNext]_fieldVars, pc = "spawn", PoolTotal >= job.cap
      PROVE  Len(dynamics') = Len(dynamics)
  <2>1. CASE \E id \in BodyIds : SpawnChunk(id)
    <3>1. PICK id \in BodyIds : SpawnChunk(id)
      BY <2>1
    <3>2. freeList # <<>> => Len(dynamics') = Len(dynamics)
      BY <1>1, <3>1, Acquired DEF SpawnChunk, FieldIInv
    <3>3. freeList # <<>>
      <4> SUFFICES ASSUME freeList = <<>>
                   PROVE  FALSE
        OBVIOUS
      <4>1. Len(live) >= Len(dynamics) /\ PoolTotal = Len(dynamics)
        BY <1>1, AllRidden, PooledFinite DEF FieldIInv
      <4>2. /\ Len(live) \in Nat /\ Len(dynamics) \in Nat
            /\ job.cap \in Nat /\ ~(Len(live) >= job.cap)
        BY <1>1, <3>1, PoolFacts, DebrisAssumption
           DEF FieldIInv, GridInv, DataOK, Job, OwnInv, SpawnChunk, SpawnDone
      <4> QED BY <1>1, <4>1, <4>2
    <3> QED BY <3>2, <3>3
  <2>2. CASE SpawnSkip \/ SpawnRefused \/ Carve \/ UNCHANGED fieldVars
    BY <2>2 DEF SpawnSkip, SpawnRefused, Carve, fieldVars, poolVars, vars
  <2> QED BY <1>1, <2>1, <2>2
          DEF FieldNext, Commands, MainThread, Boot, VoxelBreak, VoxelPlace, VoxelClear, SetPaused,
              Command, EndDrain, CullDead, CullKeep, CullDone, Paint, PaintDone, Present
<1>2. FieldIInv /\ [FieldNext]_fieldVars =>
         ((pc = "spawn" /\ PoolTotal >= job.cap) => Len(dynamics') = Len(dynamics))
  BY <1>1
<1> QED BY <1>2, Inductive, PTL DEF SpawnsRecycle, FieldSpec
=============================================================================
