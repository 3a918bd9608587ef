------------------------------ MODULE BodyPool ------------------------------
(***************************************************************************)
(* The rigid-body slots of engine/physics/PhysicsWorld.cpp: `dynamics', a  *)
(* vector that only grows and whose indices are the body ids, and          *)
(* `freeList', the stack of parked pooled slots that AcquireBox pops and   *)
(* ReleaseBox pushes.  PhysX itself is external: `scene' is the set of     *)
(* bodies its scene simulates, changed by addActor and removeActor only.   *)
(*                                                                         *)
(* An id is a position in `dynamics' (the source's index plus one).  Every *)
(* public operation may be called with any id at any time; geometry,       *)
(* poses and velocities are left out, since nothing here depends on them.  *)
(***************************************************************************)
EXTENDS Integers, Sequences, FiniteSets

CONSTANTS
    MaxBodies,    \* PhysX creates no actor beyond this many: createRigidDynamic returns null
    Reservations  \* the counts ReservePool is called with (voxel.debris.max)

ASSUME PoolAssumption ==
    /\ MaxBodies \in Nat \ {0}
    /\ Reservations \subseteq Nat \ {0}

VARIABLES
    up,        \* impl_ exists: between a successful Init and Shutdown
    dynamics,  \* the slots
    freeList,  \* ids of parked pooled slots, the last one is popped first
    scene,     \* the bodies PhysX simulates
    lent,      \* history: ids AcquireBox returned and nobody has taken back
    peak       \* history: the most bodies reserved or lent at once so far

vars == <<up, dynamics, freeList, scene, lent, peak>>

BodyIds == 1..MaxBodies
Slot    == [actor : BOOLEAN, pooled : BOOLEAN, inScene : BOOLEAN]

ParkedSlot == [actor |-> TRUE, pooled |-> TRUE, inScene |-> FALSE]

Slots       == DOMAIN dynamics
Pooled      == {i \in Slots : dynamics[i].pooled}
PooledAlive == {i \in Pooled : dynamics[i].actor}

\* What EnumerateBodies reports and BodyCount counts: neither a tombstone nor parked.
Simulated ==
    {i \in Slots : dynamics[i].actor /\ (dynamics[i].pooled => dynamics[i].inScene)}

Larger(a, b) == IF a >= b THEN a ELSE b

-----------------------------------------------------------------------------
Startup ==
    /\ ~up
    /\ up' = TRUE
    /\ UNCHANGED <<dynamics, freeList, scene, lent, peak>>

\* Shutdown releases the parked actors, drops the vectors and the scene.
Shutdown ==
    /\ up
    /\ up' = FALSE
    /\ dynamics' = <<>>
    /\ freeList' = <<>>
    /\ scene' = {}
    /\ lent' = {}
    /\ peak' = 0

-----------------------------------------------------------------------------
\* AddBox and AddDynamicBox append a body that is not pooled; only AddBox sets inScene.
AddBody(flag) ==
    /\ up
    /\ Len(dynamics) < MaxBodies
    /\ dynamics' = Append(dynamics, [actor |-> TRUE, pooled |-> FALSE, inScene |-> flag])
    /\ scene' = scene \cup {Len(dynamics) + 1}
    /\ UNCHANGED <<up, freeList, lent, peak>>

AddBox        == AddBody(TRUE)
AddDynamicBox == AddBody(FALSE)

-----------------------------------------------------------------------------
\* Mutated form of PoolTotal: counts only the parked slots.
PoolTotal_ParkedOnly == Len(freeList)

\* The actors the pool owns, in use and parked (a tombstoned slot still counts).
PoolTotal == Cardinality(Pooled)

\* CreatePooledActor appends a parked slot and pushes its id; the loop stops at the first
\* creation that fails, hence after any number n of actors up to the missing ones.
ReservePool(count) ==
    /\ up
    /\ peak' = Larger(peak, count)
    /\ \E n \in 1..(count - PoolTotal) :
          /\ Len(dynamics) + n <= MaxBodies
          /\ dynamics' = dynamics \o [k \in 1..n |-> ParkedSlot]
          /\ freeList' = freeList \o [k \in 1..n |-> Len(dynamics) + k]
    /\ UNCHANGED <<up, scene, lent>>

\* The part of AcquireBox after the pop: a slot whose actor is gone yields -1 and stays
\* off the free list; otherwise the actor enters the scene and the caller holds its id.
Lend(id, slots) ==
    IF slots[id].actor
    THEN /\ dynamics' = [slots EXCEPT ![id] = [@ EXCEPT !.inScene = TRUE]]
         /\ scene' = scene \cup {id}
         /\ lent' = lent \cup {id}
         /\ peak' = Larger(peak, Cardinality(lent \cup {id}))
    ELSE /\ dynamics' = slots
         /\ UNCHANGED <<scene, lent, peak>>

\* Mutated form of AcquireBox: takes the last parked slot and drops the first.
AcquireBox_DropsFirst(id) ==
    /\ up
    /\ freeList # <<>>
    /\ id = freeList[Len(freeList)]
    /\ freeList' = Tail(freeList)
    /\ Lend(id, dynamics)
    /\ UNCHANGED up

\* AcquireBox pops the last parked slot, or first creates one when none is parked.  A
\* creation that fails returns -1 and changes nothing.
AcquireBox(id) ==
    /\ up
    /\ \/ /\ freeList # <<>>
          /\ id = freeList[Len(freeList)]
          /\ freeList' = SubSeq(freeList, 1, Len(freeList) - 1)
          /\ Lend(id, dynamics)
       \/ /\ freeList = <<>>
          /\ id = Len(dynamics) + 1
          /\ id <= MaxBodies
          /\ freeList' = freeList
          /\ Lend(id, Append(dynamics, ParkedSlot))
    /\ UNCHANGED up

\* Mutated form of Releasable: without the already-parked guard.
Releasable_Parked(id) == dynamics[id].actor /\ dynamics[id].pooled

\* ReleaseBox ignores unknown, plain, destroyed and already parked bodies.
Releasable(id) == dynamics[id].actor /\ dynamics[id].pooled /\ dynamics[id].inScene

\* Mutated form of ReleaseBox: pushes the id of the slot before.
ReleaseBox_OffByOne(id) ==
    /\ up
    /\ id \in Slots
    /\ Releasable(id)
    /\ scene' = scene \ {id}
    /\ dynamics' = [dynamics EXCEPT ![id] = [@ EXCEPT !.inScene = FALSE]]
    /\ freeList' = Append(freeList, id - 1)
    /\ lent' = lent \ {id}
    /\ UNCHANGED <<up, peak>>

ReleaseBox(id) ==
    /\ up
    /\ id \in Slots
    /\ Releasable(id)
    /\ scene' = scene \ {id}
    /\ dynamics' = [dynamics EXCEPT ![id] = [@ EXCEPT !.inScene = FALSE]]
    /\ freeList' = Append(freeList, id)
    /\ lent' = lent \ {id}
    /\ UNCHANGED <<up, peak>>

-----------------------------------------------------------------------------
\* Mutated form of RemoveBody: erases the slot, so that later ids move down.
RemoveBody_Compacting(id) ==
    /\ up
    /\ id \in Slots
    /\ dynamics[id].actor
    /\ scene' = scene \ {id}
    /\ dynamics' = SubSeq(dynamics, 1, id - 1) \o SubSeq(dynamics, id + 1, Len(dynamics))
    /\ lent' = lent \ {id}
    /\ UNCHANGED <<up, freeList, peak>>

\* RemoveBody destroys whatever actor the slot has, pooled or not, lent or parked, and
\* leaves the slot as a tombstone.  The free list is not looked at.
RemoveBody(id) ==
    /\ up
    /\ id \in Slots
    /\ dynamics[id].actor
    /\ scene' = scene \ {id}
    /\ dynamics' = [dynamics EXCEPT ![id] = [@ EXCEPT !.actor = FALSE]]
    /\ lent' = lent \ {id}
    /\ UNCHANGED <<up, freeList, peak>>

\* s lists the elements of S once each in ascending order.
Ascending(s, S) ==
    /\ \A i \in S : \E k \in 1..Len(s) : s[k] = i
    /\ \A j, k \in 1..Len(s) : j < k => s[j] < s[k]

\* Mutated form of ClearedSlot: parks nothing, so pooled bodies stay in the scene.
ClearedSlot_KeepsFlag(b) == IF b.actor /\ ~b.pooled THEN [b EXCEPT !.actor = FALSE] ELSE b

\* ClearDynamics parks the pooled bodies and destroys the others.
ClearedSlot(b) ==
    IF ~b.actor THEN b
    ELSE IF b.pooled THEN [b EXCEPT !.inScene = FALSE] ELSE [b EXCEPT !.actor = FALSE]

\* The scan that rebuilds the free list meets the surviving pooled slots in id order.
ClearDynamics ==
    /\ up
    /\ dynamics' = [i \in Slots |-> ClearedSlot(dynamics[i])]
    /\ \E s \in [1..Cardinality(PooledAlive) -> PooledAlive] :
          /\ Ascending(s, PooledAlive)
          /\ freeList' = s
    /\ scene' = scene \ Simulated
    /\ lent' = {}
    /\ UNCHANGED <<up, peak>>

-----------------------------------------------------------------------------
Init ==
    /\ up = FALSE
    /\ dynamics = <<>>
    /\ freeList = <<>>
    /\ scene = {}
    /\ lent = {}
    /\ peak = 0

Next ==
    \/ Startup
    \/ Shutdown
    \/ AddBox
    \/ AddDynamicBox
    \/ \E count \in Reservations : ReservePool(count)
    \/ \E id \in BodyIds : AcquireBox(id)
    \/ \E id \in BodyIds : ReleaseBox(id)
    \/ \E id \in BodyIds : RemoveBody(id)
    \/ ClearDynamics

Spec == Init /\ [][Next]_vars

-----------------------------------------------------------------------------
(***************************************************************************)
(* Properties.                                                             *)
(***************************************************************************)

\* The variables keep their types, and no id exceeds MaxBodies.
TypeOK ==
    /\ up \in BOOLEAN
    /\ dynamics \in Seq(Slot)
    /\ Len(dynamics) <= MaxBodies
    /\ freeList \in Seq(BodyIds)
    /\ scene \subseteq BodyIds
    /\ lent \subseteq BodyIds
    /\ peak \in Nat

\* The free list has no duplicate, every entry is a pooled slot out of the scene, and every
\* parked pooled actor is on it: none is handed out twice and none is lost
\* (AcquireBox, ReleaseBox, ReservePool, ClearDynamics; RemoveBody may leave a tombstone on it).
FreeListSound ==
    /\ \A j, k \in 1..Len(freeList) : freeList[j] = freeList[k] => j = k
    /\ \A k \in 1..Len(freeList) :
          /\ freeList[k] \in Pooled
          /\ dynamics[freeList[k]].actor => ~dynamics[freeList[k]].inScene
    /\ \A i \in PooledAlive :
          ~dynamics[i].inScene => \E k \in 1..Len(freeList) : freeList[k] = i

\* The slots' own flags agree with PhysX: what EnumerateBodies, BodyCount and BodyPosY take
\* for a live body is exactly what the scene simulates, and the lent ids are the pooled
\* bodies among them.
SceneMatchesSlots ==
    /\ scene = Simulated
    /\ lent = Simulated \cap Pooled

\* AcquireBox never returns an id somebody still holds.
NoDoubleLend ==
    [][\A id \in BodyIds :
          (AcquireBox(id) /\ id \in lent') => id \notin lent]_vars

\* RemoveBody's header: "Other ids stay valid (the body's slot is tombstoned, not
\* reindexed)".  While the world is up a slot never goes away, never changes between pooled
\* and plain, and a destroyed body never comes back under the same id: an id held elsewhere
\* means the same body, a recycled pooled one, or none.  AddBox's header says otherwise of
\* removed ids; RemovedIdsReused states it, and the code does not do it.
IdsStable ==
    [][up' => \A p \in Slots :
          /\ p \in DOMAIN dynamics'
          /\ dynamics'[p].pooled = dynamics[p].pooled
          /\ dynamics'[p].actor => dynamics[p].actor]_vars

\* The pool recycles: it never owns more actors than the largest reservation or the most
\* bodies ever lent at once, however often bodies are acquired and released.
PoolRecycles == Cardinality(PooledAlive) <= peak

\* The header on AcquireBox: "-1 if the pool is exhausted".  So an acquisition while a
\* parked actor is available returns an id.
AcquireServesWhileParked ==
    [][\A id \in BodyIds :
          (AcquireBox(id) /\ PooledAlive \ lent # {}) => lent' # lent]_vars

\* The header on AddBox: its id is "stable for the body's lifetime, reused after RemoveBody
\* compacts the slot list".  So a body added while a removed one has left its id needs no
\* further slot.
RemovedIdsReused ==
    [][(AddBox /\ \E i \in Slots : ~dynamics[i].actor) => Len(dynamics') <= Len(dynamics)]_vars
=============================================================================
