------------------------------ MODULE Handles ------------------------------
(***************************************************************************)
(* Reference counting as in include/jast/handle.h.  A slot is a Ref<T>: a  *)
(* variable, or a member of an object.  Ref::clear() decrements, deletes   *)
(* the object at zero, whose destructor clears its own members one by one, *)
(* and only then sets its pointer to null: `clearing` has the slots whose  *)
(* clear() waits for such a delete.                                        *)
(***************************************************************************)
EXTENDS Integers, Heap

VARIABLES
  ptr,       \* Ref::ptr_ of each slot
  count,     \* reference_count_ of each object
  life,      \* "unborn", "new" while its constructor runs, "alive" or "dead"
  clearing,  \* the slots whose clear() waits for its delete
  building,  \* the object whose constructor runs, or Null
  assigning  \* the target and source of the operator= in progress, or <<>>

handles == <<ptr, count, life, clearing, building, assigning>>

HInit ==
  /\ ptr = [s \in Slots |-> Null]
  /\ count = [o \in Objects |-> 0]
  /\ life = [o \in Objects |-> "unborn"]
  /\ clearing = {}
  /\ building = Null
  /\ assigning = <<>>

(* No call is in progress.                                                 *)
Idle == clearing = {} /\ building = Null /\ assigning = <<>>

-----------------------------------------------------------------------------

(* Mutant of Point: the count is left alone.                               *)
PointUncounted(s, o) ==
  /\ ptr[s] = Null
  /\ ptr' = [ptr EXCEPT ![s] = o]
  /\ UNCHANGED count

(* A slot that is null comes to point to o.                                *)
Point(s, o) ==
  /\ ptr[s] = Null
  /\ ptr' = [ptr EXCEPT ![s] = o]
  /\ count' = IF o = Null THEN count ELSE [count EXCEPT ![o] = @ + 1]

(* Mutant of Clear: the object is deleted when one reference is left.      *)
ClearEarly(s) ==
  /\ count' = [count EXCEPT ![ptr[s]] = @ - 1]
  /\ IF count[ptr[s]] - 1 <= 1
     THEN clearing' = clearing \union {s} /\ UNCHANGED ptr
     ELSE ptr' = [ptr EXCEPT ![s] = Null] /\ UNCHANGED clearing

(* Ref::clear() of a slot that is not null, up to its delete if it does one. *)
Clear(s) ==
  /\ count' = [count EXCEPT ![ptr[s]] = @ - 1]
  /\ IF count[ptr[s]] - 1 <= 0
     THEN clearing' = clearing \union {s} /\ UNCHANGED ptr
     ELSE ptr' = [ptr EXCEPT ![s] = Null] /\ UNCHANGED clearing

(* MakeHandle: new T, the members copied from the arguments, Ref(T * ).    *)
(* Objects are numbered as they are made.                                  *)
New(o) ==
  /\ Idle /\ life[o] = "unborn"
  /\ \A q \in Objects : q < o => life[q] # "unborn"
  /\ life' = [life EXCEPT ![o] = "new"]
  /\ building' = o
  /\ UNCHANGED <<ptr, count, clearing, assigning>>

InitMember(p, s) ==
  /\ building # Null /\ ptr[s] # Null
  /\ Point(<<building, p>>, ptr[s])
  /\ UNCHANGED <<life, clearing, building, assigning>>

Wrap(s) ==
  /\ building # Null
  /\ Point(s, building)
  /\ life' = [life EXCEPT ![building] = "alive"]
  /\ building' = Null
  /\ UNCHANGED <<clearing, assigning>>

(* Ref(const Ref &): an argument, a return value, an element pushed.       *)
Copy(s, t) ==
  /\ Idle /\ ptr[s] # Null
  /\ Point(t, ptr[s])
  /\ UNCHANGED <<life, clearing, building, assigning>>

(* ExpressionList::Insert and the like, through the handle s: the list is  *)
(* not in any object yet.                                                  *)
Insert(s, p, t) ==
  /\ Idle /\ ptr[s] # Null /\ ptr[t] # Null /\ ptr[s] # ptr[t]
  /\ \A f \in Objects \X Places : ptr[f] # ptr[s]
  /\ Point(<<ptr[s], p>>, ptr[t])
  /\ UNCHANGED <<life, clearing, building, assigning>>

(* ~Ref()                                                                  *)
Destroy(s) ==
  /\ Idle /\ ptr[s] # Null
  /\ Clear(s)
  /\ UNCHANGED <<life, building, assigning>>

(* Mutant of Assign: the pointer is overwritten without clear().           *)
AssignOver(s, t) ==
  /\ Idle
  /\ assigning' = <<s, t>>
  /\ ptr' = [ptr EXCEPT ![s] = Null]
  /\ UNCHANGED <<count, clearing, life, building>>

(* operator=, s = t: clear() first, so that s = s forgets the object,      *)
Assign(s, t) ==
  /\ Idle
  /\ assigning' = <<s, t>>
  /\ \/ ptr[s] # Null /\ Clear(s)
     \/ ptr[s] = Null /\ UNCHANGED <<ptr, count, clearing>>
  /\ UNCHANGED <<life, building>>

(* and then the copy.                                                      *)
FinishAssign ==
  /\ assigning # <<>> /\ clearing = {}
  /\ Point(assigning[1], ptr[assigning[2]])
  /\ assigning' = <<>>
  /\ UNCHANGED <<life, clearing, building>>

(* delete: s has let the last reference go, and no member of its object is *)
(* being cleared.                                                          *)
Deletes(s) == s \in clearing /\ Fields(ptr[s]) \intersect clearing = {}

DestroyMember(s, p) ==
  /\ Deletes(s) /\ ptr[<<ptr[s], p>>] # Null
  /\ Clear(<<ptr[s], p>>)
  /\ UNCHANGED <<life, building, assigning>>

(* Mutant of Free: the memory goes before the members are destroyed.       *)
FreeEarly(s) ==
  /\ Deletes(s)
  /\ life' = [life EXCEPT ![ptr[s]] = "dead"]
  /\ ptr' = [ptr EXCEPT ![s] = Null]
  /\ clearing' = clearing \ {s}
  /\ UNCHANGED <<count, building, assigning>>

(* The destructor is through, and clear() sets its pointer to null.        *)
Free(s) ==
  /\ Deletes(s) /\ \A f \in Fields(ptr[s]) : ptr[f] = Null
  /\ life' = [life EXCEPT ![ptr[s]] = "dead"]
  /\ ptr' = [ptr EXCEPT ![s] = Null]
  /\ clearing' = clearing \ {s}
  /\ UNCHANGED <<count, building, assigning>>

(* What follows of itself once begun.                                      *)
Deleting == \E s \in Slots : Free(s) \/ \E p \in Places : DestroyMember(s, p)

HNext ==
  \/ \E o \in Objects : New(o)
  \/ \E s \in Vars :
       Wrap(s) \/ Destroy(s) \/ \E p \in Places : InitMember(p, s)
  \/ \E s, t \in Vars :
       Copy(s, t) \/ Assign(s, t) \/ \E p \in Places : Insert(s, p, t)
  \/ FinishAssign \/ Deleting

HSpec == HInit /\ [][HNext]_handles

-----------------------------------------------------------------------------

HTypeOK ==
  /\ ptr \in [Slots -> Objects \union {Null}]
  /\ count \in [Objects -> Nat]
  /\ life \in [Objects -> {"unborn", "new", "alive", "dead"}]
  /\ clearing \subseteq Slots
  /\ building \in Objects \union {Null}
  /\ assigning \in {<<>>} \union (Vars \X Vars)

(* The handles that count for an object: those that point to it, without   *)
(* the one that has let it go.                                             *)
Holders(o) == {s \in Slots \ clearing : ptr[s] = o}

(* Every count is exact, within a delete that clears a whole tree as well. *)
CountExact == \A o \in Objects : count[o] = Cardinality(Holders(o))

(* Every handle points to a live object, and every object nobody holds is  *)
(* being built or deleted right now: nothing dangles and nothing leaks.    *)
HeldIsAlive ==
  /\ \A s \in Slots : ptr[s] # Null => life[ptr[s]] = "alive"
  /\ \A o \in Objects :
       life[o] \in {"new", "alive"} /\ Holders(o) = {} =>
         building = o \/ \E s \in clearing : ptr[s] = o

(* Handles implement ownership: a handle gives its object up when clear()  *)
(* decrements the count.                                                   *)
Held == [s \in Slots |-> IF s \in clearing THEN Null ELSE ptr[s]]

Owned == INSTANCE Ownership WITH holds <- Held

=============================================================================
