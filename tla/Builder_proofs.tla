--------------------------- MODULE Builder_proofs ---------------------------
(***************************************************************************)
(* Reference counting is exact and implements ownership, and the builder   *)
(* keeps its nodes alive and its scopes in order, for every set of         *)
(* objects, handles, members, scopes and names.                            *)
(***************************************************************************)
EXTENDS Builder, FiniteSetTheorems, SequenceTheorems, TLAPS

-----------------------------------------------------------------------------
(* The handles.                                                            *)

(* A slot that waits for its delete is the only one left that points to    *)
(* the object, whose count is zero.                                        *)
ClearingIsLast ==
  /\ \A s \in clearing : ptr[s] # Null /\ count[ptr[s]] = 0
  /\ \A s, t \in clearing : ptr[s] = ptr[t] => s = t

(* One constructor runs at a time, and nothing else with it.               *)
BuildingAlone ==
  /\ building # Null => life[building] = "new" /\ clearing = {} /\ assigning = <<>>
  /\ \A o \in Objects : life[o] = "new" => building = o

(* Only an object that is there has members.                               *)
MembersOfLiving ==
  \A o \in Objects, p \in Places : ptr[<<o, p>>] # Null => life[o] \in {"new", "alive"}

HInv ==
  HTypeOK /\ CountExact /\ HeldIsAlive /\ ClearingIsLast /\ BuildingAlone /\ MembersOfLiving

-----------------------------------------------------------------------------

(* Slots are variables or members, and no member is a variable.            *)
LEMMA SlotKinds ==
  /\ \A s \in Vars : s \in Slots
  /\ \A o \in Objects, p \in Places : <<o, p>> \in Slots /\ <<o, p>> \notin Vars
  /\ \A o \in Objects : \A f \in Fields(o) : \E p \in Places : f = <<o, p>>
  /\ \A o \in Objects, p \in Places : <<o, p>> \in Fields(o)
  BY VarsAreNoFields DEF Slots, Fields

(* Handles are finitely many, so that they can be counted.                 *)
LEMMA HoldersFinite ==
  ASSUME NEW o \in Objects
  PROVE  IsFiniteSet(Holders(o)) /\ Cardinality(Holders(o)) \in Nat
  BY SlotsAreFinite, FS_Subset, FS_CardinalityType DEF Holders

(* A slot that comes to point to an object is one more that holds it.      *)
LEMMA PointCounts ==
  ASSUME HTypeOK, CountExact, NEW s \in Slots, NEW o \in Objects, Point(s, o),
         clearing' = clearing, s \notin clearing
  PROVE  /\ ptr' \in [Slots -> Objects \union {Null}]
         /\ count' \in [Objects -> Nat]
         /\ CountExact'
         /\ \A q \in Objects : Holders(q) \subseteq Holders(q)'
         /\ s \in Holders(o)'
<1>1. o # Null /\ ptr[s] = Null
  BY NullIsNoObject DEF Point
<1>2. ptr' = [ptr EXCEPT ![s] = o] /\ count' = [count EXCEPT ![o] = @ + 1]
  BY <1>1 DEF Point
<1>3. ptr' \in [Slots -> Objects \union {Null}] /\ count' \in [Objects -> Nat]
  BY <1>2 DEF HTypeOK
<1>4. Holders(o)' = Holders(o) \union {s} /\ s \notin Holders(o)
  BY <1>1, <1>2 DEF Holders, HTypeOK
<1>5. \A q \in Objects \ {o} : Holders(q)' = Holders(q)
  BY <1>1, <1>2, NullIsNoObject DEF Holders, HTypeOK
<1>6. ASSUME NEW q \in Objects PROVE count'[q] = Cardinality(Holders(q)')
  <2>1. CASE q = o
    <3>1. Cardinality(Holders(o)') = Cardinality(Holders(o)) + 1
      BY <1>4, HoldersFinite, FS_AddElement
    <3>2. count'[o] = count[o] + 1
      BY <1>2 DEF HTypeOK
    <3> QED BY <2>1, <3>1, <3>2 DEF CountExact
  <2>2. CASE q # o
    BY <2>2, <1>2, <1>5 DEF HTypeOK, CountExact
  <2> QED BY <2>1, <2>2
<1> QED BY <1>3, <1>4, <1>5, <1>6 DEF CountExact

(* A slot that gives its object up is one less that holds it; if it was    *)
(* the last it waits for the delete.                                       *)
LEMMA ClearCounts ==
  ASSUME HTypeOK, CountExact, ClearingIsLast,
         NEW s \in Slots, s \notin clearing, NEW o \in Objects, ptr[s] = o, Clear(s)
  PROVE  /\ ptr' \in [Slots -> Objects \union {Null}]
         /\ count' \in [Objects -> Nat]
         /\ clearing' \subseteq Slots
         /\ CountExact'
         /\ ClearingIsLast'
         /\ Holders(o)' = {} => s \in clearing' /\ ptr'[s] = o
         /\ \A q \in Objects \ {o} : Holders(q)' = Holders(q)
         /\ clearing \subseteq clearing'
         /\ \A t \in Slots : t # s => ptr'[t] = ptr[t]
         /\ ptr'[s] \in {o, Null}
<1>0. ptr[s] # Null
  BY NullIsNoObject
<1>1. count' = [count EXCEPT ![o] = @ - 1]
  BY DEF Clear
<1>2. s \in Holders(o) /\ count[o] = Cardinality(Holders(o)) /\ IsFiniteSet(Holders(o))
  BY <1>0, HoldersFinite DEF Holders, CountExact
<1>3. count[o] \in Nat /\ count[o] # 0
  BY <1>0, <1>2, FS_EmptySet DEF HTypeOK
<1>4. CASE count[o] - 1 <= 0
  <2>1. clearing' = clearing \union {s} /\ ptr' = ptr
    BY <1>4 DEF Clear
  <2>2. count'[o] = 0 /\ \A t \in clearing : ptr[t] # o
    BY <1>0, <1>1, <1>3, <1>4 DEF HTypeOK, ClearingIsLast
  <2>3. ClearingIsLast'
    BY <2>1, <2>2, <1>0, <1>1 DEF ClearingIsLast, HTypeOK
  <2>4. Holders(o)' = Holders(o) \ {s}
    BY <2>1 DEF Holders
  <2>5. \A q \in Objects \ {o} : Holders(q)' = Holders(q)
    BY <2>1 DEF Holders
  <2> QED BY <2>1, <2>3, <2>4, <2>5, <1>0, <1>1, <1>2, <1>3, FS_RemoveElement
          DEF CountExact, HTypeOK
<1>5. CASE ~(count[o] - 1 <= 0)
  <2>1. ptr' = [ptr EXCEPT ![s] = Null] /\ clearing' = clearing
    BY <1>5 DEF Clear
  <2>2. Holders(o)' = Holders(o) \ {s}
    BY <2>1, <1>0, NullIsNoObject DEF Holders, HTypeOK
  <2>3. \A q \in Objects \ {o} : Holders(q)' = Holders(q)
    BY <2>1, NullIsNoObject DEF Holders, HTypeOK
  <2>4. Cardinality(Holders(o)') = count[o] - 1 /\ Holders(o)' # {}
    <3>1. Cardinality(Holders(o) \ {s}) = Cardinality(Holders(o)) - 1
      BY <1>2, FS_RemoveElement
    <3>2. Cardinality(Holders(o)') = count[o] - 1 /\ count[o] - 1 # 0
      BY <3>1, <2>2, <1>2, <1>3, <1>5
    <3> QED BY <3>2, FS_EmptySet
  <2>5. count' \in [Objects -> Nat]
    BY <1>0, <1>1, <1>3, <1>5 DEF HTypeOK
  <2>6. CountExact'
    BY <2>3, <2>4, <1>0, <1>1 DEF CountExact, HTypeOK
  <2>7. \A t \in clearing : ptr[t] # o
    BY <1>0, <1>3, <1>5 DEF ClearingIsLast
  <2>8. ClearingIsLast'
    BY <2>1, <2>7, <1>0, <1>1 DEF ClearingIsLast, HTypeOK
  <2> QED BY <2>1, <2>3, <2>4, <2>5, <2>6, <2>8, <1>0 DEF HTypeOK
<1> QED BY <1>4, <1>5

(* Initially nothing points anywhere.                                      *)
LEMMA HInvInit == HInit => HInv
<1> SUFFICES ASSUME HInit PROVE HInv
  OBVIOUS
<1>1. HTypeOK
  BY DEF HInit, HTypeOK
<1>2. \A o \in Objects : Holders(o) = {}
  BY NullIsNoObject DEF HInit, Holders
<1>3. CountExact
  BY <1>2, FS_EmptySet DEF HInit, CountExact
<1>4. HeldIsAlive
  BY DEF HInit, HeldIsAlive
<1>5. ClearingIsLast /\ BuildingAlone /\ MembersOfLiving
  BY SlotKinds DEF HInit, ClearingIsLast, BuildingAlone, MembersOfLiving
<1> QED BY <1>1, <1>3, <1>4, <1>5 DEF HInv

(* A handle more to an object that lives, from a variable or from a member *)
(* of an object that is there.                                             *)
LEMMA PointInv ==
  ASSUME HInv, clearing = {}, NEW s \in Slots, NEW o \in Objects, Point(s, o),
         life[o] = "alive",
         \A q \in Objects, p \in Places : s = <<q, p>> => life[q] \in {"new", "alive"},
         life' = life, clearing' = clearing, building' = building,
         assigning' \in {<<>>, assigning}
  PROVE  HInv'
<1>1. /\ ptr' \in [Slots -> Objects \union {Null}] /\ count' \in [Objects -> Nat]
      /\ CountExact' /\ \A q \in Objects : Holders(q) \subseteq Holders(q)'
  BY PointCounts DEF HInv
<1>2. ptr' = [ptr EXCEPT ![s] = o]
  BY DEF Point
<1>3. HTypeOK'
  BY <1>1 DEF HInv, HTypeOK
<1>4. HeldIsAlive'
  BY <1>1, <1>2 DEF HInv, HTypeOK, HeldIsAlive
<1>5. ClearingIsLast'
  BY DEF ClearingIsLast
<1>6. BuildingAlone'
  BY DEF HInv, BuildingAlone
<1>7. MembersOfLiving'
  BY <1>2, SlotKinds DEF HInv, HTypeOK, MembersOfLiving
<1> QED BY <1>1, <1>3, <1>4, <1>5, <1>6, <1>7 DEF HInv

(* A handle less.                                                          *)
LEMMA ClearInv ==
  ASSUME HInv, building = Null, NEW s \in Slots, s \notin clearing, ptr[s] # Null, Clear(s),
         life' = life, building' = building, assigning' \in {<<>>} \union (Vars \X Vars)
  PROVE  HInv'
<1>1. PICK o \in Objects : ptr[s] = o
  BY DEF HInv, HTypeOK
<1>2. /\ ptr' \in [Slots -> Objects \union {Null}] /\ count' \in [Objects -> Nat]
      /\ clearing' \subseteq Slots
      /\ CountExact' /\ ClearingIsLast'
      /\ Holders(o)' = {} => s \in clearing' /\ ptr'[s] = o
      /\ \A q \in Objects \ {o} : Holders(q)' = Holders(q)
      /\ clearing \subseteq clearing'
      /\ \A t \in Slots : t # s => ptr'[t] = ptr[t]
      /\ ptr'[s] \in {o, Null}
  BY <1>1, ClearCounts DEF HInv
<1>3. HTypeOK'
  BY <1>2 DEF HInv, HTypeOK
<1>4. \A t \in Slots : ptr'[t] # Null => ptr'[t] = ptr[t]
  BY <1>1, <1>2
<1>5. HeldIsAlive'
  <2>1. \A t \in Slots : ptr'[t] # Null => life'[ptr'[t]] = "alive"
    BY <1>4 DEF HInv, HeldIsAlive
  <2>2. ASSUME NEW q \in Objects, life'[q] \in {"new", "alive"}, Holders(q)' = {}
        PROVE  \E t \in clearing' : ptr'[t] = q
    <3>1. CASE q = o
      BY <3>1, <2>2, <1>2
    <3>2. CASE q # o
      <4>1. PICK t \in clearing : ptr[t] = q
        BY <3>2, <2>2, <1>2, NullIsNoObject DEF HInv, HeldIsAlive
      <4> QED BY <4>1, <3>2, <1>1, <1>2 DEF HInv, HTypeOK
    <3> QED BY <3>1, <3>2
  <2> QED BY <2>1, <2>2 DEF HeldIsAlive
<1>6. BuildingAlone'
  BY DEF HInv, BuildingAlone
<1>7. MembersOfLiving'
  BY <1>4, SlotKinds DEF HInv, MembersOfLiving
<1> QED BY <1>2, <1>3, <1>5, <1>6, <1>7 DEF HInv

(* A constructor begins.                                                   *)
LEMMA NewInv == ASSUME HInv, NEW o \in Objects, New(o) PROVE HInv'
<1>1. /\ life' = [life EXCEPT ![o] = "new"] /\ building' = o /\ life[o] = "unborn"
      /\ clearing = {} /\ assigning = <<>> /\ building = Null
      /\ UNCHANGED <<ptr, count, clearing, assigning>>
  BY DEF New, Idle
<1>2. HTypeOK'
  BY <1>1 DEF HInv, HTypeOK
<1>3. CountExact'
  BY <1>1 DEF HInv, CountExact, Holders
<1>4. HeldIsAlive'
  <2>1. \A s \in Slots : ptr[s] # o
    BY <1>1, NullIsNoObject DEF HInv, HeldIsAlive
  <2>2. \A s \in Slots : ptr'[s] # Null => life'[ptr'[s]] = "alive"
    BY <2>1, <1>1 DEF HInv, HTypeOK, HeldIsAlive
  <2>3. \A q \in Objects : Holders(q)' = Holders(q)
    BY <1>1 DEF Holders
  <2>4. \A q \in Objects \ {o} : life'[q] = life[q]
    BY <1>1 DEF HInv, HTypeOK
  <2> QED BY <2>2, <2>3, <2>4, <1>1, NullIsNoObject DEF HInv, HeldIsAlive
<1>5. ClearingIsLast'
  BY <1>1 DEF ClearingIsLast
<1>6. BuildingAlone'
  BY <1>1, NullIsNoObject DEF HInv, HTypeOK, BuildingAlone
<1>7. MembersOfLiving'
  BY <1>1 DEF HInv, HTypeOK, MembersOfLiving
<1> QED BY <1>2, <1>3, <1>4, <1>5, <1>6, <1>7 DEF HInv

(* It ends, and the handle that MakeHandle returns holds the object.       *)
LEMMA WrapInv == ASSUME HInv, NEW s \in Vars, Wrap(s) PROVE HInv'
<1>0. PICK o \in Objects : building = o
  BY DEF Wrap, HInv, HTypeOK
<1>1. /\ building = o /\ o # Null /\ life[o] = "new"
      /\ clearing = {} /\ assigning = <<>>
      /\ Point(s, o) /\ life' = [life EXCEPT ![o] = "alive"]
      /\ building' = Null /\ clearing' = clearing /\ assigning' = assigning
  BY <1>0 DEF Wrap, HInv, HTypeOK, BuildingAlone
<1>2. /\ ptr' \in [Slots -> Objects \union {Null}] /\ count' \in [Objects -> Nat]
      /\ CountExact' /\ s \in Holders(o)'
      /\ \A q \in Objects : Holders(q) \subseteq Holders(q)'
  BY <1>1, SlotKinds, PointCounts DEF HInv
<1>3. ptr' = [ptr EXCEPT ![s] = o]
  BY <1>1 DEF Point
<1>4. HTypeOK'
  BY <1>1, <1>2 DEF HInv, HTypeOK
<1>5. HeldIsAlive'
  <2>1. \A t \in Slots : ptr'[t] # Null => life'[ptr'[t]] = "alive"
    BY <1>1, <1>3 DEF HInv, HTypeOK, HeldIsAlive
  <2>2. \A q \in Objects : life'[q] \in {"new", "alive"} => life[q] \in {"new", "alive"}
    BY <1>1 DEF HInv, HTypeOK
  <2>3. \A q \in Objects : life[q] \in {"new", "alive"} /\ Holders(q) = {} => q = o
    BY <1>1 DEF HInv, HeldIsAlive
  <2> QED BY <2>1, <2>2, <2>3, <1>2 DEF HeldIsAlive
<1>6. ClearingIsLast'
  BY <1>1 DEF ClearingIsLast
<1>7. BuildingAlone'
  BY <1>1 DEF HInv, HTypeOK, BuildingAlone
<1>8. MembersOfLiving'
  BY <1>1, <1>3, SlotKinds DEF HInv, HTypeOK, MembersOfLiving
<1> QED BY <1>2, <1>4, <1>5, <1>6, <1>7, <1>8 DEF HInv

(* A delete ends: nobody but the slot that waits points to the object.     *)
LEMMA FreeInv == ASSUME HInv, NEW s \in Slots, Free(s) PROVE HInv'
<1>1. PICK o \in Objects : ptr[s] = o
  BY DEF HInv, HTypeOK, ClearingIsLast, Free, Deletes
<1>2. /\ s \in clearing /\ life' = [life EXCEPT ![o] = "dead"]
      /\ ptr' = [ptr EXCEPT ![s] = Null] /\ clearing' = clearing \ {s}
      /\ UNCHANGED <<count, building, assigning>>
      /\ \A f \in Fields(o) : ptr[f] = Null
  BY <1>1 DEF Free, Deletes
<1>3. building = Null
  BY <1>2 DEF HInv, BuildingAlone
<1>4. Holders(o) = {}
  BY <1>1, <1>2, HoldersFinite, FS_EmptySet DEF HInv, ClearingIsLast, CountExact
<1>5. \A t \in Slots : t # s => ptr[t] # o
  BY <1>1, <1>2, <1>4 DEF HInv, ClearingIsLast, Holders
<1>6. HTypeOK'
  BY <1>2 DEF HInv, HTypeOK
<1>7. \A q \in Objects : Holders(q)' = Holders(q)
  BY <1>2, NullIsNoObject DEF HInv, HTypeOK, Holders
<1>8. CountExact'
  BY <1>2, <1>7 DEF HInv, CountExact
<1>9. HeldIsAlive'
  <2>1. \A t \in Slots : ptr'[t] # Null => life'[ptr'[t]] = "alive"
    BY <1>2, <1>5 DEF HInv, HTypeOK, HeldIsAlive
  <2>2. ASSUME NEW q \in Objects, life'[q] \in {"new", "alive"}, Holders(q)' = {}
        PROVE  \E t \in clearing' : ptr'[t] = q
    <3>1. q # o /\ life[q] = life'[q]
      BY <2>2, <1>2 DEF HInv, HTypeOK
    <3>2. PICK t \in clearing : ptr[t] = q
      BY <3>1, <2>2, <1>3, <1>7, NullIsNoObject DEF HInv, HeldIsAlive
    <3> QED BY <3>1, <3>2, <1>1, <1>2 DEF HInv, HTypeOK
  <2> QED BY <2>1, <2>2 DEF HeldIsAlive
<1>10. ClearingIsLast'
  BY <1>2 DEF HInv, HTypeOK, ClearingIsLast
<1>11. BuildingAlone'
  BY <1>2, <1>3 DEF HInv, HTypeOK, BuildingAlone
<1>12. MembersOfLiving'
  <2>1. ASSUME NEW q \in Objects, NEW p \in Places, ptr'[<<q, p>>] # Null
        PROVE  life'[q] \in {"new", "alive"}
    <3>1. ptr[<<q, p>>] # Null
      BY <2>1, <1>2, SlotKinds DEF HInv, HTypeOK
    <3>2. q # o
      BY <3>1, <1>2, SlotKinds
    <3> QED BY <3>1, <3>2, <1>2 DEF HInv, HTypeOK, MembersOfLiving
  <2> QED BY <2>1 DEF MembersOfLiving
<1> QED BY <1>6, <1>8, <1>9, <1>10, <1>11, <1>12 DEF HInv

(* Copy constructor.                                                       *)
LEMMA CopyInv == ASSUME HInv, NEW s \in Vars, NEW t \in Vars, Copy(s, t) PROVE HInv'
<1>1. clearing = {} /\ ptr[s] \in Objects /\ life[ptr[s]] = "alive"
  BY SlotKinds DEF Copy, Idle, HInv, HTypeOK, HeldIsAlive
<1> QED BY <1>1, PointInv, SlotKinds DEF Copy

(* A member that a constructor initialises.                                *)
LEMMA InitMemberInv ==
  ASSUME HInv, NEW s \in Vars, NEW p \in Places, InitMember(p, s) PROVE HInv'
<1>1. building \in Objects /\ life[building] = "new" /\ clearing = {} /\ assigning = <<>>
  BY DEF InitMember, HInv, HTypeOK, BuildingAlone
<1>2. ptr[s] \in Objects /\ life[ptr[s]] = "alive"
  BY SlotKinds DEF InitMember, HInv, HTypeOK, HeldIsAlive
<1> QED BY <1>1, <1>2, PointInv, SlotKinds DEF InitMember

(* An element inserted into a list.                                        *)
LEMMA InsertInv ==
  ASSUME HInv, NEW s \in Vars, NEW t \in Vars, NEW p \in Places, Insert(s, p, t) PROVE HInv'
<1>1. clearing = {} /\ ptr[s] \in Objects /\ life[ptr[s]] = "alive"
  BY SlotKinds DEF Insert, Idle, HInv, HTypeOK, HeldIsAlive
<1>2. ptr[t] \in Objects /\ life[ptr[t]] = "alive"
  BY SlotKinds DEF Insert, HInv, HTypeOK, HeldIsAlive
<1> QED BY <1>1, <1>2, PointInv, SlotKinds DEF Insert

(* The second half of operator=, perhaps with a null handle.               *)
LEMMA FinishAssignInv == ASSUME HInv, FinishAssign PROVE HInv'
<1>1. PICK s \in Vars, t \in Vars : assigning = <<s, t>>
  BY DEF FinishAssign, HInv, HTypeOK
<1>2. clearing = {} /\ building = Null /\ Point(s, ptr[t]) /\ assigning' = <<>>
  BY <1>1 DEF FinishAssign, HInv, BuildingAlone
<1>3. CASE ptr[t] = Null
  <2>1. UNCHANGED <<ptr, count, life, clearing, building>>
    BY <1>2, <1>3, SlotKinds DEF FinishAssign, Point, HInv, HTypeOK
  <2> QED BY <2>1, <1>2 DEF HInv, HTypeOK, CountExact, Holders, HeldIsAlive, ClearingIsLast,
                            BuildingAlone, MembersOfLiving
<1>4. CASE ptr[t] # Null
  <2>1. ptr[t] \in Objects /\ life[ptr[t]] = "alive"
    BY <1>4, SlotKinds DEF HInv, HTypeOK, HeldIsAlive
  <2> QED BY <1>2, <2>1, PointInv, SlotKinds DEF FinishAssign
<1> QED BY <1>3, <1>4

(* The first half of operator=.                                            *)
LEMMA AssignInv == ASSUME HInv, NEW s \in Vars, NEW t \in Vars, Assign(s, t) PROVE HInv'
<1>1. clearing = {} /\ building = Null /\ assigning' = <<s, t>> /\ UNCHANGED <<life, building>>
  BY DEF Assign, Idle
<1>2. CASE ptr[s] # Null /\ Clear(s)
  BY <1>1, <1>2, ClearInv, SlotKinds
<1>3. CASE UNCHANGED <<ptr, count, clearing>>
  BY <1>1, <1>3 DEF HInv, HTypeOK, CountExact, Holders, HeldIsAlive, ClearingIsLast,
                    BuildingAlone, MembersOfLiving
<1> QED BY <1>2, <1>3 DEF Assign

(* A destructor clears a member.                                           *)
LEMMA DestroyMemberInv ==
  ASSUME HInv, NEW s \in Slots, NEW p \in Places, DestroyMember(s, p) PROVE HInv'
<1>1. s \in clearing /\ Fields(ptr[s]) \intersect clearing = {}
  BY DEF DestroyMember, Deletes
<1>2. PICK o \in Objects : ptr[s] = o
  BY <1>1 DEF HInv, HTypeOK, ClearingIsLast
<1>3. building = Null /\ <<o, p>> \in Slots \ clearing
  BY <1>1, <1>2, SlotKinds DEF HInv, BuildingAlone
<1> QED BY <1>2, <1>3, ClearInv DEF DestroyMember, HInv, HTypeOK

(* Every step of a handle keeps the invariant.                             *)
LEMMA HInvStep == HInv /\ [HNext]_handles => HInv'
<1> SUFFICES ASSUME HInv, [HNext]_handles PROVE HInv'
  OBVIOUS
<1>1. ASSUME NEW o \in Objects, New(o) PROVE HInv'
  BY <1>1, NewInv
<1>2. ASSUME NEW s \in Vars, Wrap(s) PROVE HInv'
  BY <1>2, WrapInv
<1>3. ASSUME NEW s \in Vars, Destroy(s) PROVE HInv'
  <2>1. building = Null /\ s \notin clearing /\ assigning = <<>>
    BY <1>3 DEF Destroy, Idle
  <2> QED BY <1>3, <2>1, ClearInv, SlotKinds DEF Destroy
<1>4. ASSUME NEW s \in Vars, NEW p \in Places, InitMember(p, s) PROVE HInv'
  BY <1>4, InitMemberInv
<1>5. ASSUME NEW s \in Vars, NEW t \in Vars, Copy(s, t) PROVE HInv'
  BY <1>5, CopyInv
<1>6. ASSUME NEW s \in Vars, NEW t \in Vars, Assign(s, t) PROVE HInv'
  BY <1>6, AssignInv
<1>7. ASSUME NEW s \in Vars, NEW t \in Vars, NEW p \in Places, Insert(s, p, t) PROVE HInv'
  BY <1>7, InsertInv
<1>8. CASE FinishAssign
  BY <1>8, FinishAssignInv
<1>9. ASSUME NEW s \in Slots, Free(s) PROVE HInv'
  BY <1>9, FreeInv
<1>10. ASSUME NEW s \in Slots, NEW p \in Places, DestroyMember(s, p) PROVE HInv'
  BY <1>10, DestroyMemberInv
<1>11. CASE UNCHANGED handles
  BY <1>11 DEF handles, HInv, HTypeOK, CountExact, Holders, HeldIsAlive, ClearingIsLast,
               BuildingAlone, MembersOfLiving
<1> QED BY <1>1, <1>2, <1>3, <1>4, <1>5, <1>6, <1>7, <1>8, <1>9, <1>10, <1>11
        DEF HNext, Deleting

(* The invariant holds of everything handles do.                           *)
LEMMA HandlesInv == HSpec => []HInv
  BY HInvInit, HInvStep, PTL DEF HSpec

(* However handles are made, copied, assigned, inserted and destroyed, a   *)
(* count is the number of handles that hold the object, none dangles, and  *)
(* no object is left that nobody holds.                                    *)
THEOREM HandlesExact == HSpec => [](HTypeOK /\ CountExact /\ HeldIsAlive)
  BY HandlesInv, PTL DEF HInv

-----------------------------------------------------------------------------

(* A clear() shows outside as one handle dropped.                          *)
LEMMA ClearDrops ==
  ASSUME HInv, NEW s \in Slots, s \notin clearing, ptr[s] # Null, Clear(s)
  PROVE  Held' = [Held EXCEPT ![s] = Null]
<1>1. CASE clearing' = clearing \union {s} /\ UNCHANGED ptr
  BY <1>1 DEF Held
<1>2. CASE ptr' = [ptr EXCEPT ![s] = Null] /\ UNCHANGED clearing
  BY <1>2 DEF Held, HInv, HTypeOK
<1> QED BY <1>1, <1>2 DEF Clear

(* A slot that comes to point to an object shows outside as holding it.    *)
LEMMA PointHolds ==
  ASSUME HInv, NEW s \in Slots, NEW o \in Objects, Point(s, o), clearing = {}, clearing' = {},
         life[o] \in {"new", "alive"}, life' = [life EXCEPT ![o] = "alive"]
  PROVE  Owned!Hold(s, o)
<1>1. ptr[s] = Null /\ ptr' = [ptr EXCEPT ![s] = o]
  BY DEF Point
<1>2. Held = ptr /\ Held' = ptr'
  BY <1>1 DEF Held, HInv, HTypeOK
<1> QED BY <1>1, <1>2 DEF Owned!Hold

(* The counts implement ownership: every step of the handles holds, drops, *)
(* makes or deletes one object, or shows nothing.                          *)
THEOREM HandlesImplementOwnership == HSpec => Owned!Spec
<1>1. HInit => Owned!Init
  BY DEF HInit, Owned!Init, Held, Owned!Slots, Slots
<1>2. HInv /\ [HNext]_handles => [Owned!Next]_<<Held, life>>
  <2> SUFFICES ASSUME HInv, [HNext]_handles PROVE Owned!Next \/ UNCHANGED <<Held, life>>
    OBVIOUS
  <2>1. ASSUME NEW o \in Objects, New(o) PROVE Owned!Birth(o)
    BY <2>1 DEF New, Owned!Birth, Held
  <2>2. ASSUME NEW s \in Slots, NEW o \in Objects, Point(s, o), clearing = {}, clearing' = {},
               life[o] = "alive", life' = life
        PROVE  Owned!Hold(s, o)
    BY <2>2, PointHolds DEF HInv, HTypeOK
  <2>3. ASSUME NEW s \in Slots, s \notin clearing, ptr[s] # Null, Clear(s), life' = life
        PROVE  Owned!Drop(s)
    BY <2>3, ClearDrops DEF Owned!Drop
  <2>4. ASSUME NEW s \in Vars, Wrap(s) PROVE Owned!Next
    <3>1. PICK o \in Objects : building = o
      BY <2>4 DEF Wrap, HInv, HTypeOK
    <3>2. Point(s, o) /\ clearing = {} /\ clearing' = {} /\ life[o] = "new"
          /\ life' = [life EXCEPT ![o] = "alive"]
      BY <2>4, <3>1 DEF Wrap, HInv, BuildingAlone
    <3>3. Owned!Hold(s, o)
      BY <3>2, PointHolds, SlotKinds
    <3> QED BY <3>3, SlotKinds DEF Owned!Next, Owned!Slots, Slots
  <2>5. ASSUME NEW s \in Vars, NEW p \in Places, InitMember(p, s) PROVE Owned!Next
    <3>1. building \in Objects /\ clearing = {} /\ ptr[s] \in Objects
          /\ life[ptr[s]] = "alive"
      BY <2>5, SlotKinds DEF InitMember, HInv, HTypeOK, BuildingAlone, HeldIsAlive
    <3>2. Owned!Hold(<<building, p>>, ptr[s])
      BY <2>5, <3>1, <2>2, SlotKinds DEF InitMember
    <3> QED BY <3>1, <3>2, SlotKinds DEF Owned!Next, Owned!Slots, Slots
  <2>6. ASSUME NEW s \in Vars, NEW t \in Vars, Copy(s, t) PROVE Owned!Next
    <3>1. clearing = {} /\ ptr[s] \in Objects /\ life[ptr[s]] = "alive"
      BY <2>6, SlotKinds DEF Copy, Idle, HInv, HTypeOK, HeldIsAlive
    <3>2. Owned!Hold(t, ptr[s])
      BY <2>6, <3>1, <2>2, SlotKinds DEF Copy
    <3> QED BY <3>1, <3>2, SlotKinds DEF Owned!Next, Owned!Slots, Slots
  <2>7. ASSUME NEW s \in Vars, NEW t \in Vars, NEW p \in Places, Insert(s, p, t)
        PROVE  Owned!Next
    <3>1. clearing = {} /\ ptr[s] \in Objects /\ ptr[t] \in Objects
          /\ life[ptr[t]] = "alive"
      BY <2>7, SlotKinds DEF Insert, Idle, HInv, HTypeOK, HeldIsAlive
    <3>2. Owned!Hold(<<ptr[s], p>>, ptr[t])
      BY <2>7, <3>1, <2>2, SlotKinds DEF Insert
    <3> QED BY <3>1, <3>2, SlotKinds DEF Owned!Next, Owned!Slots, Slots
  <2>8. ASSUME NEW s \in Vars, Destroy(s) PROVE Owned!Next
    <3>1. Owned!Drop(s)
      BY <2>8, <2>3, SlotKinds DEF Destroy, Idle
    <3> QED BY <3>1, SlotKinds DEF Owned!Next, Owned!Slots, Slots
  <2>9. ASSUME NEW s \in Slots, NEW p \in Places, DestroyMember(s, p) PROVE Owned!Next
    <3>1. PICK o \in Objects : ptr[s] = o /\ <<o, p>> \in Slots /\ <<o, p>> \notin clearing
      BY <2>9, SlotKinds DEF DestroyMember, Deletes, HInv, HTypeOK, ClearingIsLast
    <3>2. Owned!Drop(<<o, p>>)
      BY <2>9, <3>1, <2>3 DEF DestroyMember
    <3> QED BY <3>1, <3>2 DEF Owned!Next, Owned!Slots, Slots
  <2>10. ASSUME NEW s \in Vars, NEW t \in Vars, Assign(s, t)
         PROVE  Owned!Next \/ UNCHANGED <<Held, life>>
    <3>1. CASE ptr[s] # Null /\ Clear(s)
      <4>1. Owned!Drop(s)
        BY <2>10, <3>1, <2>3, SlotKinds DEF Assign, Idle
      <4> QED BY <4>1, SlotKinds DEF Owned!Next, Owned!Slots, Slots
    <3>2. CASE UNCHANGED <<ptr, count, clearing>>
      BY <2>10, <3>2 DEF Assign, Held
    <3> QED BY <2>10, <3>1, <3>2 DEF Assign
  <2>11. CASE FinishAssign
    <3>1. PICK s \in Vars, t \in Vars : assigning = <<s, t>>
      BY <2>11 DEF FinishAssign, HInv, HTypeOK
    <3>2. Point(s, ptr[t]) /\ clearing = {} /\ clearing' = {} /\ life' = life
      BY <2>11, <3>1 DEF FinishAssign
    <3>3. CASE ptr[t] = Null
      <4>1. ptr' = ptr
        BY <3>2, <3>3, SlotKinds DEF Point, HInv, HTypeOK
      <4> QED BY <4>1, <3>2 DEF Held
    <3>4. CASE ptr[t] # Null
      <4>1. ptr[t] \in Objects /\ life[ptr[t]] = "alive"
        BY <3>4, SlotKinds DEF HInv, HTypeOK, HeldIsAlive
      <4>2. Owned!Hold(s, ptr[t])
        BY <3>2, <4>1, <2>2, SlotKinds
      <4> QED BY <4>1, <4>2, SlotKinds DEF Owned!Next, Owned!Slots, Slots
    <3> QED BY <3>3, <3>4
  <2>12. ASSUME NEW s \in Slots, Free(s) PROVE Owned!Next
    <3>1. PICK o \in Objects : ptr[s] = o /\ count[o] = 0
      BY <2>12 DEF HInv, HTypeOK, ClearingIsLast, Free, Deletes
    <3>2. /\ s \in clearing /\ life' = [life EXCEPT ![o] = "dead"]
          /\ ptr' = [ptr EXCEPT ![s] = Null] /\ clearing' = clearing \ {s}
          /\ \A f \in Fields(o) : ptr[f] = Null
      BY <2>12, <3>1 DEF Free, Deletes
    <3>3. \A t \in Slots : Held[t] # o
      <4>1. Holders(o) = {}
        BY <3>1, HoldersFinite, FS_EmptySet DEF HInv, CountExact
      <4> QED BY <4>1, NullIsNoObject DEF Held, Holders
    <3>4. \A f \in Fields(o) : Held[f] = Null
      BY <3>2, SlotKinds DEF Held
    <3>5. Held' = Held
      BY <3>2 DEF Held, HInv, HTypeOK
    <3>6. life[o] = "alive"
      BY <3>1, <3>2, NullIsNoObject DEF HInv, HTypeOK, HeldIsAlive
    <3>7. Owned!Die(o)
      BY <3>2, <3>3, <3>4, <3>5, <3>6
      DEF Owned!Die, Owned!Slots, Slots, Owned!Fields, Fields
    <3> QED BY <3>7 DEF Owned!Next
  <2>13. CASE UNCHANGED handles
    BY <2>13 DEF handles, Held
  <2>14. \A o \in Objects : New(o) => Owned!Next
    BY <2>1 DEF Owned!Next
  <2> QED BY <2>4, <2>5, <2>6, <2>7, <2>8, <2>9, <2>10, <2>11, <2>12, <2>13, <2>14
          DEF HNext, Deleting
<1> QED BY <1>1, <1>2, HandlesInv, PTL DEF HSpec, Owned!Spec

-----------------------------------------------------------------------------
(* The builder over them.                                                  *)

(* While the parser runs, the cells of exprs_ hold what was saved, what was *)
(* not saved is about to be, and scopes know only nodes that live.         *)
Kept ==
  phase = "parsing" =>
    /\ \A o \in Objects : o \in Saved => ptr[Cell(o)] = o
    /\ clearing \intersect Cells = {}
    /\ \A o \in Objects : kind[o] = "node" => life[o] \in {"new", "alive"}
    /\ Unsaved # {} => Idle
    /\ assigning # <<>> => assigning[1] \notin Cells
    /\ \A s \in ScopeIds :
         /\ root[s] # Null => kind[root[s]] = "node" /\ life[root[s]] = "alive"
         /\ \A n \in Identifiers :
              entries[s][n] # Null => kind[entries[s][n]] = "node" /\ life[entries[s][n]] = "alive"

BTypeOK ==
  /\ exprs_ \in Seq(Objects)
  /\ kind \in [Objects -> {"none", "node", "list", "declaration"}]
  /\ phase \in {"parsing", "closing", "ended"}

SInv == STypeOK /\ StackIsChain

BInv == HInv /\ SInv /\ BTypeOK /\ Kept

-----------------------------------------------------------------------------

(* Initially there is the global scope.                                    *)
LEMMA SInvInit == SInit => SInv
  BY GlobalIsScope DEF SInit, SInv, STypeOK, StackIsChain

(* A scope is pushed onto the chain.                                       *)
LEMMA NewScopeInv ==
  ASSUME SInv, NEW s \in ScopeIds, NEW o \in Objects \union {Null}, NewScope(s, o)
  PROVE  SInv'
<1>1. /\ s \notin made /\ made' = made \union {s}
      /\ parent' = [parent EXCEPT ![s] = current]
      /\ root' = [root EXCEPT ![s] = o]
      /\ scope' = IF o = Null THEN scope ELSE [scope EXCEPT ![o] = s]
      /\ scope_stack' = Append(scope_stack, current)
      /\ current' = s /\ entries' = entries
  BY DEF NewScope
<1>2. scope_stack' \in Seq(made')
  BY <1>1 DEF SInv, STypeOK
<1>3. scope' \in [Objects -> made' \union {Null}]
  BY <1>1 DEF SInv, STypeOK
<1>4. STypeOK'
  BY <1>1, <1>2, <1>3 DEF SInv, STypeOK
<1>5. StackIsChain'
  <2> DEFINE path == Append(scope_stack, current)
  <2>1. /\ path \in Seq(made) /\ Len(path) = Len(scope_stack) + 1 /\ Len(scope_stack) \in Nat
        /\ scope_stack' = path /\ path[Len(path)] = current
    BY <1>1 DEF SInv, STypeOK
  <2>2. \A i \in 1..Len(path) : Append(path, s)[i] = path[i] /\ path[i] \in made
    BY <2>1
  <2>3. Append(path, s)[Len(path) + 1] = s
    BY <2>1
  <2>4. \A q \in made : parent'[q] = parent[q]
    BY <1>1 DEF SInv, STypeOK
  <2>5. /\ path[1] = Global /\ parent[Global] = Null /\ Global \in made
        /\ \A i \in 1..Len(scope_stack) : parent[path[i + 1]] = path[i]
    BY <2>1, <2>2 DEF SInv, StackIsChain
  <2>6. parent'[s] = current
    BY <1>1 DEF SInv, STypeOK
  <2> HIDE DEF path
  <2>7. ASSUME NEW i \in 1..Len(path)
        PROVE  parent'[Append(path, s)[i + 1]] = Append(path, s)[i]
    <3>1. CASE i = Len(path)
      BY <3>1, <2>1, <2>2, <2>3, <2>6
    <3>2. CASE i # Len(path)
      <4>1. i \in 1..Len(scope_stack) /\ i + 1 \in 1..Len(path)
        BY <3>2, <2>1
      <4> QED BY <4>1, <2>2, <2>4, <2>5
    <3> QED BY <3>1, <3>2
  <2> QED BY <1>1, <2>1, <2>2, <2>4, <2>5, <2>7 DEF StackIsChain
<1> QED BY <1>4, <1>5 DEF SInv

(* A scope is popped off it.                                               *)
LEMMA PopScopeInv == ASSUME SInv, PopScope PROVE SInv'
<1>1. PICK n \in Nat : n = Len(scope_stack)
  BY DEF SInv, STypeOK
<1>2. /\ n > 0 /\ current' = scope_stack[n]
      /\ scope_stack' = SubSeq(scope_stack, 1, n - 1)
      /\ UNCHANGED <<made, parent, root, entries, scope>>
  BY <1>1 DEF PopScope, SInv, STypeOK
<1>3. /\ scope_stack' \in Seq(made) /\ Len(scope_stack') = n - 1
      /\ \A i \in 1..n - 1 : scope_stack'[i] = scope_stack[i]
      /\ current' \in made
  BY <1>1, <1>2 DEF SInv, STypeOK
<1>4. STypeOK'
  BY <1>2, <1>3 DEF SInv, STypeOK
<1>5. Append(scope_stack, current) \in Seq(made)
  BY DEF SInv, STypeOK
<1>6. \A i \in 1..n : Append(scope_stack', current')[i] = Append(scope_stack, current)[i]
  <2>1. ASSUME NEW i \in 1..n
        PROVE  Append(scope_stack', current')[i] = Append(scope_stack, current)[i]
    <3>1. Append(scope_stack, current)[i] = scope_stack[i]
      BY <1>1 DEF SInv, STypeOK
    <3>2. CASE i = n
      BY <3>1, <3>2, <1>2, <1>3
    <3>3. CASE i # n
      BY <3>1, <3>3, <1>3
    <3> QED BY <3>2, <3>3
  <2> QED BY <2>1
<1>7. StackIsChain'
  BY <1>1, <1>2, <1>3, <1>6 DEF SInv, StackIsChain
<1> QED BY <1>4, <1>7 DEF SInv

(* A symbol leaves the chain alone.                                        *)
LEMMA PushInv ==
  ASSUME SInv, NEW n \in Identifiers, NEW o \in Objects, Push(n, o)
  PROVE  SInv'
<1>1. entries' \in [ScopeIds -> [Identifiers -> Objects \union {Null}]]
  BY DEF Push, SInv, STypeOK
<1> QED BY <1>1 DEF Push, SInv, STypeOK, StackIsChain

(* So does a node made in the current scope.                               *)
LEMMA InCurrentScopeInv ==
  ASSUME SInv, NEW o \in Objects, InCurrentScope(o)
  PROVE  SInv'
  BY DEF InCurrentScope, SInv, STypeOK, StackIsChain

-----------------------------------------------------------------------------

(* The cells of exprs_ are variables, but not of the parser or of main.    *)
LEMMA CellKinds ==
  /\ \A o \in Objects : Cell(o) \in Cells /\ Cell(o) \in Vars /\ Cell(o) \in Slots
  /\ \A s \in Locals : s \in Vars /\ s \in Slots /\ s \notin Cells
  /\ ast \in Vars /\ ast \notin Cells
  /\ \A o \in Objects, p \in Places : <<o, p>> \notin Cells
  /\ \A o, q \in Objects : Cell(o) = Cell(q) => o = q
  BY VarsAreThese, CellsAreNoLocals, SlotKinds DEF Cells, Cell

(* What the builder does to handles is what handles do.                    *)
LEMMA BuilderUsesHandles == BTypeOK /\ [BNext]_vars => [HNext]_handles
<1> SUFFICES ASSUME BTypeOK, [BNext]_vars PROVE HNext \/ UNCHANGED handles
  BY DEF handles
<1>1. ASSUME NEW o \in Objects, New(o) PROVE HNext
  BY <1>1 DEF HNext
<1>2. ASSUME NEW s \in Vars, Destroy(s) \/ Wrap(s) PROVE HNext
  BY <1>2 DEF HNext
<1>3. ASSUME NEW s \in Vars, NEW t \in Vars, Copy(s, t) \/ Assign(s, t) PROVE HNext
  BY <1>3 DEF HNext
<1>4. ASSUME NEW s \in Vars, NEW t \in Vars, NEW p \in Places, Insert(s, p, t) PROVE HNext
  BY <1>4 DEF HNext
<1>5. CASE \E o \in Objects : NewNode(o) \/ NewList(o) \/ NewDeclaration(o)
  BY <1>5, <1>1 DEF NewNode, NewList, NewDeclaration
<1>6. ASSUME NEW s \in Locals, Save(s) PROVE HNext
  <2>1. ptr[s] \in Objects /\ Copy(s, Cell(ptr[s]))
    BY <1>6 DEF Save, Unsaved
  <2> QED BY <2>1, <1>3, CellKinds
<1>7. ASSUME NEW s \in Locals, Return(s) PROVE HNext
  BY <1>7, <1>3, CellKinds DEF Return
<1>8. CASE Construct
  BY <1>8, <1>2, CellKinds DEF Construct, HNext
<1>9. CASE UseHandles
  BY <1>9, <1>2, <1>3, <1>4, CellKinds DEF UseHandles
<1>10. CASE Continue
  BY <1>10 DEF Continue, HNext
<1>11. CASE UseScopes \/ Throw \/ End \/ UNCHANGED vars
  BY <1>11 DEF UseScopes, Throw, End, vars
<1>12. ASSUME NEW s \in Locals, Unwind(s) PROVE HNext
  BY <1>12, <1>2, CellKinds DEF Unwind
<1>13. CASE DropTree
  BY <1>13, <1>2, CellKinds DEF DropTree
<1>14. CASE DropSaved
  <2>1. exprs_[1] \in Objects
    BY <1>14 DEF DropSaved, BTypeOK
  <2> QED BY <1>14, <2>1, <1>2, CellKinds DEF DropSaved
<1> QED BY <1>5, <1>6, <1>7, <1>8, <1>9, <1>10, <1>11, <1>12, <1>13, <1>14
        DEF BNext, Closing

(* The scopes are used as the scope manager offers.                        *)
LEMMA BuilderUsesScopes ==
  ASSUME HTypeOK, SInv, [BNext]_vars
  PROVE  SInv'
<1>1. ASSUME NEW o \in Objects, InCurrentScope(o) PROVE SInv'
  BY <1>1, InCurrentScopeInv
<1>2. CASE UNCHANGED scopes
  BY <1>2 DEF scopes, SInv, STypeOK, StackIsChain
<1>3. CASE UseScopes
  <2>1. Nodes \subseteq Objects
    BY CellKinds DEF Nodes, Is, HTypeOK
  <2> QED BY <1>3, <2>1, NewScopeInv, PopScopeInv, PushInv DEF UseScopes
<1>4. CASE \E o \in Objects : NewNode(o) \/ NewDeclaration(o)
  BY <1>4, <1>1 DEF NewNode, NewDeclaration
<1>5. CASE \E o \in Objects : NewList(o)
  BY <1>5, <1>2 DEF NewList
<1>6. CASE \E s \in Locals : Save(s) \/ Return(s)
  BY <1>6, <1>2 DEF Save, Return
<1>7. CASE Construct \/ UseHandles \/ Continue \/ Throw \/ Closing
  BY <1>7, <1>2 DEF Construct, UseHandles, Continue, Throw, Closing, Unwind, DropTree,
                    DropSaved, End
<1>8. CASE UNCHANGED vars
  BY <1>8, <1>2 DEF vars
<1> QED BY <1>3, <1>4, <1>5, <1>6, <1>7, <1>8 DEF BNext

(* The builder keeps the types of its own state.                           *)
LEMMA BTypeStep == ASSUME BTypeOK, HTypeOK, [BNext]_vars PROVE BTypeOK'
<1>1. ASSUME NEW o \in Objects, NEW what \in {"node", "list", "declaration"},
             kind' = [kind EXCEPT ![o] = what], UNCHANGED <<exprs_, phase>>
      PROVE  BTypeOK'
  BY <1>1 DEF BTypeOK
<1>2. CASE \E o \in Objects : NewNode(o) \/ NewList(o) \/ NewDeclaration(o)
  BY <1>2, <1>1 DEF NewNode, NewList, NewDeclaration
<1>3. ASSUME NEW s \in Locals, Save(s) PROVE BTypeOK'
  BY <1>3 DEF Save, Unsaved, BTypeOK
<1>4. CASE \E s \in Locals : Return(s)
  BY <1>4 DEF Return, BTypeOK
<1>5. CASE Construct \/ UseHandles \/ Continue \/ UseScopes \/ UNCHANGED vars
  BY <1>5 DEF Construct, UseHandles, Continue, UseScopes, vars, builder, BTypeOK
<1>6. CASE Throw \/ Closing
  BY <1>6 DEF Throw, Closing, Unwind, DropTree, DropSaved, End, builder, BTypeOK
<1> QED BY <1>2, <1>3, <1>4, <1>5, <1>6 DEF BNext

-----------------------------------------------------------------------------

(* A node, a list or a declaration is begun.                               *)
LEMMA MakeKept ==
  ASSUME BInv, NEW o \in Objects, NEW what \in {"node", "list", "declaration"},
         Parsing, New(o), kind' = [kind EXCEPT ![o] = what], UNCHANGED <<exprs_, phase>>,
         UNCHANGED <<root, entries>>
  PROVE  Kept'
<1>1. /\ life[o] = "unborn" /\ life' = [life EXCEPT ![o] = "new"]
      /\ clearing = {} /\ assigning = <<>>
      /\ UNCHANGED <<ptr, count, clearing, assigning>>
  BY DEF New, Idle
<1>2. phase = "parsing" /\ Unsaved = {}
  BY DEF Parsing
<1>3. Unsaved' = {}
  BY <1>1, <1>2 DEF Unsaved, Saved, BInv, HInv, HTypeOK, BTypeOK
<1>4. \A q \in Objects : kind'[q] = "node" => life'[q] \in {"new", "alive"}
  BY <1>1, <1>2 DEF BInv, HInv, HTypeOK, BTypeOK, Kept
<1>5. ASSUME NEW q \in Objects, kind[q] = "node" /\ life[q] = "alive"
      PROVE  kind'[q] = "node" /\ life'[q] = "alive"
  BY <1>5, <1>1 DEF BInv, HInv, HTypeOK, BTypeOK
<1>6. \A s \in ScopeIds :
        /\ root[s] \in Objects \union {Null}
        /\ \A n \in Identifiers : entries[s][n] \in Objects \union {Null}
  BY DEF BInv, SInv, STypeOK
<1>7. \A q \in Objects : Cell(q)' = Cell(q)
  BY DEF Cell
<1> QED BY <1>1, <1>2, <1>3, <1>4, <1>5, <1>6 DEF Kept, BInv, Saved, Cell, Cells

(* While nothing waits to be saved, handles other than the cells may be    *)
(* used at will.                                                           *)
LEMMA UseKept ==
  ASSUME BInv, phase = "parsing", Unsaved = {},
         UNCHANGED <<life, exprs_, kind, phase, root, entries>>,
         \A o \in Objects : ptr'[Cell(o)] = ptr[Cell(o)],
         clearing' \intersect Cells = {},
         assigning' # <<>> => assigning'[1] \notin Cells
  PROVE  Kept'
<1>1. Unsaved' = {}
  BY DEF Unsaved, Saved
<1> QED BY <1>1 DEF Kept, BInv, Saved, Cell, Cells

(* clear() of a slot that is no cell.                                      *)
LEMMA ClearLeavesCells ==
  ASSUME HTypeOK, NEW s \in Slots, s \notin Cells, Clear(s), clearing \intersect Cells = {}
  PROVE  /\ \A o \in Objects : ptr'[Cell(o)] = ptr[Cell(o)]
         /\ clearing' \intersect Cells = {}
  BY CellKinds DEF Clear, HTypeOK

(* Pointing a slot that is no cell leaves the cells alone.                 *)
LEMMA PointLeavesCells ==
  ASSUME HTypeOK, NEW s \in Slots, s \notin Cells, NEW o, Point(s, o)
  PROVE  \A q \in Objects : ptr'[Cell(q)] = ptr[Cell(q)]
  BY CellKinds DEF Point, HTypeOK

(* A constructor runs or ends: a node is now to be saved.                  *)
LEMMA ConstructKept == ASSUME BInv, Construct, phase = "parsing" PROVE Kept'
<1>1. UNCHANGED <<exprs_, kind, phase, root, entries>>
  BY DEF Construct, scopes, builder
<1>2. building \in Objects /\ life[building] = "new" /\ clearing = {} /\ assigning = <<>>
  BY DEF Construct, Wrap, InitMember, BInv, HInv, HTypeOK, BuildingAlone
<1>3. Unsaved = {}
  BY <1>2, NullIsNoObject DEF BInv, Kept, Idle
<1>4. ASSUME NEW s \in Locals, NEW p \in Places, InitMember(p, s) PROVE Kept'
  <2>1. \A q \in Objects : ptr'[Cell(q)] = ptr[Cell(q)]
    BY <1>2, <1>4, PointLeavesCells, CellKinds, SlotKinds DEF InitMember, BInv, HInv
  <2> QED BY <1>1, <1>2, <1>3, <1>4, <2>1, UseKept DEF InitMember
<1>5. ASSUME NEW s \in Locals, Wrap(s) PROVE Kept'
  <2>1. \A q \in Objects : ptr'[Cell(q)] = ptr[Cell(q)]
    BY <1>5, PointLeavesCells, CellKinds DEF Wrap, BInv, HInv
  <2>2. /\ life' = [life EXCEPT ![building] = "alive"]
        /\ Idle'
    BY <1>2, <1>5 DEF Wrap, Idle
  <2>3. \A q \in Objects : life[q] \in {"new", "alive"} => life'[q] \in {"new", "alive"}
    BY <2>2 DEF BInv, HInv, HTypeOK
  <2>4. \A q \in Objects : life[q] = "alive" => life'[q] = "alive"
    BY <2>2 DEF BInv, HInv, HTypeOK
  <2>5. \A s1 \in ScopeIds :
          /\ root[s1] \in Objects \union {Null}
          /\ \A n \in Identifiers : entries[s1][n] \in Objects \union {Null}
    BY DEF BInv, SInv, STypeOK
  <2>6. clearing' = {} /\ assigning' = <<>>
    BY <2>2 DEF Idle
  <2> QED BY <1>1, <2>1, <2>2, <2>3, <2>4, <2>5, <2>6 DEF Kept, BInv, Saved, Cell
<1> QED BY <1>4, <1>5 DEF Construct

(* A node is saved.                                                        *)
LEMMA SaveKept == ASSUME BInv, NEW s \in Locals, Save(s), phase = "parsing" PROVE Kept'
<1>1. PICK o \in Objects : ptr[s] = o /\ o \in Unsaved
  BY DEF Save, Unsaved
<1>2. /\ Point(Cell(o), o) /\ Idle
      /\ UNCHANGED <<life, clearing, building, assigning>>
      /\ exprs_' = Append(exprs_, o)
      /\ UNCHANGED <<kind, phase, root, entries>>
  BY <1>1 DEF Save, Copy, scopes
<1>3. ptr' = [ptr EXCEPT ![Cell(o)] = o]
  BY <1>2 DEF Point
<1>4. \A q \in Objects : q \in Saved' <=> q \in Saved \/ q = o
  <2>1. PICK n \in Nat : n = Len(exprs_)
    BY DEF BInv, BTypeOK
  <2>2. /\ Len(exprs_') = n + 1 /\ exprs_'[n + 1] = o
        /\ \A i \in 1..n : exprs_'[i] = exprs_[i]
    BY <1>2, <2>1 DEF BInv, BTypeOK
  <2>3. 1..(n + 1) = 1..n \union {n + 1}
    OBVIOUS
  <2> QED BY <2>1, <2>2, <2>3 DEF Saved
<1>5. \A q \in Objects : q \in Saved' => ptr'[Cell(q)] = q
  BY <1>1, <1>3, <1>4, CellKinds DEF BInv, Kept, HInv, HTypeOK
<1>6. Idle'
  BY <1>2 DEF Idle
<1> QED BY <1>2, <1>5, <1>6 DEF Kept, BInv, Idle, Saved, Cell, Cells

(* The parser uses its handles.                                            *)
LEMMA UseHandlesKept == ASSUME BInv, UseHandles PROVE Kept'
<1>1. /\ phase = "parsing" /\ Unsaved = {}
      /\ UNCHANGED <<exprs_, kind, phase, root, entries>>
  BY DEF UseHandles, Parsing, scopes, builder
<1>2. HTypeOK /\ clearing \intersect Cells = {}
  BY <1>1 DEF BInv, HInv, Kept
<1>3. ASSUME NEW s \in Locals, Destroy(s) PROVE Kept'
  BY <1>1, <1>2, <1>3, ClearLeavesCells, CellKinds, UseKept DEF Destroy, Idle
<1>4. ASSUME NEW s \in Locals, NEW t \in Locals, Copy(s, t) PROVE Kept'
  <2>1. \A q \in Objects : ptr'[Cell(q)] = ptr[Cell(q)]
    BY <1>2, <1>4, PointLeavesCells, CellKinds DEF Copy
  <2> QED BY <1>1, <1>2, <1>4, <2>1, UseKept DEF Copy, Idle
<1>5. ASSUME NEW s \in Locals, NEW t \in Locals, Assign(s, t) PROVE Kept'
  <2>1. assigning'[1] \notin Cells /\ life' = life
    BY <1>5, CellKinds DEF Assign
  <2>2. CASE ptr[s] # Null /\ Clear(s)
    BY <1>1, <1>2, <2>1, <2>2, ClearLeavesCells, CellKinds, UseKept
  <2>3. CASE UNCHANGED <<ptr, count, clearing>>
    BY <1>1, <1>2, <2>1, <2>3, UseKept
  <2> QED BY <1>5, <2>2, <2>3 DEF Assign
<1>6. ASSUME NEW s \in Locals, NEW t \in Locals, NEW p \in Places, Insert(s, p, t)
      PROVE  Kept'
  <2>1. ptr[s] \in Objects
    BY <1>2, <1>6, CellKinds DEF Insert, HTypeOK
  <2>2. \A q \in Objects : ptr'[Cell(q)] = ptr[Cell(q)]
    BY <1>2, <1>6, <2>1, PointLeavesCells, CellKinds, SlotKinds DEF Insert
  <2> QED BY <1>1, <1>2, <1>6, <2>2, UseKept DEF Insert, Idle
<1> QED BY <1>3, <1>4, <1>5, <1>6 DEF UseHandles

(* A delete goes on: what it frees is no node that the builder has made.   *)
LEMMA ContinueKept == ASSUME BInv, Continue, phase = "parsing" PROVE Kept'
<1>1. UNCHANGED <<exprs_, kind, phase, root, entries>>
  BY DEF Continue, scopes, builder
<1>2. HTypeOK /\ clearing \intersect Cells = {}
  BY DEF BInv, HInv, Kept
<1>3. Unsaved = {}
  BY DEF Continue, FinishAssign, Deleting, Free, DestroyMember, Deletes, BInv, Kept, Idle
<1>4. CASE FinishAssign
  <2>1. PICK s \in Slots : s = assigning[1] /\ s \notin Cells
    BY <1>4, SlotKinds DEF FinishAssign, BInv, HInv, HTypeOK, Kept
  <2>2. \A q \in Objects : ptr'[Cell(q)] = ptr[Cell(q)]
    BY <1>2, <1>4, <2>1, PointLeavesCells DEF FinishAssign
  <2> QED BY <1>1, <1>2, <1>3, <1>4, <2>2, UseKept DEF FinishAssign
<1>5. ASSUME NEW s \in Slots, NEW p \in Places, DestroyMember(s, p) PROVE Kept'
  <2>1. PICK o \in Objects : ptr[s] = o
    BY <1>5 DEF DestroyMember, Deletes, BInv, HInv, HTypeOK, ClearingIsLast
  <2>2. <<o, p>> \in Slots /\ <<o, p>> \notin Cells /\ Clear(<<o, p>>)
    BY <1>5, <2>1, SlotKinds, CellKinds DEF DestroyMember
  <2>3. /\ \A q \in Objects : ptr'[Cell(q)] = ptr[Cell(q)]
        /\ clearing' \intersect Cells = {}
    BY <1>2, <2>2, ClearLeavesCells
  <2>4. life' = life /\ (assigning' # <<>> => assigning'[1] \notin Cells)
    BY <1>5 DEF DestroyMember, BInv, Kept
  <2> QED BY <1>1, <1>3, <2>3, <2>4, UseKept
<1>6. ASSUME NEW s \in Slots, Free(s) PROVE Kept'
  <2>1. PICK o \in Objects : ptr[s] = o /\ count[o] = 0
    BY <1>6 DEF Free, Deletes, BInv, HInv, HTypeOK, ClearingIsLast
  <2>2. /\ s \in clearing /\ s \notin Cells /\ life' = [life EXCEPT ![o] = "dead"]
        /\ ptr' = [ptr EXCEPT ![s] = Null] /\ clearing' = clearing \ {s}
        /\ UNCHANGED <<building, assigning>>
    BY <1>2, <1>6, <2>1 DEF Free, Deletes
  <2>3. Holders(o) = {}
    BY <2>1, HoldersFinite, FS_EmptySet DEF BInv, HInv, CountExact
  <2>4. o \notin Saved
    BY <1>2, <2>3, CellKinds DEF BInv, Kept, Holders
  <2>5. kind[o] # "node"
    <3>1. life[o] = "alive"
      BY <2>1, NullIsNoObject DEF BInv, HInv, HeldIsAlive
    <3>2. kind[o] = "node" => o \in Unsaved
      BY <2>1, <2>4, <3>1 DEF Unsaved
    <3> QED BY <1>3, <3>2
  <2>6. \A q \in Objects : kind[q] = "node" => life'[q] = life[q]
    BY <2>2, <2>5 DEF BInv, HInv, HTypeOK
  <2>7. Unsaved' = {}
    BY <1>1, <1>3, <2>6 DEF Unsaved, Saved
  <2>8. \A q \in Objects : ptr'[Cell(q)] = ptr[Cell(q)]
    BY <1>2, <2>2, CellKinds DEF HTypeOK
  <2>9. \A r \in ScopeIds :
          /\ root[r] \in Objects \union {Null}
          /\ \A n \in Identifiers : entries[r][n] \in Objects \union {Null}
    BY DEF BInv, SInv, STypeOK
  <2> QED BY <1>1, <1>2, <2>2, <2>6, <2>7, <2>8, <2>9 DEF Kept, BInv, Saved, Cell, Cells
<1> QED BY <1>4, <1>5, <1>6 DEF Continue, Deleting

(* Scopes are given nodes that live.                                       *)
LEMMA UseScopesKept == ASSUME BInv, UseScopes PROVE Kept'
<1>1. /\ phase = "parsing" /\ Unsaved = {}
      /\ UNCHANGED <<ptr, life, clearing, assigning, building, exprs_, kind, phase>>
  BY DEF UseScopes, Parsing, handles, builder
<1>2. \A o \in Nodes : kind[o] = "node" /\ life[o] = "alive" /\ o \in Objects
  BY CellKinds DEF Nodes, Is, BInv, HInv, HTypeOK, HeldIsAlive
<1>3. Unsaved' = {}
  BY <1>1 DEF Unsaved, Saved
<1>4. ASSUME NEW s \in ScopeIds, NEW o \in Nodes \union {Null}, NewScope(s, o) PROVE Kept'
  <2>1. root' = [root EXCEPT ![s] = o] /\ entries' = entries
    BY <1>4 DEF NewScope
  <2>2. \A r \in ScopeIds : root'[r] # Null => kind[root'[r]] = "node" /\ life[root'[r]] = "alive"
    BY <1>1, <1>2, <2>1 DEF BInv, Kept, SInv, STypeOK
  <2> QED BY <1>1, <1>3, <2>1, <2>2 DEF Kept, BInv, Saved, Cell, Cells
<1>5. CASE PopScope
  BY <1>1, <1>3, <1>5 DEF PopScope, Kept, BInv, Saved, Cell, Cells
<1>6. ASSUME NEW n \in Identifiers, NEW o \in Nodes, Push(n, o) PROVE Kept'
  <2>1. root' = root /\ entries' = [entries EXCEPT ![current][n] = o]
    BY <1>6 DEF Push
  <2>2. \A r \in ScopeIds, m \in Identifiers :
          entries'[r][m] # Null => kind[entries'[r][m]] = "node" /\ life[entries'[r][m]] = "alive"
    BY <1>1, <1>2, <2>1 DEF BInv, Kept, SInv, STypeOK
  <2> QED BY <1>1, <1>3, <2>1, <2>2 DEF Kept, BInv, Saved, Cell, Cells
<1> QED BY <1>4, <1>5, <1>6 DEF UseScopes

-----------------------------------------------------------------------------

(* Initially nothing is made.                                              *)
LEMMA BInvInit == BInit => BInv
<1> SUFFICES ASSUME BInit PROVE BInv
  OBVIOUS
<1>1. HInv /\ SInv
  BY HInvInit, SInvInit DEF BInit
<1>2. BTypeOK
  BY DEF BInit, BTypeOK
<1>3. Unsaved = {} /\ Saved = {}
  BY DEF BInit, Unsaved, Saved
<1>4. Kept
  BY <1>3 DEF BInit, SInit, HInit, Kept
<1> QED BY <1>1, <1>2, <1>4 DEF BInv

(* Every step keeps the invariant.                                         *)
LEMMA BInvStep == BInv /\ [BNext]_vars => BInv'
<1> SUFFICES ASSUME BInv, [BNext]_vars PROVE BInv'
  OBVIOUS
<1>1. HInv'
  BY BuilderUsesHandles, HInvStep DEF BInv
<1>2. SInv'
  BY BuilderUsesScopes DEF BInv, HInv
<1>3. BTypeOK'
  BY BTypeStep DEF BInv, HInv
<1>4. Kept'
  <2> SUFFICES ASSUME phase' = "parsing" PROVE Kept'
    BY DEF Kept
  <2>1. ASSUME NEW o \in Objects, NewNode(o) \/ NewList(o) \/ NewDeclaration(o) PROVE Kept'
    BY <2>1, MakeKept DEF NewNode, NewList, NewDeclaration, InCurrentScope, scopes
  <2>2. ASSUME NEW s \in Locals, Save(s) PROVE Kept'
    BY <2>2, SaveKept DEF Save
  <2>3. CASE Construct
    BY <2>3, ConstructKept DEF Construct, builder
  <2>4. CASE UseHandles
    BY <2>4, UseHandlesKept
  <2>5. CASE Continue
    BY <2>5, ContinueKept DEF Continue, builder
  <2>6. CASE UseScopes
    BY <2>6, UseScopesKept
  <2>7. ~(\E s \in Locals : Return(s)) /\ ~Throw /\ ~Closing
    BY DEF Return, Throw, Closing, Unwind, DropTree, DropSaved, End, ParserIsGone, builder
  <2>8. CASE UNCHANGED vars
    BY <2>8 DEF vars, handles, scopes, builder, BInv, Kept, Unsaved, Idle, Saved, Cell, Cells
  <2> QED BY <2>1, <2>2, <2>3, <2>4, <2>5, <2>6, <2>7, <2>8 DEF BNext
<1> QED BY <1>1, <1>2, <1>3, <1>4 DEF BInv

(* The invariant holds until the program ends.                             *)
LEMMA BuilderInv == BSpec => []BInv
  BY BInvInit, BInvStep, PTL DEF BSpec

(* The types of everything the builder, its handles and its scopes keep.   *)
THEOREM BuilderTypes == BSpec => []TypeOK
<1>1. BInv => TypeOK
  BY DEF BInv, HInv, SInv, BTypeOK, TypeOK
<1> QED BY <1>1, BuilderInv, PTL

(* Whatever the parser builds, throws away or abandons, every count is    *)
(* the number of handles that hold the object.                             *)
THEOREM BuilderCounts == BSpec => []CountExact
<1>1. BInv => CountExact
  BY DEF BInv, HInv
<1> QED BY <1>1, BuilderInv, PTL

(* No handle dangles, and no object is left that nobody holds.             *)
THEOREM BuilderHandles == BSpec => []HeldIsAlive
<1>1. BInv => HeldIsAlive
  BY DEF BInv, HInv
<1> QED BY <1>1, BuilderInv, PTL

(* Pushed and popped in any order, scopes stay a chain from the global one.*)
THEOREM BuilderScopes == BSpec => []StackIsChain
<1>1. BInv => StackIsChain
  BY DEF BInv, SInv
<1> QED BY <1>1, BuilderInv, PTL

(* While the parser is at work every node made lives, and scopes know no   *)
(* other.                                                                  *)
THEOREM BuilderKeepsNodes == BSpec => []NodesLive
<1>1. BInv => NodesLive
  BY DEF BInv, SInv, STypeOK, Kept, NodesLive, Exists, Get
<1> QED BY <1>1, BuilderInv, PTL

(* The builder and the parser's handles implement ownership.               *)
THEOREM BuilderImplements == BSpec => ImplementsOwnership
<1>1. BInit => HInit
  BY DEF BInit
<1>2. BInv /\ [BNext]_vars => [HNext]_handles
  BY BuilderUsesHandles DEF BInv
<1>3. BSpec => HSpec
  BY <1>1, <1>2, BuilderInv, PTL DEF BSpec, HSpec
<1> QED BY <1>3, HandlesImplementOwnership DEF ImplementsOwnership

=============================================================================
