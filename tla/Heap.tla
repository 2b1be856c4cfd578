-------------------------------- MODULE Heap --------------------------------
(***************************************************************************)
(* Objects on the heap, and the slots that hold handles to them: variables *)
(* or elements of a container, and the members of the objects themselves.  *)
(***************************************************************************)
EXTENDS Naturals, FiniteSets

CONSTANTS
  Vars,     \* handles that are no members of objects
  Objects,  \* what handles point to
  Places,   \* the handles an object may hold itself
  Null

Fields(o) == {o} \X Places
Slots == Vars \union (Objects \X Places)

ASSUME ObjectsAreNumbered == Objects \subseteq Nat
ASSUME SlotsAreFinite == IsFiniteSet(Slots)
ASSUME NullIsNoObject == Null \notin Objects
ASSUME VarsAreNoFields == Vars \intersect (Objects \X Places) = {}

=============================================================================
