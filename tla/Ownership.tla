----------------------------- MODULE Ownership -----------------------------
(***************************************************************************)
(* What the handles of include/jast/handle.h promise, without counts: an   *)
(* object that something holds is there, and it goes only when nothing     *)
(* holds it and it holds nothing itself any more.                          *)
(***************************************************************************)
EXTENDS Heap

VARIABLES
  holds,  \* what each slot holds
  life    \* "unborn", "new" while its constructor runs, "alive" or "dead"

Init ==
  /\ holds = [s \in Slots |-> Null]
  /\ life = [o \in Objects |-> "unborn"]

Birth(o) ==
  /\ life[o] = "unborn"
  /\ life' = [life EXCEPT ![o] = "new"]
  /\ UNCHANGED holds

(* An empty slot comes to hold an object, perhaps a new one.               *)
Hold(s, o) ==
  /\ holds[s] = Null
  /\ life[o] \in {"new", "alive"}
  /\ holds' = [holds EXCEPT ![s] = o]
  /\ life' = [life EXCEPT ![o] = "alive"]

Drop(s) ==
  /\ holds' = [holds EXCEPT ![s] = Null]
  /\ UNCHANGED life

Die(o) ==
  /\ life[o] = "alive"
  /\ \A s \in Slots : holds[s] # o
  /\ \A s \in Fields(o) : holds[s] = Null
  /\ life' = [life EXCEPT ![o] = "dead"]
  /\ UNCHANGED holds

Next ==
  \/ \E o \in Objects : Birth(o) \/ Die(o)
  \/ \E s \in Slots : Drop(s) \/ \E o \in Objects : Hold(s, o)

Spec == Init /\ [][Next]_<<holds, life>>

=============================================================================
