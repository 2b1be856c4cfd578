---------------------------- MODULE SampleTrees ----------------------------
(***************************************************************************)
(* What is printed, compared with the tree and the text it comes from.     *)
(***************************************************************************)
EXTENDS Sample, ParserTrees

RECURSIVE IfElses(_)
IfElses(node) ==
  LET below[i \in 0..Len(node.kids)] ==
        IF i = 0 THEN 0 ELSE below[i - 1] + IfElses(node.kids[i])
  IN  below[Len(node.kids)] + IF node.kind = "if" /\ Len(node.kids) = 3 THEN 1 ELSE 0

(* One brace stays open for every if-else printed, and no other.           *)
OpenBracesAreIfElses == fate = "printed" => Len(opened) = IfElses(ret)

Ascending(S) ==
  LET below(i) == Cardinality({j \in S : j <= i})
  IN  [n \in 1..Cardinality(S) |-> CHOOSE i \in S : below(i) = n]

(* The printer shows every name and literal of the text, once and in the   *)
(* order of the text.  Four things of the parser break this and are left   *)
(* out: labels of break and continue, read a second time as a statement;   *)
(* consecutive cases, which share a block; a default clause, printed last; *)
(* and object literals, printed by the names of their properties.          *)
Reordered ==
  \/ \E i \in 1..here - 1 :
       \/ input[i] \in {"BREAK", "CONTINUE"} /\ TypeOf(input[i + 1]) = "IDENTIFIER"
       \/ IsObject(i)
  \/ Cardinality({i \in 1..here : input[i] = "CASE"}) > 1
  \/ Has("DEFAULT")

ShowsTheText ==
  fate = "printed" /\ ~Reordered =>
    shown = Ascending({i \in 1..here : Operand(i) \/ AfterDot(i)} \ braces)

=============================================================================
