----------------------------- MODULE ParserTrees -----------------------------
(***************************************************************************)
(* What the trees of the parser should be: the grammar of expressions, by  *)
(* splitting a text at its loosest operator, and what statements keep.     *)
(***************************************************************************)
EXTENDS Parser

(* Positions of input[i..j] inside none of its brackets, and the brackets  *)
(* themselves.                                                             *)
Closing == {"RPAREN", "RBRACK", "RBRACE"}

Depth(i, k) ==
  Cardinality({n \in i..k : input[n] \in Opening}) - Cardinality({n \in i..k - 1 : input[n] \in Closing})

Outer(i, j) == {k \in i..j : Depth(i, k) = IF input[k] \in Opening THEN 1 ELSE 0}

(* An operand ends at k; an operator at k has one on its left.             *)
EndsOperand(k) == TypeOf(input[k]) \in LiteralTypes \union Closing \/ AfterDot(k)

AfterOperand(i, k) ==
  /\ k > i /\ ~AfterDot(k)
  /\ \/ EndsOperand(k - 1)
     \/ input[k - 1] \in {"INC", "DEC"} /\ k - 1 > i /\ EndsOperand(k - 2)

First(S) == CHOOSE k \in S : \A n \in S : k <= n
Last(S) == CHOOSE k \in S : \A n \in S : n <= k

(* The tree of the tokens i..j read as an expression.                      *)
RECURSIVE Tree(_, _)
Tree(i, j) ==
  LET outer == Outer(i, j)
      commas == {k \in outer : input[k] = "COMMA"}
      choices == {k \in outer : input[k] \in AssignTypes \union {"CONDITIONAL"}}
      loosest == {k \in outer : AfterOperand(i, k) /\ Precedence(input[k]) >= 3}
      op == Last({k \in loosest : \A n \in loosest : Precedence(input[k]) <= Precedence(input[n])})
      \* the colon of the conditional at k
      Colon(k) == First({n \in outer : n > k /\ input[n] = "COLON" /\
                     Cardinality({m \in outer : m > k /\ m < n /\ input[m] = "CONDITIONAL"}) =
                     Cardinality({m \in outer : m > k /\ m < n /\ input[m] = "COLON"})})
      \* the expressions between the separators in S, from first to last
      Pieces(S, first, last) ==
        LET cuts == S \union {first - 1, last + 1}
            start(n) == Last({k \in cuts : Cardinality({m \in cuts : m < k}) = n - 1}) + 1
        IN  [n \in 1..Cardinality(cuts) - 1 |-> Tree(start(n), start(n + 1) - 2)]
      \* the bracket that ends at j opens here
      open == Last({k \in outer : input[k] \in Opening})
      inside == {k \in Outer(open + 1, j - 1) : input[k] = "COMMA"}
      list == IF open + 1 = j THEN <<>> ELSE Pieces(inside, open + 1, j - 1)
  IN
  CASE commas # {} -> Node("comma", "", Pieces(commas, i, j))
    [] commas = {} /\ choices # {} ->
         LET k == First(choices) IN
         IF input[k] = "CONDITIONAL"
         THEN Node("ternary", "",
                   <<Tree(i, k - 1), Tree(k + 1, Colon(k) - 1), Tree(Colon(k) + 1, j)>>)
         ELSE Node("assign", "", <<Tree(i, k - 1), Tree(k + 1, j)>>)
    [] commas = {} /\ choices = {} /\ loosest # {} ->
         Node("binary", input[op], <<Tree(i, op - 1), Tree(op + 1, j)>>)
    [] commas = {} /\ choices = {} /\ loosest = {} ->
         CASE input[i] \in PrefixTypes -> Node("prefix", input[i], <<Tree(i + 1, j)>>)
           [] input[i] \in {"ADD", "SUB"} -> Node("times", input[i], <<Tree(i + 1, j)>>)
           [] input[j] \in {"INC", "DEC"} -> Node("postfix", input[j], <<Tree(i, j - 1)>>)
           [] input[i] = "NEW" -> Node("new", "", <<Tree(i + 1, j)>>)
           [] i = j -> Leaf(i)
           [] input[j] \in Closing /\ open = i ->
                IF input[i] = "LPAREN" THEN Tree(i + 1, j - 1) ELSE Node("array", "", list)
           [] input[j] = "RBRACK" /\ open > i ->
                Node("index", "", <<Tree(i, open - 1), Tree(open + 1, j - 1)>>)
           [] input[j] = "RPAREN" /\ open > i ->
                Node("call", "",
                     <<Tree(i, open - 1)>> \o (IF list = <<>> THEN <<Null>> ELSE list))
           [] OTHER -> Node("dot", "", <<Tree(i, j - 2), Leaf(j)>>)

(* Every expression statement, however its operators nest, chain and       *)
(* follow one another, is parsed into the tree precedence and              *)
(* associativity give it: binary operators of one level group to the left, *)
(* assignments and conditionals to the right, prefix operators bind closer *)
(* than binary ones and accesses closer than both.                         *)
TreeFollowsPrecedence ==
  At("Expression.end") /\ peek = "SEMICOLON" /\ ~Has("LBRACE") /\ ~Has("FUNCTION") =>
    ret = Tree(Top.from, here - 1)

RECURSIVE Leaves(_)
Leaves(node) ==
  IF node.kind = "leaf" THEN {node.at}
  ELSE UNION ({Leaves(node.kids[k]) : k \in 1..Len(node.kids)} \union {{}})

Operand(i) == TypeOf(input[i]) \in LiteralTypes

(* An accepted text has all its names and literals in its tree: no part of *)
(* a statement is parsed and then dropped.  Object literals are left out:  *)
(* a later property replaces an earlier one of the same name.              *)
NothingDropped ==
  status = "done" /\ (\A i \in 1..here : ~IsObject(i)) =>
    {i \in 1..here : Operand(i)} \ braces \subseteq Leaves(ret)

=============================================================================
