------------------------------ MODULE Matcher ------------------------------
(***************************************************************************)
(* FastASTMatcher of src/jast/ast-match.cc.  A call says "true" or         *)
(* "false", fails with an exception ("throw"), dereferences a null handle  *)
(* ("crash") or reads past the end of a vector ("undefined").              *)
(***************************************************************************)
EXTENDS SyntaxTree, FiniteSets

CONSTANTS Trees,   \* the trees that occur, with all their nodes and members
          Height,  \* of each of them: what a node holds is lower
          Pairs    \* the pairs of trees that are matched

(* Trees are finite, made as their classes say, and matched from a node.   *)
ASSUME TreesAreTrees ==
  /\ Height \in [Trees -> Nat]
  /\ {t.parts : t \in Trees} \subseteq Seq(Trees)
  /\ \A t \in Trees :
       IsTree(t) /\ \A i \in 1..Len(t.parts) : Height[t.parts[i]] < Height[t]
  /\ Pairs \subseteq {t \in Trees : IsExpression(t)} \X {t \in Trees : IsExpression(t)}

(* A std::map has its names once, and all maps order them alike.           *)
ASSUME MapsAreOrdered ==
  LET Maps == {t.parts[1].parts : t \in {u \in Trees : u.type = "ObjectLiteral"}}
  IN  \A xs, ys \in Maps : \A i, j \in 1..Len(xs), k, l \in 1..Len(ys) :
        xs[i].data = ys[k].data /\ xs[j].data = ys[l].data => (i < j <=> k < l)

VARIABLES a, b, verdict

Is(condition) == IF condition THEN "true" ELSE "false"

(* x && y: y counts only when x is true.                                   *)
And(x, y) == IF x = "true" THEN y ELSE x

(* x && y && ...                                                           *)
AndAll(verdicts) ==
  LET others == {i \in 1..Len(verdicts) : verdicts[i] # "true"}
  IN  IF others = {} THEN "true" ELSE verdicts[CHOOSE i \in others : \A j \in others : i <= j]

-----------------------------------------------------------------------------
(* The Match functions, which call the function match for the members;     *)
(* those that compare members one by one, in their order, are MatchParts.  *)

MatchParts(x, y, match) == AndAll([i \in 1..Len(x.parts) |-> match[<<x.parts[i], y.parts[i]>>]])

MatchExpressionList(x, y, match) ==
  IF x = Null \/ y = Null THEN "crash"
  ELSE And(Is(Len(x.parts) = Len(y.parts)), MatchParts(x, y, match))

(* Mutant of MatchArrayLiteral: the sizes are not compared.                *)
MatchArrayUnsized(x, y, match) ==
  LET xs == x.parts[1].parts
      ys == y.parts[1].parts
  IN  AndAll([i \in 1..Len(xs) |-> IF i <= Len(ys) THEN match[<<xs[i], ys[i]>>] ELSE "undefined"])

MatchArrayLiteral(x, y, match) ==
  And(Is(Len(x.parts[1].parts) = Len(y.parts[1].parts)), MatchParts(x.parts[1], y.parts[1], match))

(* Mutant of MatchObjectLiteral: the sizes are not compared.               *)
MatchObjectSubset(x, y, match) ==
  LET xs == x.parts[1].parts
      ys == y.parts[1].parts
      Found(p) == {q \in {ys[j] : j \in 1..Len(ys)} : q.data = p.data}
  IN  AndAll([i \in 1..Len(xs) |->
                IF Found(xs[i]) = {} THEN "false"
                ELSE match[<<(CHOOSE q \in Found(xs[i]) : TRUE).parts[1], xs[i].parts[1]>>]])

MatchObjectLiteral(x, y, match) ==
  LET xs == x.parts[1].parts
      ys == y.parts[1].parts
      Found(p) == {q \in {ys[j] : j \in 1..Len(ys)} : q.data = p.data}
  IN  And(Is(Len(xs) = Len(ys)),
          AndAll([i \in 1..Len(xs) |->
                    IF Found(xs[i]) = {} THEN "false"
                    ELSE match[<<(CHOOSE q \in Found(xs[i]) : TRUE).parts[1], xs[i].parts[1]>>]]))

(* Calls and accesses: the member first; the kind is not compared.         *)
MatchMemberExpression(x, y, match) == And(match[<<x.parts[2], y.parts[2]>>], match[<<x.parts[1], y.parts[1]>>])

(* Mutant of MatchValued: operators and names are not compared.            *)
MatchUnvalued(x, y, match) == MatchParts(x, y, match)

(* Prefix, postfix and binary expressions, declarations and labels.        *)
MatchValued(x, y, match) == And(Is(x.data = y.data), MatchParts(x, y, match))

(* The lengths are not compared.                                           *)
MatchDeclarationList(x, y, match) ==
  LET xs == x.parts[1].parts
      ys == y.parts[1].parts
  IN  AndAll([i \in 1..Len(xs) |->
                IF i <= Len(ys) THEN MatchValued(xs[i], ys[i], match) ELSE "undefined"])

HasDefaultCase(clauses) == clauses.parts[Len(clauses.parts)] # Null

(* Mutant of MatchClausesList: the default clauses are not looked at.      *)
MatchCasesOnly(x, y, match) ==
  LET n == Len(x.parts)
  IN  And(Is(HasDefaultCase(x) /\ HasDefaultCase(y) /\ Len(y.parts) = n),
          AndAll([i \in 1..n - 1 |-> MatchParts(x.parts[i], y.parts[i], match)]))

(* The lists must both have a default clause, and these must not match.    *)
MatchClausesList(x, y, match) ==
  LET n == Len(x.parts)
      defaults == match[<<x.parts[n], y.parts[n]>>]
  IN  And(And(Is(HasDefaultCase(x) /\ HasDefaultCase(y) /\ Len(y.parts) = n),
              AndAll([i \in 1..n - 1 |-> MatchParts(x.parts[i], y.parts[i], match)])),
          CASE defaults = "true" -> "false" [] defaults = "false" -> "true"
            [] OTHER -> defaults)

MatchSwitchStatement(x, y, match) ==
  And(match[<<x.parts[1], y.parts[1]>>], MatchClausesList(x.parts[2], y.parts[2], match))

MatchFunctionPrototype(x, y) == Is(x.data = y.data /\ x.parts = y.parts)

MatchFunctionStatement(x, y, match) ==
  And(MatchFunctionPrototype(x.parts[1], y.parts[1]), match[<<x.parts[2], y.parts[2]>>])

(* FastASTMatcher::match; only template literals come to its last case.    *)
MatchExpression(x, y, match) ==
  IF x = Null \/ y = Null THEN Is(x = y)
  ELSE IF x.type # y.type THEN "false"
  ELSE CASE x.type \in {"NullLiteral", "UndefinedLiteral", "ThisHolder"} -> "true"
         [] x.type \in {"IntegralLiteral", "StringLiteral", "Identifier", "BooleanLiteral"} ->
              Is(x.data = y.data)
         [] x.type = "ArrayLiteral" -> MatchArrayLiteral(x, y, match)
         [] x.type = "ObjectLiteral" -> MatchObjectLiteral(x, y, match)
         [] x.type = "RegExpLiteral" -> "false"
         [] x.type \in {"ArgumentList", "CommaExpression", "BlockStatement"} ->
              MatchExpressionList(x.parts[1], y.parts[1], match)
         [] x.type \in {"CallExpression", "MemberExpression"} ->
              MatchMemberExpression(x, y, match)
         [] x.type \in {"PrefixExpression", "PostfixExpression", "BinaryExpression",
                        "Declaration", "LabelledStatement"} -> MatchValued(x, y, match)
         [] x.type = "DeclarationList" -> MatchDeclarationList(x, y, match)
         [] x.type = "SwitchStatement" -> MatchSwitchStatement(x, y, match)
         [] x.type = "FunctionPrototype" -> MatchFunctionPrototype(x, y)
         [] x.type = "FunctionStatement" -> MatchFunctionStatement(x, y, match)
         [] x.type \in {"NewExpression", "AssignExpression", "TernaryExpression",
                        "ForStatement", "WhileStatement", "DoWhileStatement",
                        "BreakStatement", "ContinueStatement", "ThrowStatement",
                        "TryCatchStatement", "CaseClauseStatement", "IfStatement",
                        "IfElseStatement", "ReturnStatement"} -> MatchParts(x, y, match)
         [] OTHER -> "throw"

match[pair \in Trees \X Trees] == MatchExpression(pair[1], pair[2], match)

-----------------------------------------------------------------------------

Init == /\ \E pair \in Pairs : a = pair[1] /\ b = pair[2]
        /\ verdict = "none"

Match == verdict = "none" /\ verdict' = match[<<a, b>>] /\ UNCHANGED <<a, b>>

Answered == verdict # "none" /\ UNCHANGED <<a, b, verdict>>

Next == Match \/ Answered

Spec == Init /\ [][Next]_<<a, b, verdict>>

-----------------------------------------------------------------------------

Nodes[t \in Trees] == {t} \union UNION {Nodes[t.parts[i]] : i \in 1..Len(t.parts)}

Contains(t, types) == \E n \in Nodes[t] : n.type \in types

NullArguments == Node("ArgumentList", "", <<Null>>)

(* Nodes that look alike, but for the kinds of accesses and loops.         *)
SameNode(x, y) ==
  /\ x.type = y.type /\ Len(x.parts) = Len(y.parts)
  /\ x.data = y.data \/ x.type \in {"CallExpression", "MemberExpression", "ForStatement"}

(* Trees of such nodes.                                                    *)
Alike[pair \in Trees \X Trees] ==
  LET x == pair[1]
      y == pair[2]
  IN  SameNode(x, y) /\ \A i \in 1..Len(x.parts) : Alike[<<x.parts[i], y.parts[i]>>]

IsDefault(t, i) == t.type = "ClausesList" /\ i = Len(t.parts)

(* Trees that are alike but for the default clauses of switch statements.  *)
AlikeButDefaults[pair \in Trees \X Trees] ==
  LET x == pair[1]
      y == pair[2]
  IN  /\ SameNode(x, y)
      /\ \A i \in 1..Len(x.parts) :
           IsDefault(x, i) \/ AlikeButDefaults[<<x.parts[i], y.parts[i]>>]

(* Trees match exactly when they are equal but for access and loop kinds,  *)
(* at any depth.  Five kinds of node are excepted, for which the code does *)
(* something else: regular expressions and templates, switch statements,   *)
(* declaration lists, and calls without arguments.                         *)
Ordinary(t) ==
  /\ ~Contains(t, {"RegExpLiteral", "TemplateLiteral", "SwitchStatement", "DeclarationList"})
  /\ NullArguments \notin Nodes[t]

MatchIffEqual ==
  verdict # "none" /\ Ordinary(a) /\ Ordinary(b) => verdict = Is(Alike[<<a, b>>])

(* The default clause of a switch in the tree is no ordinary one.          *)
OddDefault(t) ==
  \E n \in Nodes[t] : n.type = "ClausesList" /\ ~Ordinary(n.parts[Len(n.parts)])

(* Trees of whatever nodes, declaration lists excepted, match only if they *)
(* are equal up to kinds and default clauses.  And no tree matches itself  *)
(* that has a switch or a regular expression in it, but for one: a default *)
(* clause that does not match itself makes its switch match.               *)
TrueMeansAlike ==
  verdict = "true" /\ ~Contains(a, {"DeclarationList"}) =>
    /\ AlikeButDefaults[<<a, b>>]
    /\ Contains(a, {"SwitchStatement", "RegExpLiteral"}) => a # b \/ OddDefault(a)

(* The matcher fails only when both trees have a node of the same kind it  *)
(* is not ready for: a template, an argument list that ParseArgumentList   *)
(* left null on one side, or declaration lists of different lengths.       *)
MatchFailsOnlyFor ==
  /\ verdict = "throw" => Contains(a, {"TemplateLiteral"}) /\ Contains(b, {"TemplateLiteral"})
  /\ verdict = "crash" =>
       /\ NullArguments \in Nodes[a] \union Nodes[b]
       /\ Contains(a, {"ArgumentList"}) /\ Contains(b, {"ArgumentList"})
  /\ verdict = "undefined" =>
       \E x \in Nodes[a], y \in Nodes[b] :
         /\ x.type = "DeclarationList" /\ y.type = "DeclarationList"
         /\ Len(x.parts[1].parts) # Len(y.parts[1].parts)

(* The order of the arguments does not matter, declaration lists excepted: *)
(* not to a match, switch statements excepted, and not even to a failure,  *)
(* object literals excepted.  Their properties are looked up in the order  *)
(* of the first one's names, and one that the second has not ends this,    *)
(* before or after a property whose values cannot be matched.              *)
Symmetric ==
  verdict # "none" /\ ~Contains(a, {"DeclarationList"}) =>
    /\ ~Contains(a, {"ObjectLiteral"}) => match[<<b, a>>] = verdict
    /\ ~Contains(a, {"SwitchStatement"}) => (match[<<b, a>>] = "true" <=> verdict = "true")

=============================================================================
