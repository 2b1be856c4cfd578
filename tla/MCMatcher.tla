----------------------------- MODULE MCMatcher -----------------------------
(***************************************************************************)
(* Pairs of trees: every class with all combinations of a few leaves, and  *)
(* each node that holds an expression with an awkward one inside.          *)
(***************************************************************************)
EXTENDS Matcher, FiniteSetsExt

X == Node("Identifier", "x", <<>>)
Y == Node("Identifier", "y", <<>>)
Leaf == {Null, X, Y}

UpTo(n, elements) == UNION {[1..k -> elements] : k \in 0..n}
Declarations == {Node("Declaration", name, <<e>>) : name \in {"x", "y"}, e \in {Null, X}}
Case(e) == Node("CaseClauseStatement", "", <<e, X>>)
Prototype(names) == Node("FunctionPrototype", "x", <<Vector(names)>>)
Named(e) == Node("name", e, <<>>)

Members(part) ==
  CASE part = "expr" -> Leaf
    [] part = "args" -> {Null} \union {ExpressionList(s) : s \in UpTo(2, {X, Y})}
    [] part = "list" -> {ExpressionList(s) : s \in UpTo(2, {X, Y})}
    [] part = "exprs" -> {Vector(s) : s \in UpTo(2, {X, Y})}
    [] part = "props" -> {Vector(<<>>)} \union {Vector(<<Property(n, e)>>) : n \in {"x", "y"}, e \in Leaf}
                         \union {Vector(<<Property("x", d), Property("y", e)>>) : d, e \in Leaf}
    [] part = "decls" -> {Vector(s) : s \in UpTo(2, Declarations)}
    [] part = "clauses" -> {ClausesList(s, d) : s \in UpTo(2, {Case(X), Case(Y)}), d \in Leaf}
    [] part = "names" -> {Vector(s) : s \in UpTo(2, {Named("x"), Named("y")})}
    [] part = "proto" -> {Prototype(<<>>), Prototype(<<Named("x")>>)}

Combinations(type) ==
  LET parts == AST_NODE_LIST[type].parts
  IN  CASE Len(parts) = 0 -> {<<>>}
        [] Len(parts) = 1 -> {<<p>> : p \in Members(parts[1])}
        [] Len(parts) = 2 -> {<<p, q>> : p \in Members(parts[1]), q \in Members(parts[2])}
        [] Len(parts) = 3 -> {<<p, q, r>> : p, q, r \in Leaf}
        [] Len(parts) = 4 -> {<<p, q, r, s>> : p \in {X, Y}, q, r, s \in {Null, X}}

(* All shallow trees of a type.                                            *)
Values(type) == IF AST_NODE_LIST[type].valued THEN {"x", "y"} ELSE {""}

Shallow(type) == {Node(type, d, p) : d \in Values(type), p \in Combinations(type)}

Awkward ==
  LET Clauses2(d) == ClausesList(<<Case(X)>>, d)
      List(s) == Node("DeclarationList", "", <<Vector(s)>>)
      Declared(name) == Node("Declaration", name, <<Null>>)
  IN  { Null, X, Node("RegExpLiteral", "x", <<>>), Node("TemplateLiteral", "x", <<>>), NullArguments,
        Node("ArgumentList", "", <<ExpressionList(<<X>>)>>),
        Node("SwitchStatement", "", <<X, Clauses2(X)>>), Node("SwitchStatement", "", <<X, Clauses2(Y)>>),
        List(<<Declared("x")>>), List(<<Declared("x"), Declared("y")>>),
        Node("ForStatement", "x", <<X, Null, Null, X>>),
        Node("MemberExpression", "x", <<X, Node("RegExpLiteral", "x", <<>>)>>),
        Node("MemberExpression", "x", <<X, NullArguments>>) }

(* A node of the type with an awkward node in one place and x in others.   *)
Deep(type) ==
  LET parts == AST_NODE_LIST[type].parts
      Filled(i, e) == [k \in 1..Len(parts) |-> IF k = i THEN e ELSE X]
      Around(e) ==
        CASE parts \in {<<"list">>, <<"args">>} -> {<<ExpressionList(<<X, e>>)>>}
          [] parts = <<"exprs">> -> {<<Vector(<<e, X>>)>>}
          [] parts = <<"props">> -> {<<Vector(<<Property("x", e)>>)>>}
          [] parts = <<"decls">> -> {<<Vector(<<Node("Declaration", "x", <<e>>)>>)>>}
          [] parts = <<"expr", "clauses">> ->
               {<<e, ClausesList(<<>>, X)>>, <<X, ClausesList(<<Case(e)>>, X)>>,
                <<X, ClausesList(<<>>, e)>>}
          [] parts = <<"proto", "expr">> -> {<<Prototype(<<>>), e>>}
          [] \A i \in 1..Len(parts) : parts[i] = "expr" -> {Filled(i, e) : i \in 1..Len(parts)}
          [] OTHER -> {}
      data == IF AST_NODE_LIST[type].valued THEN "x" ELSE ""
  IN  {Node(type, data, p) : p \in UNION {Around(e) : e \in Awkward}}

(* Objects that share a name which is not the first, with a template to it. *)
Objects ==
  LET Template == Node("TemplateLiteral", "x", <<>>)
      Object(props) == Node("ObjectLiteral", "", <<Vector(props)>>)
      Either(name) == {Property(name, X), Property(name, Template)}
  IN  UNION {{Object(<<p, q>>) : p \in Either(n[1]), q \in Either(n[2])} :
             n \in {<<"x", "y">>, <<"x", "z">>, <<"y", "z">>}}

Types == DOMAIN AST_NODE_LIST

MCPairs ==
  LET Sets == {Awkward, Objects} \union {Shallow(t) : t \in Types} \union {Deep(t) : t \in Types}
      One(t) == CHOOSE n \in Shallow(t) : Null \notin {n.parts[i] : i \in 1..Len(n.parts)}
      Ones == {One(t) : t \in Types}
  IN  UNION {S \X S : S \in Sets \union {Ones}}

(* What these trees hold, no tree being more than eight nodes deep.        *)
Parts(t) == {t.parts[i] : i \in 1..Len(t.parts)}

WithParts[n \in 0..8] ==
  IF n = 0 THEN UNION {{pair[1], pair[2]} : pair \in MCPairs}
  ELSE UNION {{t} \union Parts(t) : t \in WithParts[n - 1]}

MCTrees == WithParts[8]

MCHeight[t \in MCTrees] == 1 + Max({MCHeight[p] : p \in Parts(t)} \union {0})

=============================================================================
