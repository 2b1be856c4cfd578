----------------------------- MODULE SyntaxTree -----------------------------
(***************************************************************************)
(* The nodes of include/jast/expression.h and statement.h: for each class  *)
(* whether it holds a value of its own (a name, a number, an operator, an  *)
(* access kind) and which handles it holds, in the order of its members.   *)
(***************************************************************************)
EXTENDS Integers, Sequences

Node(type, data, parts) == [type |-> type, data |-> data, parts |-> parts]

(* A null handle.                                                          *)
Null == Node("nullptr", "", <<>>)

(* What a member is: "expr" a Handle<Expression>, which may be null;       *)
(* "list" and "args" a Handle<ExpressionList>, only the latter ever null;  *)
(* "exprs", "props", "names" and "decls" a vector or map held by value;    *)
(* "clauses" a Handle<ClausesList>, "proto" a Handle<FunctionPrototype>.   *)
Shape(valued, parts) == [valued |-> valued, parts |-> parts]

Literals ==
  [NullLiteral |-> Shape(FALSE, <<>>), UndefinedLiteral |-> Shape(FALSE, <<>>),
   ThisHolder |-> Shape(FALSE, <<>>), IntegralLiteral |-> Shape(TRUE, <<>>),
   StringLiteral |-> Shape(TRUE, <<>>), TemplateLiteral |-> Shape(TRUE, <<>>),
   ArrayLiteral |-> Shape(FALSE, <<"exprs">>), ObjectLiteral |-> Shape(FALSE, <<"props">>),
   Identifier |-> Shape(TRUE, <<>>), BooleanLiteral |-> Shape(TRUE, <<>>),
   RegExpLiteral |-> Shape(TRUE, <<>>)]

Accesses ==
  [ArgumentList |-> Shape(FALSE, <<"args">>),
   CallExpression |-> Shape(TRUE, <<"expr", "expr">>),
   MemberExpression |-> Shape(TRUE, <<"expr", "expr">>),
   NewExpression |-> Shape(FALSE, <<"expr">>)]

Operations ==
  [PrefixExpression |-> Shape(TRUE, <<"expr">>), PostfixExpression |-> Shape(TRUE, <<"expr">>),
   BinaryExpression |-> Shape(TRUE, <<"expr", "expr">>),
   AssignExpression |-> Shape(FALSE, <<"expr", "expr">>),
   TernaryExpression |-> Shape(FALSE, <<"expr", "expr", "expr">>),
   CommaExpression |-> Shape(FALSE, <<"list">>),
   Declaration |-> Shape(TRUE, <<"expr">>), DeclarationList |-> Shape(FALSE, <<"decls">>)]

Statements ==
  [BlockStatement |-> Shape(FALSE, <<"list">>),
   ForStatement |-> Shape(TRUE, <<"expr", "expr", "expr", "expr">>),
   WhileStatement |-> Shape(FALSE, <<"expr", "expr">>),
   BreakStatement |-> Shape(FALSE, <<"expr">>), ContinueStatement |-> Shape(FALSE, <<"expr">>),
   ThrowStatement |-> Shape(FALSE, <<"expr">>),
   TryCatchStatement |-> Shape(FALSE, <<"expr", "expr", "expr", "expr">>),
   LabelledStatement |-> Shape(TRUE, <<"expr">>)]

Clauses ==
  [CaseClauseStatement |-> Shape(FALSE, <<"expr", "expr">>),
   SwitchStatement |-> Shape(FALSE, <<"expr", "clauses">>),
   DoWhileStatement |-> Shape(FALSE, <<"expr", "expr">>)]

Functions ==
  [FunctionPrototype |-> Shape(TRUE, <<"names">>),
   FunctionStatement |-> Shape(FALSE, <<"proto", "expr">>),
   IfStatement |-> Shape(FALSE, <<"expr", "expr">>),
   IfElseStatement |-> Shape(FALSE, <<"expr", "expr", "expr">>),
   ReturnStatement |-> Shape(FALSE, <<"expr">>)]

(* AST_NODE_LIST: the classes with their shapes.                           *)
AST_NODE_LIST ==
  [type \in DOMAIN Literals \union DOMAIN Accesses \union DOMAIN Operations \union
            DOMAIN Statements \union DOMAIN Clauses \union DOMAIN Functions |->
     CASE type \in DOMAIN Literals -> Literals[type]
       [] type \in DOMAIN Accesses -> Accesses[type]
       [] type \in DOMAIN Operations -> Operations[type]
       [] type \in DOMAIN Statements -> Statements[type]
       [] type \in DOMAIN Clauses -> Clauses[type]
       [] type \in DOMAIN Functions -> Functions[type]]

(* The members that are no nodes: an ExpressionList or a vector holds its  *)
(* elements, a map its properties in the order of their names, a           *)
(* ClausesList its cases and then its default.                             *)
ExpressionList(exprs) == Node("ExpressionList", "", exprs)
Vector(elements) == Node("vector", "", elements)
Property(name, value) == Node("property", name, <<value>>)
ClausesList(cases, default) == Node("ClausesList", "", Append(cases, default))

-----------------------------------------------------------------------------

(* What a Handle<Expression> may point to.                                 *)
IsExpression(t) == t = Null \/ t.type \in DOMAIN AST_NODE_LIST

(* What the vectors and maps have as elements.                             *)
IsElement(part, e) ==
  \/ part = "exprs" /\ IsExpression(e)
  \/ part = "props" /\ e.type = "property"
  \/ part = "decls" /\ e.type = "Declaration"
  \/ part = "names" /\ e.type = "name"

(* What a member can be, and what a node of each kind consists of.         *)
IsMember(part, p) ==
  \/ part = "expr" /\ IsExpression(p)
  \/ part \in {"list", "args"} /\ p.type = "ExpressionList"
  \/ part = "args" /\ p = Null
  \/ part = "clauses" /\ p.type = "ClausesList"
  \/ part = "proto" /\ p.type = "FunctionPrototype"
  \/ /\ part \in {"exprs", "props", "decls", "names"} /\ p.type = "vector"
     /\ \A i \in 1..Len(p.parts) : IsElement(part, p.parts[i])

IsNode(t) ==
  /\ t.type \in DOMAIN AST_NODE_LIST
  /\ LET class == AST_NODE_LIST[t.type]
     IN  /\ class.valued \/ t.data = ""
         /\ Len(t.parts) = Len(class.parts)
         /\ \A i \in 1..Len(t.parts) : IsMember(class.parts[i], t.parts[i])

IsClausesList(t) ==
  LET n == Len(t.parts)
  IN  /\ t.type = "ClausesList" /\ n > 0
      /\ \A i \in 1..n - 1 : t.parts[i].type = "CaseClauseStatement"
      /\ IsExpression(t.parts[n])

IsExpressionList(t) ==
  t.type = "ExpressionList" /\ \A i \in 1..Len(t.parts) : IsExpression(t.parts[i])

IsTree(t) ==
  /\ t = Node(t.type, t.data, t.parts)
  /\ \/ t = Null \/ IsNode(t)
     \/ t.data = "" /\ (IsClausesList(t) \/ IsExpressionList(t) \/ t.type = "vector")
     \/ t.type = "property" /\ Len(t.parts) = 1 /\ IsExpression(t.parts[1])
     \/ t.type = "name" /\ t.parts = <<>>

=============================================================================
