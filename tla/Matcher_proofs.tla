--------------------------- MODULE Matcher_proofs ---------------------------
(***************************************************************************)
(* What FastASTMatcher::match of ast-match.cc answers for two trees,       *)
(* whatever trees there are and however high.                              *)
(*                                                                         *)
(* The state of the matcher is a pair of trees and its verdict, so all     *)
(* that there is to say is about the recursive functions of Matcher. They  *)
(* exist, because trees are finite (RecursiveFunctions, MatchIs, AlikeIs,  *)
(* NodesAre). What a function answers for a pair depends on pairs of lower *)
(* rank, and PairInduction goes over these; for each pair there is one     *)
(* case for each kind of pair of PairKinds. Most nodes are regular:        *)
(* something of their own is compared, and then the nodes below them one   *)
(* after the other (RegularMatch). Failures come up from a pair of nodes   *)
(* that fails (FailureSource), and properties of objects that match are    *)
(* found each in its own place, since maps are ordered                     *)
(* (IncreasingIsIdentity, ObjectTrue).                                     *)
(***************************************************************************)
EXTENDS Matcher, WellFoundedInduction, TLAPS

(* The classes by the kinds of their members.                              *)
Valued == {"IntegralLiteral", "StringLiteral", "Identifier", "BooleanLiteral"}

Constants == {"NullLiteral", "UndefinedLiteral", "ThisHolder"}

Accessing == {"CallExpression", "MemberExpression"}

Named == {"PrefixExpression", "PostfixExpression", "BinaryExpression", "Declaration",
          "LabelledStatement"}

Plain == {"NewExpression", "AssignExpression", "TernaryExpression", "ForStatement",
          "WhileStatement", "DoWhileStatement", "BreakStatement", "ContinueStatement",
          "ThrowStatement", "TryCatchStatement", "CaseClauseStatement", "IfStatement",
          "IfElseStatement", "ReturnStatement"}

Listing == {"ArgumentList", "CommaExpression", "BlockStatement"}

Others == {"ArrayLiteral", "ObjectLiteral", "RegExpLiteral", "TemplateLiteral",
           "DeclarationList", "SwitchStatement", "FunctionPrototype", "FunctionStatement"}

LEMMA LiteralClasses ==
  /\ DOMAIN Literals = Constants \union Valued \union
       {"TemplateLiteral", "ArrayLiteral", "ObjectLiteral", "RegExpLiteral"}
  /\ \A t \in Constants : Literals[t] = Shape(FALSE, <<>>)
  /\ \A t \in Valued \union {"TemplateLiteral", "RegExpLiteral"} : Literals[t] = Shape(TRUE, <<>>)
  /\ Literals["ArrayLiteral"] = Shape(FALSE, <<"exprs">>)
  /\ Literals["ObjectLiteral"] = Shape(FALSE, <<"props">>)
  BY DEF Literals, Constants, Valued

LEMMA AccessClasses ==
  /\ DOMAIN Accesses = Accessing \union {"ArgumentList", "NewExpression"}
  /\ \A t \in Accessing : Accesses[t] = Shape(TRUE, <<"expr", "expr">>)
  /\ Accesses["ArgumentList"] = Shape(FALSE, <<"args">>)
  /\ Accesses["NewExpression"] = Shape(FALSE, <<"expr">>)
  BY DEF Accesses, Accessing

LEMMA OperationClasses ==
  /\ DOMAIN Operations = {"PrefixExpression", "PostfixExpression", "BinaryExpression",
       "AssignExpression", "TernaryExpression", "CommaExpression", "Declaration",
       "DeclarationList"}
  /\ \A t \in {"PrefixExpression", "PostfixExpression", "Declaration"} :
       Operations[t] = Shape(TRUE, <<"expr">>)
  /\ Operations["BinaryExpression"] = Shape(TRUE, <<"expr", "expr">>)
  /\ Operations["AssignExpression"] = Shape(FALSE, <<"expr", "expr">>)
  /\ Operations["TernaryExpression"] = Shape(FALSE, <<"expr", "expr", "expr">>)
  /\ Operations["CommaExpression"] = Shape(FALSE, <<"list">>)
  /\ Operations["DeclarationList"] = Shape(FALSE, <<"decls">>)
  BY DEF Operations

LEMMA StatementClasses ==
  /\ DOMAIN Statements = {"BlockStatement", "ForStatement", "WhileStatement", "BreakStatement",
       "ContinueStatement", "ThrowStatement", "TryCatchStatement", "LabelledStatement"}
  /\ Statements["BlockStatement"] = Shape(FALSE, <<"list">>)
  /\ Statements["ForStatement"] = Shape(TRUE, <<"expr", "expr", "expr", "expr">>)
  /\ Statements["WhileStatement"] = Shape(FALSE, <<"expr", "expr">>)
  /\ \A t \in {"BreakStatement", "ContinueStatement", "ThrowStatement"} :
       Statements[t] = Shape(FALSE, <<"expr">>)
  /\ Statements["TryCatchStatement"] = Shape(FALSE, <<"expr", "expr", "expr", "expr">>)
  /\ Statements["LabelledStatement"] = Shape(TRUE, <<"expr">>)
  BY DEF Statements

LEMMA ClauseClasses ==
  /\ DOMAIN Clauses = {"CaseClauseStatement", "SwitchStatement", "DoWhileStatement"}
  /\ \A t \in {"CaseClauseStatement", "DoWhileStatement"} :
       Clauses[t] = Shape(FALSE, <<"expr", "expr">>)
  /\ Clauses["SwitchStatement"] = Shape(FALSE, <<"expr", "clauses">>)
  BY DEF Clauses

LEMMA FunctionClasses ==
  /\ DOMAIN Functions = {"FunctionPrototype", "FunctionStatement", "IfStatement",
       "IfElseStatement", "ReturnStatement"}
  /\ Functions["FunctionPrototype"] = Shape(TRUE, <<"names">>)
  /\ Functions["FunctionStatement"] = Shape(FALSE, <<"proto", "expr">>)
  /\ Functions["IfStatement"] = Shape(FALSE, <<"expr", "expr">>)
  /\ Functions["IfElseStatement"] = Shape(FALSE, <<"expr", "expr", "expr">>)
  /\ Functions["ReturnStatement"] = Shape(FALSE, <<"expr">>)
  BY DEF Functions

(* What the table of all classes says of each kind.                        *)
Classes == Constants \union Valued \union Accessing \union Named \union Plain
             \union Listing \union Others

LEMMA TableJoins ==
  /\ DOMAIN AST_NODE_LIST = Classes
  /\ \A t \in DOMAIN Literals : AST_NODE_LIST[t] = Literals[t]
  /\ \A t \in DOMAIN Accesses : AST_NODE_LIST[t] = Accesses[t]
  /\ \A t \in DOMAIN Operations : AST_NODE_LIST[t] = Operations[t]
  /\ \A t \in DOMAIN Statements : AST_NODE_LIST[t] = Statements[t]
  /\ \A t \in DOMAIN Clauses : AST_NODE_LIST[t] = Clauses[t]
  /\ \A t \in DOMAIN Functions : AST_NODE_LIST[t] = Functions[t]
<1>1. DOMAIN AST_NODE_LIST = DOMAIN Literals \union DOMAIN Accesses \union DOMAIN Operations
        \union DOMAIN Statements \union DOMAIN Clauses \union DOMAIN Functions
  BY DEF AST_NODE_LIST
<1>2. DOMAIN AST_NODE_LIST = Classes
  BY <1>1, LiteralClasses, AccessClasses, OperationClasses, StatementClasses, ClauseClasses,
     FunctionClasses DEF Classes, Constants, Valued, Accessing, Named, Plain, Listing, Others
<1> DEFINE L == DOMAIN Literals
           A == DOMAIN Accesses
           O == DOMAIN Operations
           S == DOMAIN Statements
           C == DOMAIN Clauses
           F == DOMAIN Functions
<1>3. L \intersect A = {} /\ (L \union A) \intersect O = {}
  BY LiteralClasses, AccessClasses, OperationClasses DEF Constants, Valued, Accessing
<1>4. (L \union A \union O) \intersect S = {}
  BY LiteralClasses, AccessClasses, OperationClasses, StatementClasses
     DEF Constants, Valued, Accessing
<1>5. (L \union A \union O \union S) \intersect C = {}
  BY LiteralClasses, AccessClasses, OperationClasses, StatementClasses, ClauseClasses
     DEF Constants, Valued, Accessing
<1>6. (L \union A \union O \union S \union C) \intersect F = {}
  BY LiteralClasses, AccessClasses, OperationClasses, StatementClasses, ClauseClasses,
     FunctionClasses DEF Constants, Valued, Accessing
<1> QED
  BY <1>2, <1>3, <1>4, <1>5, <1>6 DEF AST_NODE_LIST

LEMMA ClassesAre ==
  /\ \A t \in Constants : AST_NODE_LIST[t] = Shape(FALSE, <<>>)
  /\ \A t \in Valued \union {"TemplateLiteral", "RegExpLiteral"} :
       AST_NODE_LIST[t] = Shape(TRUE, <<>>)
  /\ \A t \in Accessing : AST_NODE_LIST[t] = Shape(TRUE, <<"expr", "expr">>)
  /\ \A t \in Named \union Plain :
       /\ t \in Named \union {"ForStatement"} \/ AST_NODE_LIST[t].valued = FALSE
       /\ AST_NODE_LIST[t].parts \in
            {<<"expr">>, <<"expr", "expr">>, <<"expr", "expr", "expr">>,
             <<"expr", "expr", "expr", "expr">>}
  /\ \A t \in Listing : AST_NODE_LIST[t] \in {Shape(FALSE, <<"list">>), Shape(FALSE, <<"args">>)}
  /\ \A t \in Listing \ {"ArgumentList"} : AST_NODE_LIST[t] = Shape(FALSE, <<"list">>)
  /\ AST_NODE_LIST["ArrayLiteral"] = Shape(FALSE, <<"exprs">>)
  /\ AST_NODE_LIST["ObjectLiteral"] = Shape(FALSE, <<"props">>)
  /\ AST_NODE_LIST["DeclarationList"] = Shape(FALSE, <<"decls">>)
  /\ AST_NODE_LIST["SwitchStatement"] = Shape(FALSE, <<"expr", "clauses">>)
  /\ AST_NODE_LIST["FunctionPrototype"] = Shape(TRUE, <<"names">>)
  /\ AST_NODE_LIST["FunctionStatement"] = Shape(FALSE, <<"proto", "expr">>)
<1>1. \A t \in Constants : AST_NODE_LIST[t] = Shape(FALSE, <<>>)
  BY TableJoins, LiteralClasses
<1>2. \A t \in Valued \union {"TemplateLiteral", "RegExpLiteral"} :
        AST_NODE_LIST[t] = Shape(TRUE, <<>>)
  BY TableJoins, LiteralClasses
<1>3. \A t \in Accessing : AST_NODE_LIST[t] = Shape(TRUE, <<"expr", "expr">>)
  BY TableJoins, AccessClasses
<1>4. \A t \in Named \union Plain :
       /\ t \in Named \union {"ForStatement"} \/ AST_NODE_LIST[t].valued = FALSE
       /\ AST_NODE_LIST[t].parts \in
            {<<"expr">>, <<"expr", "expr">>, <<"expr", "expr", "expr">>,
             <<"expr", "expr", "expr", "expr">>}
  <2> DEFINE Of(t, parts) ==
               /\ t \in Named \union {"ForStatement"} \/ AST_NODE_LIST[t].valued = FALSE
               /\ AST_NODE_LIST[t].parts = parts
  <2>1. \A t \in {"PrefixExpression", "PostfixExpression", "Declaration"} : Of(t, <<"expr">>)
    BY TableJoins, OperationClasses DEF Named, Shape
  <2>2. Of("LabelledStatement", <<"expr">>)
    BY TableJoins, StatementClasses DEF Named, Shape
  <2>3. /\ Of("BinaryExpression", <<"expr", "expr">>)
        /\ Of("AssignExpression", <<"expr", "expr">>)
        /\ Of("TernaryExpression", <<"expr", "expr", "expr">>)
    BY TableJoins, OperationClasses DEF Named, Shape
  <2>4. Of("NewExpression", <<"expr">>)
    BY TableJoins, AccessClasses DEF Named, Shape
  <2>5. /\ Of("ForStatement", <<"expr", "expr", "expr", "expr">>)
        /\ Of("WhileStatement", <<"expr", "expr">>)
        /\ Of("TryCatchStatement", <<"expr", "expr", "expr", "expr">>)
    BY TableJoins, StatementClasses DEF Named, Shape
  <2>6. \A t \in {"BreakStatement", "ContinueStatement", "ThrowStatement"} : Of(t, <<"expr">>)
    BY TableJoins, StatementClasses DEF Named, Shape
  <2>7. \A t \in {"CaseClauseStatement", "DoWhileStatement"} : Of(t, <<"expr", "expr">>)
    BY TableJoins, ClauseClasses DEF Named, Shape
  <2>8. /\ Of("IfStatement", <<"expr", "expr">>)
        /\ Of("IfElseStatement", <<"expr", "expr", "expr">>)
        /\ Of("ReturnStatement", <<"expr">>)
    BY TableJoins, FunctionClasses DEF Named, Shape
  <2>9. \A t \in Named \union Plain :
          \E parts \in {<<"expr">>, <<"expr", "expr">>, <<"expr", "expr", "expr">>,
                        <<"expr", "expr", "expr", "expr">>} : Of(t, parts)
    <3> HIDE DEF Of
    <3> QED
      BY <2>1, <2>2, <2>3, <2>4, <2>5, <2>6, <2>7, <2>8 DEF Named, Plain
  <2> QED
    BY <2>9
<1>5. AST_NODE_LIST["ArgumentList"] = Shape(FALSE, <<"args">>)
  BY TableJoins, AccessClasses
<1>6. \A t \in Listing \ {"ArgumentList"} : AST_NODE_LIST[t] = Shape(FALSE, <<"list">>)
  BY TableJoins, OperationClasses, StatementClasses DEF Listing
<1>7. /\ AST_NODE_LIST["ArrayLiteral"] = Shape(FALSE, <<"exprs">>)
      /\ AST_NODE_LIST["ObjectLiteral"] = Shape(FALSE, <<"props">>)
      /\ AST_NODE_LIST["DeclarationList"] = Shape(FALSE, <<"decls">>)
      /\ AST_NODE_LIST["SwitchStatement"] = Shape(FALSE, <<"expr", "clauses">>)
      /\ AST_NODE_LIST["FunctionPrototype"] = Shape(TRUE, <<"names">>)
      /\ AST_NODE_LIST["FunctionStatement"] = Shape(FALSE, <<"proto", "expr">>)
  BY TableJoins, LiteralClasses, OperationClasses, ClauseClasses, FunctionClasses
<1> QED
  BY <1>1, <1>2, <1>3, <1>4, <1>5, <1>6, <1>7

-----------------------------------------------------------------------------
(* What the trees look like.                                               *)

Expressions == {t \in Trees : IsExpression(t)}

LEMMA TreeFacts ==
  ASSUME NEW x \in Trees
  PROVE  /\ x.parts \in Seq(Trees) /\ Len(x.parts) \in Nat
         /\ x = Node(x.type, x.data, x.parts)
         /\ Height[x] \in Nat
         /\ \A i \in 1..Len(x.parts) : x.parts[i] \in Trees /\ Height[x.parts[i]] < Height[x]
<1>1. x.parts \in Seq(Trees)
  BY TreesAreTrees
<1>2. Len(x.parts) \in Nat /\ \A i \in 1..Len(x.parts) : x.parts[i] \in Trees
  BY <1>1
<1>3. IsTree(x) /\ Height[x] \in Nat /\ \A i \in 1..Len(x.parts) : Height[x.parts[i]] < Height[x]
  BY TreesAreTrees
<1> QED
  BY <1>1, <1>2, <1>3 DEF IsTree

LEMMA Indices ==
  /\ 1 \in 1..1 /\ 1 \in 1..2 /\ 2 \in 1..2
  /\ \A n : n = 1 => 1 \in 1..n
  /\ \A n : n = 2 => 1 \in 1..n /\ 2 \in 1..n
  OBVIOUS

(* A member of a node is in the trees.                                     *)
LEMMA PartsAre ==
  ASSUME NEW x \in Trees
  PROVE  /\ Len(x.parts) = 1 => x.parts[1] \in Trees
         /\ Len(x.parts) = 2 => x.parts[1] \in Trees /\ x.parts[2] \in Trees
<1>1. \A i \in 1..Len(x.parts) : x.parts[i] \in Trees
  BY TreeFacts
<1> QED
  BY <1>1, Indices

LEMMA NullIs == Null.type = "nullptr" /\ "nullptr" \notin Classes
  BY DEF Null, Node, Classes, Constants, Valued, Accessing, Named, Plain, Listing, Others

LEMMA MembersAreNoClasses ==
  {"ClausesList", "ExpressionList", "vector", "property", "name", "nullptr"} \intersect Classes = {}
  BY DEF Classes, Constants, Valued, Accessing, Named, Plain, Listing, Others

LEMMA ExpressionIs ==
  ASSUME NEW x \in Trees
  PROVE  /\ IsExpression(x) <=> x = Null \/ x.type \in Classes
         /\ x.type \in Classes => x # Null /\ IsNode(x)
         /\ x.type = "ExpressionList" => x.data = "" /\ IsExpressionList(x)
         /\ x.type = "ClausesList" => x.data = "" /\ IsClausesList(x)
         /\ x.type = "vector" => x.data = ""
         /\ x.type = "property" => Len(x.parts) = 1 /\ IsExpression(x.parts[1])
         /\ x.type = "name" => x.parts = <<>>
<1>1. IsTree(x)
  BY TreesAreTrees
<1>2. IsNode(x) => x.type \in Classes
  BY TableJoins DEF IsNode
<1>3. IsClausesList(x) => x.type = "ClausesList"
  BY DEF IsClausesList
<1>4. IsExpressionList(x) => x.type = "ExpressionList"
  BY DEF IsExpressionList
<1>5. x = Null => x.type = "nullptr" /\ x.type \notin Classes
  BY NullIs
<1>6. x = Null \/ IsNode(x) \/ (x.data = "" /\ (IsClausesList(x) \/ IsExpressionList(x) \/ x.type = "vector"))
        \/ (x.type = "property" /\ Len(x.parts) = 1 /\ IsExpression(x.parts[1]))
        \/ (x.type = "name" /\ x.parts = <<>>)
  BY <1>1 DEF IsTree
<1>7. IsExpression(x) <=> x = Null \/ x.type \in Classes
  BY TableJoins DEF IsExpression
<1> QED
  BY <1>2, <1>3, <1>4, <1>5, <1>6, <1>7, MembersAreNoClasses

(* The members of a node are those of its class.                           *)
LEMMA MembersOf ==
  ASSUME NEW x \in Trees, x.type \in Classes
  PROVE  /\ Len(x.parts) = Len(AST_NODE_LIST[x.type].parts)
         /\ AST_NODE_LIST[x.type].valued = FALSE => x.data = ""
         /\ \A i \in 1..Len(x.parts) : IsMember(AST_NODE_LIST[x.type].parts[i], x.parts[i])
  BY ExpressionIs DEF IsNode

LEMMA MembersOfFew ==
  ASSUME NEW x \in Trees, x.type \in Classes
  PROVE  /\ Len(x.parts) = 1 => IsMember(AST_NODE_LIST[x.type].parts[1], x.parts[1])
         /\ Len(x.parts) = 2 => /\ IsMember(AST_NODE_LIST[x.type].parts[1], x.parts[1])
                               /\ IsMember(AST_NODE_LIST[x.type].parts[2], x.parts[2])
<1>1. \A i \in 1..Len(x.parts) : IsMember(AST_NODE_LIST[x.type].parts[i], x.parts[i])
  BY MembersOf
<1> QED
  BY <1>1, Indices

LEMMA LeafIs ==
  ASSUME NEW x \in Trees,
         x.type \in Constants \union Valued \union {"TemplateLiteral", "RegExpLiteral"}
  PROVE  Len(x.parts) = 0 /\ (x.type \in Constants => x.data = "")
<1>1. x.type \in Classes
  BY DEF Classes, Others
<1>2. AST_NODE_LIST[x.type].parts = <<>>
  BY ClassesAre DEF Shape
<1>3. x.type \in Constants => AST_NODE_LIST[x.type].valued = FALSE
  BY ClassesAre DEF Shape
<1> QED
  BY <1>1, <1>2, <1>3, MembersOf

LEMMA SimpleIs ==
  ASSUME NEW x \in Trees, x.type \in Accessing \union Named \union Plain
  PROVE  /\ Len(x.parts) = Len(AST_NODE_LIST[x.type].parts)
         /\ x.type \in Accessing => Len(x.parts) = 2
         /\ x.type \in Plain \ {"ForStatement"} => x.data = ""
         /\ \A i \in 1..Len(x.parts) : IsExpression(x.parts[i])
<1>1. x.type \in Classes
  BY DEF Classes
<1>2. AST_NODE_LIST[x.type].parts \in
        {<<"expr">>, <<"expr", "expr">>, <<"expr", "expr", "expr">>,
         <<"expr", "expr", "expr", "expr">>}
  BY ClassesAre DEF Shape
<1>3. x.type \in Accessing => AST_NODE_LIST[x.type].parts = <<"expr", "expr">>
  BY ClassesAre DEF Shape
<1>4. x.type \in Plain \ {"ForStatement"} => AST_NODE_LIST[x.type].valued = FALSE
  BY ClassesAre DEF Plain, Named
<1>5. \A i \in 1..Len(x.parts) : AST_NODE_LIST[x.type].parts[i] = "expr"
  <2>1. Len(x.parts) = Len(AST_NODE_LIST[x.type].parts)
    BY <1>1, MembersOf
  <2>2. \A parts \in {<<"expr">>, <<"expr", "expr">>, <<"expr", "expr", "expr">>,
                      <<"expr", "expr", "expr", "expr">>} :
          \A i \in 1..Len(parts) : parts[i] = "expr"
    OBVIOUS
  <2> QED
    BY <1>2, <2>1, <2>2
<1>6. \A p : IsMember("expr", p) => IsExpression(p)
  BY DEF IsMember
<1> QED
  BY <1>1, <1>2, <1>3, <1>4, <1>5, <1>6, MembersOf

LEMMA ListingIs ==
  ASSUME NEW x \in Trees, x.type \in Listing
  PROVE  /\ Len(x.parts) = 1 /\ x.data = "" /\ x.parts[1] \in Trees
         /\ x.parts[1].type = "ExpressionList" \/ (x.type = "ArgumentList" /\ x.parts[1] = Null)
<1>1. x.type \in Classes
  BY DEF Classes
<1>2. AST_NODE_LIST[x.type] = Shape(FALSE, <<"list">>)
        \/ (x.type = "ArgumentList" /\ AST_NODE_LIST[x.type] = Shape(FALSE, <<"args">>))
  BY ClassesAre
<1>3. AST_NODE_LIST[x.type].valued = FALSE /\ Len(AST_NODE_LIST[x.type].parts) = 1
        /\ (AST_NODE_LIST[x.type].parts[1] = "list"
             \/ (x.type = "ArgumentList" /\ AST_NODE_LIST[x.type].parts[1] = "args"))
  BY <1>2 DEF Shape
<1>4. Len(x.parts) = 1 /\ x.data = ""
  BY <1>1, <1>3, MembersOf
<1>5. IsMember(AST_NODE_LIST[x.type].parts[1], x.parts[1])
  BY <1>1, <1>4, MembersOfFew
<1>6. \A p : /\ IsMember("list", p) => p.type = "ExpressionList"
             /\ IsMember("args", p) => p.type = "ExpressionList" \/ p = Null
  BY DEF IsMember
<1> QED
  BY <1>3, <1>4, <1>5, <1>6, PartsAre

LEMMA VectorIs ==
  ASSUME NEW x \in Trees, NEW part,
         \/ x.type = "ArrayLiteral" /\ part = "exprs"
         \/ x.type = "ObjectLiteral" /\ part = "props"
         \/ x.type = "DeclarationList" /\ part = "decls"
         \/ x.type = "FunctionPrototype" /\ part = "names"
  PROVE  /\ Len(x.parts) = 1 /\ x.parts[1] \in Trees /\ x.parts[1].type = "vector"
         /\ x.type # "FunctionPrototype" => x.data = ""
         /\ x.parts[1].data = ""
         /\ \A i \in 1..Len(x.parts[1].parts) : IsElement(part, x.parts[1].parts[i])
<1>1. x.type \in Classes
  BY DEF Classes, Others
<1>2. /\ AST_NODE_LIST[x.type].parts = <<part>>
      /\ x.type # "FunctionPrototype" => AST_NODE_LIST[x.type].valued = FALSE
  BY ClassesAre DEF Shape
<1>3. Len(x.parts) = 1 /\ (x.type # "FunctionPrototype" => x.data = "")
  BY <1>1, <1>2, MembersOf
<1>4. IsMember(part, x.parts[1])
  <2>1. IsMember(AST_NODE_LIST[x.type].parts[1], x.parts[1])
    BY <1>1, <1>3, MembersOfFew
  <2> QED
    BY <1>2, <2>1
<1>5. part \in {"exprs", "props", "decls", "names"}
  OBVIOUS
<1>6. x.parts[1].type = "vector" /\ \A i \in 1..Len(x.parts[1].parts) : IsElement(part, x.parts[1].parts[i])
  BY <1>4, <1>5 DEF IsMember
<1> QED
  BY <1>3, <1>6, PartsAre, ExpressionIs

LEMMA ArrayIs ==
  ASSUME NEW x \in Trees, x.type = "ArrayLiteral"
  PROVE  /\ Len(x.parts) = 1 /\ x.data = "" /\ x.parts[1] \in Trees
         /\ x.parts[1].type = "vector" /\ x.parts[1].data = ""
         /\ \A i \in 1..Len(x.parts[1].parts) : IsExpression(x.parts[1].parts[i])
<1>0. /\ Len(x.parts) = 1 /\ x.data = "" /\ x.parts[1] \in Trees
      /\ x.parts[1].type = "vector" /\ x.parts[1].data = ""
      /\ \A i \in 1..Len(x.parts[1].parts) : IsElement("exprs", x.parts[1].parts[i])
  BY VectorIs
<1>1. \A e : IsElement("exprs", e) => IsExpression(e)
  BY DEF IsElement
<1> QED
  BY <1>0, <1>1

LEMMA ObjectIs ==
  ASSUME NEW x \in Trees, x.type = "ObjectLiteral"
  PROVE  /\ Len(x.parts) = 1 /\ x.data = "" /\ x.parts[1] \in Trees
         /\ x.parts[1].type = "vector" /\ x.parts[1].data = ""
         /\ \A i \in 1..Len(x.parts[1].parts) :
              LET p == x.parts[1].parts[i]
              IN  p \in Trees /\ p.type = "property" /\ Len(p.parts) = 1 /\ IsExpression(p.parts[1])
<1>0. /\ Len(x.parts) = 1 /\ x.data = "" /\ x.parts[1] \in Trees
      /\ x.parts[1].type = "vector" /\ x.parts[1].data = ""
      /\ \A i \in 1..Len(x.parts[1].parts) : IsElement("props", x.parts[1].parts[i])
  BY VectorIs
<1>1. \A e : IsElement("props", e) => e.type = "property"
  BY DEF IsElement
<1>2. /\ Len(x.parts) = 1 /\ x.data = "" /\ x.parts[1] \in Trees
      /\ x.parts[1].type = "vector" /\ x.parts[1].data = ""
      /\ \A i \in 1..Len(x.parts[1].parts) : x.parts[1].parts[i].type = "property"
  BY <1>0, <1>1
<1>3. \A i \in 1..Len(x.parts[1].parts) : x.parts[1].parts[i] \in Trees
  BY <1>2, TreeFacts
<1> QED
  BY <1>2, <1>3, ExpressionIs

LEMMA DeclarationsAre ==
  ASSUME NEW x \in Trees, x.type = "DeclarationList"
  PROVE  /\ Len(x.parts) = 1 /\ x.parts[1] \in Trees /\ x.parts[1].type = "vector"
         /\ \A i \in 1..Len(x.parts[1].parts) :
              LET p == x.parts[1].parts[i]
              IN  p \in Trees /\ p.type = "Declaration" /\ p # Null
<1>0. /\ Len(x.parts) = 1 /\ x.data = "" /\ x.parts[1] \in Trees
      /\ x.parts[1].type = "vector" /\ x.parts[1].data = ""
      /\ \A i \in 1..Len(x.parts[1].parts) : IsElement("decls", x.parts[1].parts[i])
  BY VectorIs
<1>1. \A e : IsElement("decls", e) => e.type = "Declaration"
  BY DEF IsElement
<1>2. /\ Len(x.parts) = 1 /\ x.parts[1] \in Trees /\ x.parts[1].type = "vector"
      /\ \A i \in 1..Len(x.parts[1].parts) : x.parts[1].parts[i].type = "Declaration"
  BY <1>0, <1>1
<1>3. \A i \in 1..Len(x.parts[1].parts) : x.parts[1].parts[i] \in Trees
  BY <1>2, TreeFacts
<1> QED
  BY <1>2, <1>3, NullIs

LEMMA PrototypeIs ==
  ASSUME NEW x \in Trees, x.type = "FunctionPrototype"
  PROVE  /\ Len(x.parts) = 1 /\ x.parts[1] \in Trees
         /\ x.parts[1].type = "vector" /\ x.parts[1].data = ""
         /\ \A i \in 1..Len(x.parts[1].parts) :
              LET p == x.parts[1].parts[i] IN p \in Trees /\ p.type = "name" /\ p.parts = <<>>
<1>0. /\ Len(x.parts) = 1 /\ x.parts[1] \in Trees
      /\ x.parts[1].type = "vector" /\ x.parts[1].data = ""
      /\ \A i \in 1..Len(x.parts[1].parts) : IsElement("names", x.parts[1].parts[i])
  BY VectorIs
<1>1. \A e : IsElement("names", e) => e.type = "name"
  BY DEF IsElement
<1>2. /\ Len(x.parts) = 1 /\ x.parts[1] \in Trees
      /\ x.parts[1].type = "vector" /\ x.parts[1].data = ""
      /\ \A i \in 1..Len(x.parts[1].parts) : x.parts[1].parts[i].type = "name"
  BY <1>0, <1>1
<1>3. \A i \in 1..Len(x.parts[1].parts) : x.parts[1].parts[i] \in Trees
  BY <1>2, TreeFacts
<1> QED
  BY <1>2, <1>3, ExpressionIs

LEMMA SwitchIs ==
  ASSUME NEW x \in Trees, x.type = "SwitchStatement"
  PROVE  /\ Len(x.parts) = 2 /\ x.data = "" /\ x.parts[1] \in Expressions /\ x.parts[2] \in Trees
         /\ x.parts[2].type = "ClausesList" /\ x.parts[2].data = "" /\ Len(x.parts[2].parts) > 0
         /\ x.parts[2].parts[Len(x.parts[2].parts)] \in Expressions
         /\ \A i \in 1..Len(x.parts[2].parts) - 1 :
              LET p == x.parts[2].parts[i]
              IN  p \in Trees /\ p.type = "CaseClauseStatement" /\ p # Null
<1>1. x.type \in Classes
  BY DEF Classes, Others
<1>2. AST_NODE_LIST[x.type].parts = <<"expr", "clauses">> /\ AST_NODE_LIST[x.type].valued = FALSE
  BY ClassesAre DEF Shape
<1>3. Len(x.parts) = 2 /\ x.data = ""
  BY <1>1, <1>2, MembersOf
<1>4. x.parts[1] \in Trees /\ x.parts[2] \in Trees
  BY <1>3, PartsAre
<1>5. IsMember("expr", x.parts[1]) /\ IsMember("clauses", x.parts[2])
  <2>1. /\ IsMember(AST_NODE_LIST[x.type].parts[1], x.parts[1])
        /\ IsMember(AST_NODE_LIST[x.type].parts[2], x.parts[2])
    BY <1>1, <1>3, MembersOfFew
  <2> QED
    BY <1>2, <2>1
<1>6. IsExpression(x.parts[1]) /\ x.parts[2].type = "ClausesList"
  BY <1>5 DEF IsMember
<1>7. IsClausesList(x.parts[2]) /\ x.parts[2].data = ""
  BY <1>4, <1>6, ExpressionIs
<1> DEFINE n == Len(x.parts[2].parts)
<1>8. n \in Nat /\ \A i \in 1..n : x.parts[2].parts[i] \in Trees
  BY <1>4, TreeFacts
<1>9. n > 0 /\ IsExpression(x.parts[2].parts[n])
        /\ \A i \in 1..n - 1 : x.parts[2].parts[i].type = "CaseClauseStatement"
  BY <1>7 DEF IsClausesList
<1> HIDE DEF n
<1>10. n \in 1..n /\ \A i \in 1..n - 1 : i \in 1..n
  BY <1>8, <1>9
<1>11. x.parts[2].parts[n] \in Expressions
  BY <1>8, <1>9, <1>10 DEF Expressions
<1>12. \A i \in 1..n - 1 : LET p == x.parts[2].parts[i]
                           IN  p \in Trees /\ p.type = "CaseClauseStatement" /\ p # Null
  BY <1>8, <1>9, <1>10, NullIs
<1>13. x.parts[1] \in Expressions
  BY <1>4, <1>6 DEF Expressions
<1> QED
  BY <1>3, <1>4, <1>6, <1>7, <1>9, <1>11, <1>12, <1>13 DEF n

LEMMA FunctionIs ==
  ASSUME NEW x \in Trees, x.type = "FunctionStatement"
  PROVE  /\ Len(x.parts) = 2 /\ x.data = ""
         /\ x.parts[1] \in Trees /\ x.parts[1].type = "FunctionPrototype"
         /\ x.parts[2] \in Expressions
<1>1. x.type \in Classes
  BY DEF Classes, Others
<1>2. AST_NODE_LIST[x.type].parts = <<"proto", "expr">> /\ AST_NODE_LIST[x.type].valued = FALSE
  BY ClassesAre DEF Shape
<1>3. Len(x.parts) = 2 /\ x.data = ""
  BY <1>1, <1>2, MembersOf
<1>4. x.parts[1] \in Trees /\ x.parts[2] \in Trees
  BY <1>3, PartsAre
<1>5. IsMember("proto", x.parts[1]) /\ IsMember("expr", x.parts[2])
  <2>1. /\ IsMember(AST_NODE_LIST[x.type].parts[1], x.parts[1])
        /\ IsMember(AST_NODE_LIST[x.type].parts[2], x.parts[2])
    BY <1>1, <1>3, MembersOfFew
  <2> QED
    BY <1>2, <2>1
<1> QED
  BY <1>3, <1>4, <1>5 DEF IsMember, Expressions

-----------------------------------------------------------------------------
(* What MatchExpression does, for whatever function it calls.              *)

Verdicts == {"true", "false", "throw", "crash", "undefined"}

LEMMA LeastOf ==
  ASSUME NEW S \in SUBSET Nat, S # {}
  PROVE  \E i \in S : \A j \in S : i <= j
<1> DEFINE Less == {pair \in Nat \X Nat : pair[1] < pair[2]}
<1>1. IsWellFoundedOn(Less, Nat)
  BY NatLessThanWellFounded DEF OpToRel
<1> HIDE DEF Less
<1>2. PICK i \in S : \A j \in S : ~(<<j, i>> \in Less)
  BY <1>1, WFMin
<1>3. ASSUME NEW j \in S PROVE i <= j
  <2>1. i \in Nat /\ j \in Nat /\ ~(<<j, i>> \in Less)
    BY <1>2
  <2>2. ~(j < i)
    BY <2>1 DEF Less
  <2> QED
    BY <2>1, <2>2
<1> QED
  BY <1>3

LEMMA AndAllIs ==
  ASSUME NEW v, Len(v) \in Nat
  PROVE  /\ AndAll(v) = "true" <=> \A i \in 1..Len(v) : v[i] = "true"
         /\ AndAll(v) = "true" \/ \E i \in 1..Len(v) : v[i] = AndAll(v)
<1> DEFINE others == {i \in 1..Len(v) : v[i] # "true"}
<1>1. CASE others = {}
  BY <1>1 DEF AndAll
<1>2. CASE others # {}
  <2>1. others \in SUBSET Nat
    OBVIOUS
  <2>2. \E i \in others : \A j \in others : i <= j
    BY <1>2, <2>1, LeastOf
  <2> DEFINE least == CHOOSE i \in others : \A j \in others : i <= j
  <2>3. least \in others
    BY <2>2
  <2>4. AndAll(v) = v[least]
    BY <1>2 DEF AndAll
  <2> HIDE DEF least
  <2> QED
    BY <2>3, <2>4
<1> QED
  BY <1>1, <1>2

(* The same for a sequence given by its elements.                          *)
LEMMA AndAllOf ==
  ASSUME NEW n \in Nat, NEW f, f = [i \in 1..n |-> f[i]]
  PROVE  /\ AndAll(f) = "true" <=> \A i \in 1..n : f[i] = "true"
         /\ AndAll(f) = "true" \/ \E i \in 1..n : f[i] = AndAll(f)
<1>1. Len(f) = n
  OBVIOUS
<1> QED
  BY <1>1, AndAllIs

LEMMA SingleAnds ==
  ASSUME NEW p
  PROVE  AndAll([i \in 1..1 |-> p]) = p
<1> DEFINE v == [i \in 1..1 |-> p]
<1>1. v = [i \in 1..1 |-> v[i]] /\ v[1] = p /\ 1 \in Nat
  OBVIOUS
<1> HIDE DEF v
<1>2. /\ AndAll(v) = "true" <=> \A i \in 1..1 : v[i] = "true"
      /\ AndAll(v) = "true" \/ \E i \in 1..1 : v[i] = AndAll(v)
  BY <1>1, AndAllOf
<1>3. \A i \in 1..1 : i = 1
  OBVIOUS
<1> QED
  BY <1>1, <1>2, <1>3, Indices DEF v

LEMMA PairAnds ==
  ASSUME NEW p, NEW q
  PROVE  AndAll([i \in 1..2 |-> IF i = 1 THEN p ELSE q]) = And(p, q)
<1> DEFINE v == [i \in 1..2 |-> IF i = 1 THEN p ELSE q]
           others == {i \in 1..2 : v[i] # "true"}
<1>1. v = [i \in 1..2 |-> v[i]] /\ v[1] = p /\ v[2] = q /\ 2 \in Nat /\ Len(v) = 2
  OBVIOUS
<1> HIDE DEF v
<1>2. \A i \in 1..2 : i = 1 \/ i = 2
  OBVIOUS
<1>3. CASE p = "true" /\ q = "true"
  BY <1>1, <1>2, <1>3, AndAllOf DEF And
<1>4. CASE p = "true" /\ q # "true"
  <2>1. AndAll(v) # "true"
    BY <1>1, <1>4, Indices, AndAllOf
  <2>2. \E i \in 1..2 : v[i] = AndAll(v)
    BY <1>1, <2>1, AndAllOf
  <2> QED
    BY <1>1, <1>2, <1>4, <2>1, <2>2 DEF And
<1>5. CASE p # "true"
  <2>1. 1 \in others /\ others # {} /\ \A j \in others : 1 <= j
    BY <1>1, <1>5, Indices
  <2>2. \A i \in others : (\A j \in others : i <= j) => i = 1
    BY <2>1
  <2>3. (CHOOSE i \in others : \A j \in others : i <= j) = 1
    <3> HIDE DEF others
    <3> QED
      BY <2>1, <2>2
  <2>4. AndAll(v) = v[CHOOSE i \in others : \A j \in others : i <= j]
    BY <1>1, <2>1 DEF AndAll
  <2>5. AndAll(v) = v[1]
    BY <2>3, <2>4
  <2> QED
    BY <1>1, <1>5, <2>5 DEF And
<1> QED
  BY <1>3, <1>4, <1>5 DEF v

-----------------------------------------------------------------------------
(* Most nodes are compared alike: something of their own first, and then   *)
(* the nodes below them, one after the other.                              *)

Regular(x) ==
  /\ x.type \in Classes \ {"ObjectLiteral", "RegExpLiteral", "TemplateLiteral",
                           "DeclarationList", "SwitchStatement"}
  /\ ~(x.type = "ArgumentList" /\ x.parts[1] = Null)

Kids(x) ==
  IF x.type \in Listing \union {"ArrayLiteral"} THEN x.parts[1].parts
  ELSE IF x.type \in Accessing THEN <<x.parts[2], x.parts[1]>>
  ELSE IF x.type = "FunctionStatement" THEN <<x.parts[2]>>
  ELSE IF x.type = "FunctionPrototype" THEN <<>>
  ELSE x.parts

Own(x) ==
  IF x.type = "FunctionStatement" THEN x.parts[1]
  ELSE IF x.type = "FunctionPrototype" THEN <<x.data, x.parts>>
  ELSE IF x.type \in Accessing \union {"ForStatement"} THEN ""
  ELSE x.data

Agree(x, y) == Own(x) = Own(y) /\ Len(Kids(x)) = Len(Kids(y))

Each(x, y, m) == [i \in 1..Len(Kids(x)) |-> m[<<Kids(x)[i], Kids(y)[i]>>]]

(* A regular node is of one of these kinds.                                *)
LEMMA RegularKinds ==
  ASSUME NEW x, Regular(x)
  PROVE  \/ x.type \in Constants \union Valued
         \/ x.type \in Named \union Plain
         \/ x.type \in Accessing
         \/ x.type \in Listing
         \/ x.type = "ArrayLiteral"
         \/ x.type = "FunctionPrototype"
         \/ x.type = "FunctionStatement"
  BY DEF Regular, Classes, Others

LEMMA KindsDiffer ==
  /\ (Constants \union Valued) \intersect (Listing \union Accessing \union Named \union Plain) = {}
  /\ (Named \union Plain) \intersect (Listing \union Accessing) = {}
  /\ Listing \intersect Accessing = {}
  /\ Others \intersect (Constants \union Valued \union Listing \union Accessing \union Named
                         \union Plain) = {}
  /\ "ForStatement" \in Plain \ Named
  /\ Named \intersect Plain = {}
  BY DEF Constants, Valued, Listing, Accessing, Named, Plain, Others

LEMMA KidsOf ==
  ASSUME NEW x
  PROVE  /\ x.type \in Constants \union Valued \union Named \union Plain => Kids(x) = x.parts
         /\ x.type \in Constants \union Valued \union Named \union (Plain \ {"ForStatement"}) =>
              Own(x) = x.data
         /\ x.type = "ForStatement" => Own(x) = ""
         /\ x.type \in Accessing => Kids(x) = <<x.parts[2], x.parts[1]>> /\ Own(x) = ""
         /\ x.type \in Listing \union {"ArrayLiteral"} => Kids(x) = x.parts[1].parts /\ Own(x) = x.data
         /\ x.type = "FunctionPrototype" => Kids(x) = <<>> /\ Own(x) = <<x.data, x.parts>>
         /\ x.type = "FunctionStatement" => Kids(x) = <<x.parts[2]>> /\ Own(x) = x.parts[1]
<1>1. /\ "ForStatement" \notin Accessing \union Listing
      /\ \A t \in {"ArrayLiteral", "FunctionPrototype", "FunctionStatement"} :
           t \notin Constants \union Valued \union Named \union Plain \union Accessing \union Listing
  BY DEF Constants, Valued, Listing, Accessing, Named, Plain
<1> QED
  BY <1>1, KindsDiffer DEF Kids, Own

(* The nodes below a regular node are expressions, lower than itself.      *)
LEMMA KidsAre ==
  ASSUME NEW x \in Trees, Regular(x)
  PROVE  /\ Kids(x) \in Seq(Expressions) /\ Len(Kids(x)) \in Nat
         /\ \A i \in 1..Len(Kids(x)) : Kids(x)[i] \in Expressions /\ Height[Kids(x)[i]] < Height[x]
<1>1. SUFFICES /\ Kids(x) \in Seq(Expressions)
               /\ \A i \in 1..Len(Kids(x)) : Height[Kids(x)[i]] < Height[x]
  OBVIOUS
<1>2. CASE x.type \in Constants \union Valued \union Named \union Plain
  <2>1. Kids(x) = x.parts
    BY <1>2, KidsOf
  <2>2. x.parts \in Seq(Trees) /\ \A i \in 1..Len(x.parts) : Height[x.parts[i]] < Height[x]
    BY TreeFacts
  <2>3. \A i \in 1..Len(x.parts) : IsExpression(x.parts[i])
    <3>1. CASE x.type \in Constants \union Valued
      <4>1. Len(x.parts) = 0
        BY <3>1, LeafIs
      <4> QED
        BY <4>1
    <3>2. CASE x.type \in Named \union Plain
      BY <3>2, SimpleIs
    <3> QED
      BY <1>2, <3>1, <3>2
  <2> QED
    BY <2>1, <2>2, <2>3 DEF Expressions
<1>3. CASE x.type \in Accessing
  <2>1. Kids(x) = <<x.parts[2], x.parts[1]>> /\ Len(x.parts) = 2
    BY <1>3, KidsOf, SimpleIs
  <2>2. \A i \in 1..2 : x.parts[i] \in Trees /\ Height[x.parts[i]] < Height[x] /\ IsExpression(x.parts[i])
    BY <1>3, <2>1, TreeFacts, SimpleIs
  <2>3. \A i \in 1..2 : x.parts[i] \in Expressions /\ Height[x.parts[i]] < Height[x]
    BY <2>2 DEF Expressions
  <2>4. x.parts[1] \in Expressions /\ Height[x.parts[1]] < Height[x]
        /\ x.parts[2] \in Expressions /\ Height[x.parts[2]] < Height[x]
    BY <2>3, Indices
  <2> QED
    BY <2>1, <2>4
<1>4. CASE x.type \in Listing \union {"ArrayLiteral"}
  <2>1. Kids(x) = x.parts[1].parts
    BY <1>4, KidsOf
  <2>2. Len(x.parts) = 1 /\ x.parts[1] \in Trees
    BY <1>4, ListingIs, ArrayIs
  <2>3. Height[x.parts[1]] < Height[x] /\ Height[x] \in Nat
    BY <2>2, TreeFacts, Indices
  <2>4. \A i \in 1..Len(x.parts[1].parts) : IsExpression(x.parts[1].parts[i])
    <3>1. CASE x.type = "ArrayLiteral"
      BY <3>1, ArrayIs
    <3>2. CASE x.type \in Listing
      <4>1. x.parts[1].type = "ExpressionList"
        BY <3>2, ListingIs DEF Regular
      <4> QED
        BY <2>2, <4>1, ExpressionIs DEF IsExpressionList
    <3> QED
      BY <1>4, <3>1, <3>2
  <2>5. /\ x.parts[1].parts \in Seq(Trees) /\ Height[x.parts[1]] \in Nat
        /\ \A i \in 1..Len(x.parts[1].parts) :
             x.parts[1].parts[i] \in Trees /\ Height[x.parts[1].parts[i]] < Height[x.parts[1]]
    BY <2>2, TreeFacts
  <2>6. \A t \in Trees : Height[t] \in Nat
    BY TreeFacts
  <2>7. \A i \in 1..Len(x.parts[1].parts) : Height[x.parts[1].parts[i]] < Height[x]
    BY <2>3, <2>5, <2>6
  <2>8. x.parts[1].parts \in Seq(Expressions)
    <3>1. PICK s : s = x.parts[1].parts
      OBVIOUS
    <3>2. s \in Seq(Trees) /\ \A i \in 1..Len(s) : s[i] \in Expressions
      BY <2>4, <2>5, <3>1 DEF Expressions
    <3>3. \A E : (\A i \in 1..Len(s) : s[i] \in E) => s \in Seq(E)
      BY <3>2
    <3> QED
      BY <3>1, <3>2, <3>3
  <2> QED
    BY <2>1, <2>7, <2>8
<1>5. CASE x.type = "FunctionPrototype"
  <2>1. Kids(x) = <<>>
    BY <1>5, KidsOf
  <2> QED
    BY <2>1
<1>6. CASE x.type = "FunctionStatement"
  <2>1. Kids(x) = <<x.parts[2]>> /\ Len(x.parts) = 2 /\ x.parts[2] \in Expressions
    BY <1>6, KidsOf, FunctionIs
  <2>2. Height[x.parts[2]] < Height[x]
    BY <2>1, TreeFacts, Indices
  <2> QED
    BY <2>1, <2>2
<1> QED
  BY <1>2, <1>3, <1>4, <1>5, <1>6, RegularKinds

LEMMA EachNone ==
  ASSUME NEW x, NEW y, NEW m, Len(Kids(x)) = 0
  PROVE  AndAll(Each(x, y, m)) = "true"
<1> DEFINE v == Each(x, y, m)
<1>1. Len(v) = 0
  BY DEF Each
<1> HIDE DEF v
<1>2. AndAll(v) = "true"
  BY <1>1, AndAllIs
<1> QED
  BY <1>2 DEF v

(* For two regular nodes, Match compares their own and then their kids in  *)
(* order.                                                                  *)
LEMMA RegularMatch ==
  ASSUME NEW x \in Trees, NEW y \in Trees, Regular(x), Regular(y), x.type = y.type, NEW m
  PROVE  MatchExpression(x, y, m) = And(Is(Agree(x, y)), AndAll(Each(x, y, m)))
<1>0. x # Null /\ y # Null /\ x.type \in Classes
  BY NullIs DEF Regular
<1> DEFINE M == MatchExpression(x, y, m)
<1>c. /\ x.type \in Constants => M = "true"
      /\ x.type \in Valued => M = Is(x.data = y.data)
      /\ x.type = "ArrayLiteral" => M = MatchArrayLiteral(x, y, m)
      /\ x.type \in Listing => M = MatchExpressionList(x.parts[1], y.parts[1], m)
      /\ x.type \in Accessing => M = MatchMemberExpression(x, y, m)
      /\ x.type \in Named => M = MatchValued(x, y, m)
      /\ x.type = "FunctionPrototype" => M = MatchFunctionPrototype(x, y)
      /\ x.type = "FunctionStatement" => M = MatchFunctionStatement(x, y, m)
      /\ x.type \in Plain => M = MatchParts(x, y, m)
  <2>1. x # Null /\ y # Null /\ x.type = y.type
    BY <1>0
  <2>2. /\ x.type \in Constants => M = "true"
        /\ x.type \in Valued => M = Is(x.data = y.data)
        /\ x.type = "ArrayLiteral" => M = MatchArrayLiteral(x, y, m)
    BY <2>1 DEF MatchExpression, Constants, Valued
  <2>3. /\ x.type \in Listing => M = MatchExpressionList(x.parts[1], y.parts[1], m)
        /\ x.type \in Accessing => M = MatchMemberExpression(x, y, m)
    BY <2>1 DEF MatchExpression, Listing, Accessing
  <2>4. x.type \in Named => M = MatchValued(x, y, m)
    BY <2>1 DEF MatchExpression, Named
  <2>5. /\ x.type = "FunctionPrototype" => M = MatchFunctionPrototype(x, y)
        /\ x.type = "FunctionStatement" => M = MatchFunctionStatement(x, y, m)
        /\ x.type \in Plain => M = MatchParts(x, y, m)
    BY <2>1 DEF MatchExpression, Plain
  <2> QED
    BY <2>2, <2>3, <2>4, <2>5
<1> HIDE DEF M
<1> SUFFICES M = And(Is(Agree(x, y)), AndAll(Each(x, y, m)))
  BY DEF M
<1>1. CASE x.type \in Constants \union Valued
  <2>1. Kids(x) = x.parts /\ Kids(y) = y.parts /\ Own(x) = x.data /\ Own(y) = y.data
    <3>1. "ForStatement" \notin Constants \union Valued
      BY DEF Constants, Valued
    <3> QED
      BY <1>1, <3>1, KidsOf
  <2>2. Len(x.parts) = 0 /\ Len(y.parts) = 0
    BY <1>1, LeafIs
  <2>3. Agree(x, y) <=> x.data = y.data
    BY <2>1, <2>2 DEF Agree
  <2>4. AndAll(Each(x, y, m)) = "true"
    <3>1. Len(Kids(x)) = 0
      BY <2>1, <2>2
    <3> QED
      BY <3>1, EachNone
  <2>5. x.type \in Constants => x.data = y.data
    BY <1>1, LeafIs
  <2>6. M = Is(x.data = y.data)
    <3>1. CASE x.type \in Constants
      BY <1>0, <2>5, <3>1, <1>c DEF Is
    <3>2. CASE x.type \in Valued
      BY <1>0, <3>2, <1>c
    <3> QED
      BY <1>1, <3>1, <3>2
  <2> QED
    BY <2>3, <2>4, <2>6 DEF And, Is
<1>2. CASE x.type \in Named
  <2>1. Kids(x) = x.parts /\ Kids(y) = y.parts /\ Own(x) = x.data /\ Own(y) = y.data
    BY <1>2, KidsOf, KindsDiffer
  <2>2. Len(x.parts) = Len(y.parts)
    BY <1>2, SimpleIs
  <2>3. Agree(x, y) <=> x.data = y.data
    BY <2>1, <2>2 DEF Agree
  <2>4. M = And(Is(x.data = y.data), MatchParts(x, y, m))
    BY <1>0, <1>2, <1>c DEF MatchValued
  <2>5. MatchParts(x, y, m) = AndAll(Each(x, y, m))
    BY <2>1 DEF MatchParts, Each
  <2> QED
    BY <2>3, <2>4, <2>5 DEF Is
<1>3. CASE x.type \in Plain
  <2>1. Kids(x) = x.parts /\ Kids(y) = y.parts
    BY <1>3, KidsOf
  <2>2. Len(x.parts) = Len(y.parts)
    BY <1>3, SimpleIs
  <2>3. Own(x) = Own(y)
    <3>1. CASE x.type = "ForStatement"
      BY <3>1, KidsOf
    <3>2. CASE x.type # "ForStatement"
      <4>1. x.data = "" /\ y.data = ""
        BY <1>3, <3>2, SimpleIs
      <4> QED
        BY <1>3, <3>2, <4>1, KidsOf
    <3> QED
      BY <3>1, <3>2
  <2>4. Agree(x, y)
    BY <2>1, <2>2, <2>3 DEF Agree
  <2>5. M = MatchParts(x, y, m)
    BY <1>0, <1>3, <1>c
  <2>6. MatchParts(x, y, m) = AndAll(Each(x, y, m))
    BY <2>1 DEF MatchParts, Each
  <2> QED
    BY <2>4, <2>5, <2>6 DEF And, Is
<1>4. CASE x.type \in Accessing
  <2>1. /\ Kids(x) = <<x.parts[2], x.parts[1]>> /\ Own(x) = ""
        /\ Kids(y) = <<y.parts[2], y.parts[1]>> /\ Own(y) = ""
    BY <1>4, KidsOf
  <2>2. Agree(x, y)
    BY <2>1 DEF Agree
  <2> DEFINE p == m[<<x.parts[2], y.parts[2]>>]
             q == m[<<x.parts[1], y.parts[1]>>]
  <2>3. M = And(p, q)
    BY <1>0, <1>4, <1>c DEF MatchMemberExpression
  <2>4. Each(x, y, m) = [i \in 1..2 |-> IF i = 1 THEN p ELSE q]
    <3>0. \A k, s, t : k = <<s, t>> => Len(k) = 2 /\ k[1] = s /\ k[2] = t
      OBVIOUS
    <3>1. Len(Kids(x)) = 2
      BY <2>1, <3>0
    <3>2. /\ Kids(x)[1] = x.parts[2] /\ Kids(x)[2] = x.parts[1]
          /\ Kids(y)[1] = y.parts[2] /\ Kids(y)[2] = y.parts[1]
      <4>1. PICK k, l : k = Kids(x) /\ l = Kids(y)
        OBVIOUS
      <4>2. PICK s, t, u, v : s = x.parts[1] /\ t = x.parts[2] /\ u = y.parts[1] /\ v = y.parts[2]
        OBVIOUS
      <4>3. k = <<t, s>> /\ l = <<v, u>>
        BY <2>1, <4>1, <4>2
      <4>4. k[1] = t /\ k[2] = s /\ l[1] = v /\ l[2] = u
        BY <4>3
      <4> QED
        BY <4>1, <4>2, <4>4
    <3> QED
      BY <3>1, <3>2 DEF Each
  <2> HIDE DEF p, q
  <2>5. AndAll([i \in 1..2 |-> IF i = 1 THEN p ELSE q]) = And(p, q)
    BY PairAnds
  <2> QED
    BY <2>2, <2>3, <2>4, <2>5 DEF And, Is
<1>5. CASE x.type \in Listing
  <2>1. Kids(x) = x.parts[1].parts /\ Own(x) = x.data /\ Kids(y) = y.parts[1].parts /\ Own(y) = y.data
    BY <1>5, KidsOf
  <2>2. /\ x.data = "" /\ x.parts[1].type = "ExpressionList"
        /\ y.data = "" /\ y.parts[1].type = "ExpressionList"
    BY <1>5, ListingIs DEF Regular
  <2>3. x.parts[1] # Null /\ y.parts[1] # Null
    BY <2>2, NullIs
  <2>4. M =
          And(Is(Len(Kids(x)) = Len(Kids(y))), MatchParts(x.parts[1], y.parts[1], m))
    BY <1>0, <1>5, <2>1, <2>3, <1>c DEF MatchExpressionList
  <2>5. MatchParts(x.parts[1], y.parts[1], m) = AndAll(Each(x, y, m))
    BY <2>1 DEF MatchParts, Each
  <2>6. Agree(x, y) <=> Len(Kids(x)) = Len(Kids(y))
    BY <2>1, <2>2 DEF Agree
  <2> QED
    BY <2>4, <2>5, <2>6 DEF And, Is
<1>6. CASE x.type = "ArrayLiteral"
  <2>1. Kids(x) = x.parts[1].parts /\ Own(x) = x.data /\ Kids(y) = y.parts[1].parts /\ Own(y) = y.data
    BY <1>6, KidsOf
  <2>2. x.data = "" /\ y.data = ""
    BY <1>6, ArrayIs
  <2>4. M =
          And(Is(Len(Kids(x)) = Len(Kids(y))), MatchParts(x.parts[1], y.parts[1], m))
    BY <1>0, <1>6, <2>1, <1>c DEF MatchArrayLiteral
  <2>5. MatchParts(x.parts[1], y.parts[1], m) = AndAll(Each(x, y, m))
    BY <2>1 DEF MatchParts, Each
  <2>6. Agree(x, y) <=> Len(Kids(x)) = Len(Kids(y))
    BY <2>1, <2>2 DEF Agree
  <2> QED
    BY <2>4, <2>5, <2>6 DEF And, Is
<1>7. CASE x.type = "FunctionPrototype"
  <2>1. /\ Kids(x) = <<>> /\ Own(x) = <<x.data, x.parts>>
        /\ Kids(y) = <<>> /\ Own(y) = <<y.data, y.parts>>
    BY <1>7, KidsOf
  <2>2. Agree(x, y) <=> x.data = y.data /\ x.parts = y.parts
    BY <2>1 DEF Agree
  <2>3. M = Is(x.data = y.data /\ x.parts = y.parts)
    BY <1>0, <1>7, <1>c DEF MatchFunctionPrototype
  <2>4. AndAll(Each(x, y, m)) = "true"
    <3>1. Len(Kids(x)) = 0
      BY <2>1
    <3> QED
      BY <3>1, EachNone
  <2> QED
    BY <2>2, <2>3, <2>4 DEF And, Is
<1>8. CASE x.type = "FunctionStatement"
  <2>1. /\ Kids(x) = <<x.parts[2]>> /\ Own(x) = x.parts[1]
        /\ Kids(y) = <<y.parts[2]>> /\ Own(y) = y.parts[1]
    BY <1>8, KidsOf
  <2>2. Agree(x, y) <=> x.parts[1] = y.parts[1]
    BY <2>1 DEF Agree
  <2>3. M =
          And(MatchFunctionPrototype(x.parts[1], y.parts[1]), m[<<x.parts[2], y.parts[2]>>])
    BY <1>0, <1>8, <1>c DEF MatchFunctionStatement
  <2>4. MatchFunctionPrototype(x.parts[1], y.parts[1]) = Is(x.parts[1] = y.parts[1])
    <3>1. /\ x.parts[1] \in Trees /\ x.parts[1].type = "FunctionPrototype"
          /\ y.parts[1] \in Trees /\ y.parts[1].type = "FunctionPrototype"
      BY <1>8, FunctionIs
    <3>2. /\ x.parts[1] = Node("FunctionPrototype", x.parts[1].data, x.parts[1].parts)
          /\ y.parts[1] = Node("FunctionPrototype", y.parts[1].data, y.parts[1].parts)
      BY <3>1, TreeFacts
    <3>3. x.parts[1] = y.parts[1] <=>
            x.parts[1].data = y.parts[1].data /\ x.parts[1].parts = y.parts[1].parts
      BY <3>2
    <3> QED
      BY <3>3 DEF MatchFunctionPrototype, Is
  <2>5. AndAll(Each(x, y, m)) = m[<<x.parts[2], y.parts[2]>>]
    <3> DEFINE p == m[<<x.parts[2], y.parts[2]>>]
    <3>1. Len(Kids(x)) = 1 /\ Kids(x)[1] = x.parts[2] /\ Kids(y)[1] = y.parts[2]
      BY <2>1
    <3>2. Each(x, y, m) = [i \in 1..1 |-> p]
      BY <3>1 DEF Each
    <3> HIDE DEF p
    <3>3. AndAll([i \in 1..1 |-> p]) = p
      BY SingleAnds
    <3> QED
      BY <3>2, <3>3 DEF p
  <2>6. M = And(Is(x.parts[1] = y.parts[1]), AndAll(Each(x, y, m)))
    BY <2>3, <2>4, <2>5
  <2> QED
    BY <2>2, <2>6 DEF And, Is
<1> QED
  BY <1>1, <1>2, <1>3, <1>4, <1>5, <1>6, <1>7, <1>8, RegularKinds

-----------------------------------------------------------------------------
(* The other kinds of node, and pairs of nodes of different kinds.         *)

Apart(x, y) == x = Null \/ y = Null \/ x.type # y.type

Same(x, y, type) == x.type = type /\ y.type = type

Crashing(x, y) == Same(x, y, "ArgumentList") /\ (x.parts[1] = Null \/ y.parts[1] = Null)

Unmatched(x, y) ==
  /\ x # Null /\ y # Null /\ x.type = y.type
  /\ x.type \notin Classes \ {"TemplateLiteral"}

(* What kinds of pairs there are; Match does something else for each.      *)
LEMMA PairKinds ==
  ASSUME NEW x, NEW y
  PROVE  \/ Apart(x, y)
         \/ Regular(x) /\ Regular(y) /\ x.type = y.type
         \/ Crashing(x, y)
         \/ Same(x, y, "ObjectLiteral")
         \/ Same(x, y, "RegExpLiteral")
         \/ Same(x, y, "DeclarationList")
         \/ Same(x, y, "SwitchStatement")
         \/ Unmatched(x, y)
  BY DEF Apart, Regular, Crashing, Same, Unmatched

(* What answers for the properties of an object, the cases of a switch and *)
(* the declarations of a list.                                             *)
Properties(x) == x.parts[1].parts

Found(y, p) == {q \in {Properties(y)[j] : j \in 1..Len(Properties(y))} : q.data = p.data}

PropertyVerdicts(x, y, m) ==
  [i \in 1..Len(Properties(x)) |->
     IF Found(y, Properties(x)[i]) = {} THEN "false"
     ELSE m[<<(CHOOSE q \in Found(y, Properties(x)[i]) : TRUE).parts[1],
              Properties(x)[i].parts[1]>>]]

DeclarationVerdicts(x, y, m) ==
  [i \in 1..Len(Properties(x)) |->
     IF i <= Len(Properties(y)) THEN MatchValued(Properties(x)[i], Properties(y)[i], m)
     ELSE "undefined"]

Arms(x) == x.parts[2].parts

Default(x) == Arms(x)[Len(Arms(x))]

SameArms(x, y) == Default(x) # Null /\ Default(y) # Null /\ Len(Arms(y)) = Len(Arms(x))

CaseVerdicts(x, y, m) ==
  [i \in 1..Len(Arms(x)) - 1 |-> MatchParts(Arms(x)[i], Arms(y)[i], m)]

Negated(v) == CASE v = "true" -> "false" [] v = "false" -> "true" [] OTHER -> v

LEMMA ApartMatch ==
  ASSUME NEW x, NEW y, Apart(x, y), NEW m
  PROVE  MatchExpression(x, y, m) = Is(x = y)
  BY DEF Apart, MatchExpression, Is

LEMMA CrashMatch ==
  ASSUME NEW x, NEW y, Crashing(x, y), NEW m
  PROVE  MatchExpression(x, y, m) = "crash"
<1>1. "ArgumentList" \in Listing /\ "ArgumentList" \in Classes
  BY DEF Listing, Classes
<1>2. x # Null /\ y # Null /\ x.type = y.type /\ x.type \in Listing
  BY <1>1, NullIs DEF Crashing, Same
<1>3. MatchExpression(x, y, m) = MatchExpressionList(x.parts[1], y.parts[1], m)
  BY <1>2 DEF MatchExpression, Listing
<1> QED
  BY <1>3 DEF MatchExpressionList, Crashing

LEMMA ObjectMatch ==
  ASSUME NEW x, NEW y, Same(x, y, "ObjectLiteral"), NEW m
  PROVE  MatchExpression(x, y, m) =
           And(Is(Len(Properties(x)) = Len(Properties(y))), AndAll(PropertyVerdicts(x, y, m)))
<1>1. x # Null /\ y # Null /\ x.type = y.type /\ x.type = "ObjectLiteral"
  BY NullIs DEF Same, Classes, Others
<1>2. MatchExpression(x, y, m) = MatchObjectLiteral(x, y, m)
  BY <1>1 DEF MatchExpression
<1> QED
  BY <1>2 DEF MatchObjectLiteral, PropertyVerdicts, Properties, Found

LEMMA RegExpMatch ==
  ASSUME NEW x, NEW y, Same(x, y, "RegExpLiteral"), NEW m
  PROVE  MatchExpression(x, y, m) = "false"
<1>1. x # Null /\ y # Null /\ x.type = y.type /\ x.type = "RegExpLiteral"
  BY NullIs DEF Same, Classes, Others
<1> QED
  BY <1>1 DEF MatchExpression

LEMMA DeclarationsMatch ==
  ASSUME NEW x, NEW y, Same(x, y, "DeclarationList"), NEW m
  PROVE  MatchExpression(x, y, m) = AndAll(DeclarationVerdicts(x, y, m))
<1>1. x # Null /\ y # Null /\ x.type = y.type /\ x.type = "DeclarationList"
  BY NullIs DEF Same, Classes, Others
<1>2. MatchExpression(x, y, m) = MatchDeclarationList(x, y, m)
  BY <1>1 DEF MatchExpression
<1> QED
  BY <1>2 DEF MatchDeclarationList, DeclarationVerdicts, Properties

LEMMA ThrowMatch ==
  ASSUME NEW x, NEW y, Unmatched(x, y), NEW m
  PROVE  MatchExpression(x, y, m) = "throw"
<1>1. x # Null /\ y # Null /\ x.type = y.type /\ x.type \notin Classes \ {"TemplateLiteral"}
  BY DEF Unmatched
<1> QED
  BY <1>1 DEF MatchExpression, Classes, Constants, Valued, Accessing, Named, Plain, Listing, Others

(* What these nodes hold is lower than they are.                           *)
LEMMA PropertiesAre ==
  ASSUME NEW x \in Trees, x.type = "ObjectLiteral"
  PROVE  /\ Len(Properties(x)) \in Nat
         /\ \A i \in 1..Len(Properties(x)) :
              LET p == Properties(x)[i]
              IN  /\ p \in Trees /\ p.type = "property" /\ Len(p.parts) = 1
                  /\ p.parts[1] \in Expressions /\ Height[p.parts[1]] < Height[x]
<1>1. /\ Len(x.parts) = 1 /\ x.parts[1] \in Trees
      /\ \A i \in 1..Len(x.parts[1].parts) :
           LET p == x.parts[1].parts[i]
           IN  p \in Trees /\ p.type = "property" /\ Len(p.parts) = 1 /\ IsExpression(p.parts[1])
  BY ObjectIs
<1>2. Height[x.parts[1]] < Height[x] /\ Height[x] \in Nat
  BY <1>1, TreeFacts, Indices
<1>3. /\ Height[x.parts[1]] \in Nat /\ Len(x.parts[1].parts) \in Nat
      /\ \A i \in 1..Len(x.parts[1].parts) : Height[x.parts[1].parts[i]] < Height[x.parts[1]]
  BY <1>1, TreeFacts
<1>4. ASSUME NEW p \in Trees, Len(p.parts) = 1, IsExpression(p.parts[1]), Height[p] < Height[x.parts[1]]
      PROVE  p.parts[1] \in Expressions /\ Height[p.parts[1]] < Height[x]
  <2>1. p.parts[1] \in Trees /\ Height[p.parts[1]] < Height[p]
    BY <1>4, TreeFacts, Indices
  <2>2. Height[p] \in Nat /\ Height[p.parts[1]] \in Nat
    BY <2>1, TreeFacts
  <2> QED
    BY <1>2, <1>3, <1>4, <2>1, <2>2 DEF Expressions
<1> QED
  BY <1>1, <1>3, <1>4 DEF Properties

LEMMA DeclaredAre ==
  ASSUME NEW x \in Trees, x.type = "DeclarationList"
  PROVE  /\ Len(Properties(x)) \in Nat
         /\ \A i \in 1..Len(Properties(x)) :
              LET p == Properties(x)[i]
              IN  p \in Expressions /\ p.type = "Declaration" /\ p # Null /\ Height[p] < Height[x]
<1>1. /\ Len(x.parts) = 1 /\ x.parts[1] \in Trees
      /\ \A i \in 1..Len(x.parts[1].parts) :
           LET p == x.parts[1].parts[i]
           IN  p \in Trees /\ p.type = "Declaration" /\ p # Null
  BY DeclarationsAre
<1>2. Height[x.parts[1]] < Height[x] /\ Height[x] \in Nat
  BY <1>1, TreeFacts, Indices
<1>3. /\ Height[x.parts[1]] \in Nat /\ Len(x.parts[1].parts) \in Nat
      /\ \A i \in 1..Len(x.parts[1].parts) : Height[x.parts[1].parts[i]] < Height[x.parts[1]]
  BY <1>1, TreeFacts
<1>4. \A p \in Trees : Height[p] \in Nat /\ (p.type = "Declaration" => p \in Expressions)
  <2>1. "Declaration" \in Classes
    BY DEF Classes, Named
  <2> QED
    BY <2>1, TreeFacts, ExpressionIs DEF Expressions
<1> QED
  BY <1>1, <1>2, <1>3, <1>4 DEF Properties

LEMMA ArmsAre ==
  ASSUME NEW x \in Trees, x.type = "SwitchStatement"
  PROVE  /\ x.parts[1] \in Expressions /\ Height[x.parts[1]] < Height[x]
         /\ Len(Arms(x)) \in Nat /\ Len(Arms(x)) > 0
         /\ Default(x) \in Expressions /\ Height[Default(x)] < Height[x]
         /\ \A i \in 1..Len(Arms(x)) - 1 :
              LET p == Arms(x)[i]
              IN  /\ p \in Expressions /\ p.type = "CaseClauseStatement" /\ p # Null
                  /\ Height[p] < Height[x]
<1>1. /\ Len(x.parts) = 2 /\ x.parts[1] \in Expressions /\ x.parts[2] \in Trees
      /\ Len(Arms(x)) > 0 /\ Default(x) \in Expressions
      /\ \A i \in 1..Len(Arms(x)) - 1 :
           LET p == Arms(x)[i] IN p \in Trees /\ p.type = "CaseClauseStatement" /\ p # Null
  BY SwitchIs DEF Arms, Default
<1>2. Height[x.parts[1]] < Height[x] /\ Height[x.parts[2]] < Height[x] /\ Height[x] \in Nat
  BY <1>1, TreeFacts, Indices
<1>3. /\ Height[x.parts[2]] \in Nat /\ Len(Arms(x)) \in Nat
      /\ \A i \in 1..Len(Arms(x)) : Height[Arms(x)[i]] < Height[x.parts[2]]
  BY <1>1, TreeFacts DEF Arms
<1>4. \A p \in Trees : Height[p] \in Nat /\ (p.type = "CaseClauseStatement" => p \in Expressions)
  <2>1. "CaseClauseStatement" \in Classes
    BY DEF Classes, Plain
  <2> QED
    BY <2>1, TreeFacts, ExpressionIs DEF Expressions
<1>5. PICK n : n = Len(Arms(x))
  OBVIOUS
<1>6. n \in 1..n /\ \A i \in 1..n - 1 : i \in 1..n
  BY <1>1, <1>3, <1>5
<1>7. Default(x) = Arms(x)[n] /\ Default(x) \in Trees
  BY <1>1, <1>5 DEF Default, Expressions
<1>8. Height[Default(x)] < Height[x.parts[2]]
  BY <1>3, <1>5, <1>6, <1>7
<1>9. Height[Default(x)] < Height[x]
  BY <1>2, <1>3, <1>4, <1>7, <1>8
<1>10. \A i \in 1..n - 1 : Height[Arms(x)[i]] < Height[x]
  <2> TAKE i \in 1..n - 1
  <2>1. Arms(x)[i] \in Trees /\ Height[Arms(x)[i]] < Height[x.parts[2]]
    BY <1>1, <1>3, <1>5, <1>6
  <2> QED
    BY <1>2, <1>3, <1>4, <2>1
<1> QED
  BY <1>1, <1>2, <1>3, <1>4, <1>5, <1>9, <1>10

-----------------------------------------------------------------------------
(* What is answered for two trees depends on what is answered for lower    *)
(* ones, and is a verdict if these are.                                    *)

Rank(x, y) == Height[x] + Height[y]

AgreeBelow(g, h, n) == \A u, v \in Trees : Rank(u, v) < n => g[<<u, v>>] = h[<<u, v>>]

AnswersBelow(g, n) == \A u, v \in Trees : Rank(u, v) < n => g[<<u, v>>] \in Verdicts

(* The rank of a pair is a number, and lower for what the two trees hold.  *)
LEMMA RankIs ==
  ASSUME NEW x \in Trees, NEW y \in Trees
  PROVE  /\ Rank(x, y) \in Nat
         /\ \A u, v \in Trees : Height[u] < Height[x] /\ Height[v] < Height[y] =>
              Rank(u, v) < Rank(x, y) /\ Rank(v, u) < Rank(x, y)
<1>1. \A t \in Trees : Height[t] \in Nat
  BY TreeFacts
<1>2. \A i, j, k, l \in Nat : i < k /\ j < l => i + j < k + l /\ j + i < k + l
  OBVIOUS
<1> QED
  BY <1>1, <1>2 DEF Rank

LEMMA BelowLess ==
  ASSUME NEW g, NEW h, NEW x \in Trees, NEW y \in Trees, NEW u \in Trees, NEW v \in Trees,
         Rank(u, v) < Rank(x, y)
  PROVE  /\ AgreeBelow(g, h, Rank(x, y)) => AgreeBelow(g, h, Rank(u, v))
         /\ AnswersBelow(g, Rank(x, y)) => AnswersBelow(g, Rank(u, v))
<1>1. \A s, t \in Trees : Rank(s, t) \in Nat
  BY RankIs
<1>2. \A i, j, k \in Nat : i < j /\ j < k => i < k
  OBVIOUS
<1> QED
  BY <1>1, <1>2 DEF AgreeBelow, AnswersBelow

LEMMA AndAnswers ==
  /\ \A p, q \in Verdicts : And(p, q) \in Verdicts
  /\ \A c : Is(c) \in Verdicts
  /\ \A c, q : (c => q \in Verdicts) => And(Is(c), q) \in Verdicts
  /\ \A p \in Verdicts : Negated(p) \in Verdicts
  BY DEF And, Is, Verdicts, Negated

LEMMA AndAllAnswers ==
  ASSUME NEW n \in Nat, NEW f, f = [i \in 1..n |-> f[i]], \A i \in 1..n : f[i] \in Verdicts
  PROVE  AndAll(f) \in Verdicts
<1>1. AndAll(f) = "true" \/ \E i \in 1..n : f[i] = AndAll(f)
  BY AndAllOf
<1> QED
  BY <1>1 DEF Verdicts

LEMMA PartsDepend ==
  ASSUME NEW x \in Trees, NEW y \in Trees, x.type = y.type, x.type \in Named \union Plain,
         NEW g, NEW h
  PROVE  /\ AgreeBelow(g, h, Rank(x, y)) =>
              MatchParts(x, y, g) = MatchParts(x, y, h) /\ MatchValued(x, y, g) = MatchValued(x, y, h)
         /\ AnswersBelow(g, Rank(x, y)) =>
              MatchParts(x, y, g) \in Verdicts /\ MatchValued(x, y, g) \in Verdicts
<1>1. Len(x.parts) = Len(y.parts)
  BY SimpleIs
<1>2. Len(x.parts) \in Nat
      /\ \A i \in 1..Len(x.parts) : /\ x.parts[i] \in Trees /\ y.parts[i] \in Trees
                                   /\ Height[x.parts[i]] < Height[x] /\ Height[y.parts[i]] < Height[y]
  BY <1>1, TreeFacts
<1>3. \A i \in 1..Len(x.parts) : Rank(x.parts[i], y.parts[i]) < Rank(x, y)
  BY <1>2, RankIs
<1>4. ASSUME AgreeBelow(g, h, Rank(x, y))
      PROVE  MatchParts(x, y, g) = MatchParts(x, y, h)
  <2>1. \A i \in 1..Len(x.parts) : g[<<x.parts[i], y.parts[i]>>] = h[<<x.parts[i], y.parts[i]>>]
    BY <1>2, <1>3, <1>4 DEF AgreeBelow
  <2> QED
    BY <2>1 DEF MatchParts
<1>5. ASSUME AnswersBelow(g, Rank(x, y))
      PROVE  MatchParts(x, y, g) \in Verdicts
  <2>1. \A i \in 1..Len(x.parts) : g[<<x.parts[i], y.parts[i]>>] \in Verdicts
    BY <1>2, <1>3, <1>5 DEF AnswersBelow
  <2> DEFINE f == [i \in 1..Len(x.parts) |-> g[<<x.parts[i], y.parts[i]>>]]
  <2>2. f = [i \in 1..Len(x.parts) |-> f[i]] /\ \A i \in 1..Len(x.parts) : f[i] \in Verdicts
    BY <2>1
  <2>3. MatchParts(x, y, g) = AndAll(f)
    BY DEF MatchParts
  <2> HIDE DEF f
  <2> QED
    BY <1>2, <2>2, <2>3, AndAllAnswers
<1> QED
  BY <1>4, <1>5, AndAnswers DEF MatchValued

LEMMA FoundIs ==
  ASSUME NEW y, NEW p, Found(y, p) # {}
  PROVE  \E k \in 1..Len(Properties(y)) :
           /\ (CHOOSE q \in Found(y, p) : TRUE) = Properties(y)[k]
           /\ Properties(y)[k].data = p.data
<1>1. (CHOOSE q \in Found(y, p) : TRUE) \in Found(y, p)
  OBVIOUS
<1> QED
  BY <1>1 DEF Found

LEMMA PropertiesDepend ==
  ASSUME NEW x \in Trees, NEW y \in Trees, Same(x, y, "ObjectLiteral"), NEW g, NEW h
  PROVE  /\ AgreeBelow(g, h, Rank(x, y)) => PropertyVerdicts(x, y, g) = PropertyVerdicts(x, y, h)
         /\ AnswersBelow(g, Rank(x, y)) => AndAll(PropertyVerdicts(x, y, g)) \in Verdicts
<1> DEFINE n == Len(Properties(x))
           Other(i) == CHOOSE q \in Found(y, Properties(x)[i]) : TRUE
<1>1. n \in Nat
  BY PropertiesAre DEF Same
<1>2. ASSUME NEW i \in 1..n, Found(y, Properties(x)[i]) # {}
      PROVE  /\ Other(i).parts[1] \in Trees /\ Properties(x)[i].parts[1] \in Trees
             /\ Rank(Other(i).parts[1], Properties(x)[i].parts[1]) < Rank(x, y)
  <2>1. PICK k \in 1..Len(Properties(y)) : Other(i) = Properties(y)[k]
    BY <1>2, FoundIs
  <2>2. /\ Properties(y)[k].parts[1] \in Expressions
        /\ Height[Properties(y)[k].parts[1]] < Height[y]
    BY PropertiesAre DEF Same
  <2>3. /\ Properties(x)[i].parts[1] \in Expressions
        /\ Height[Properties(x)[i].parts[1]] < Height[x]
    BY PropertiesAre DEF Same
  <2> QED
    BY <2>1, <2>2, <2>3, RankIs DEF Expressions
<1> DEFINE Verdict(m, i) == IF Found(y, Properties(x)[i]) = {} THEN "false"
                            ELSE m[<<Other(i).parts[1], Properties(x)[i].parts[1]>>]
<1>3. \A m : PropertyVerdicts(x, y, m) = [i \in 1..n |-> Verdict(m, i)]
  BY DEF PropertyVerdicts
<1>4. ASSUME AgreeBelow(g, h, Rank(x, y)), NEW i \in 1..n
      PROVE  Verdict(g, i) = Verdict(h, i)
  <2> HIDE DEF Other
  <2> QED
    BY <1>2, <1>4 DEF AgreeBelow
<1>5. ASSUME AnswersBelow(g, Rank(x, y)), NEW i \in 1..n
      PROVE  Verdict(g, i) \in Verdicts
  <2> HIDE DEF Other
  <2>1. "false" \in Verdicts
    BY DEF Verdicts
  <2> QED
    BY <1>2, <1>5, <2>1 DEF AnswersBelow
<1> HIDE DEF Verdict, n
<1>6. AgreeBelow(g, h, Rank(x, y)) => PropertyVerdicts(x, y, g) = PropertyVerdicts(x, y, h)
  BY <1>3, <1>4
<1>7. ASSUME AnswersBelow(g, Rank(x, y)) PROVE AndAll(PropertyVerdicts(x, y, g)) \in Verdicts
  <2> DEFINE f == [i \in 1..n |-> Verdict(g, i)]
  <2>1. f = [i \in 1..n |-> f[i]] /\ \A i \in 1..n : f[i] \in Verdicts
    BY <1>5, <1>7
  <2>2. PropertyVerdicts(x, y, g) = f
    BY <1>3
  <2> HIDE DEF f
  <2> QED
    BY <1>1, <2>1, <2>2, AndAllAnswers
<1> QED
  BY <1>6, <1>7

LEMMA DeclarationsDepend ==
  ASSUME NEW x \in Trees, NEW y \in Trees, Same(x, y, "DeclarationList"), NEW g, NEW h
  PROVE  /\ AgreeBelow(g, h, Rank(x, y)) =>
              DeclarationVerdicts(x, y, g) = DeclarationVerdicts(x, y, h)
         /\ AnswersBelow(g, Rank(x, y)) => AndAll(DeclarationVerdicts(x, y, g)) \in Verdicts
<1> DEFINE n == Len(Properties(x))
<1>1. n \in Nat /\ Len(Properties(y)) \in Nat
  BY DeclaredAre DEF Same
<1>2. ASSUME NEW i \in 1..n, i <= Len(Properties(y))
      PROVE  /\ AgreeBelow(g, h, Rank(x, y)) =>
                  MatchValued(Properties(x)[i], Properties(y)[i], g)
                    = MatchValued(Properties(x)[i], Properties(y)[i], h)
             /\ AnswersBelow(g, Rank(x, y)) =>
                  MatchValued(Properties(x)[i], Properties(y)[i], g) \in Verdicts
  <2>1. i \in 1..Len(Properties(y))
    BY <1>1, <1>2
  <2>2. PICK d, e : d = Properties(x)[i] /\ e = Properties(y)[i]
    OBVIOUS
  <2>3. d \in Trees /\ e \in Trees /\ d.type = "Declaration" /\ e.type = "Declaration"
        /\ Height[d] < Height[x] /\ Height[e] < Height[y]
    BY <2>1, <2>2, DeclaredAre DEF Same, Expressions
  <2>4. d.type = e.type /\ d.type \in Named \union Plain /\ Rank(d, e) < Rank(x, y)
    BY <2>3, RankIs DEF Named
  <2>5. /\ AgreeBelow(g, h, Rank(x, y)) => AgreeBelow(g, h, Rank(d, e))
        /\ AnswersBelow(g, Rank(x, y)) => AnswersBelow(g, Rank(d, e))
    BY <2>3, <2>4, BelowLess
  <2>6. /\ AgreeBelow(g, h, Rank(d, e)) => MatchValued(d, e, g) = MatchValued(d, e, h)
        /\ AnswersBelow(g, Rank(d, e)) => MatchValued(d, e, g) \in Verdicts
    BY <2>3, <2>4, PartsDepend
  <2> QED
    BY <2>2, <2>5, <2>6
<1> DEFINE Verdict(m, i) ==
             IF i <= Len(Properties(y)) THEN MatchValued(Properties(x)[i], Properties(y)[i], m)
             ELSE "undefined"
<1>3. \A m : DeclarationVerdicts(x, y, m) = [i \in 1..n |-> Verdict(m, i)]
  BY DEF DeclarationVerdicts
<1>4. ASSUME AgreeBelow(g, h, Rank(x, y)), NEW i \in 1..n
      PROVE  Verdict(g, i) = Verdict(h, i)
  BY <1>2, <1>4
<1>5. ASSUME AnswersBelow(g, Rank(x, y)), NEW i \in 1..n
      PROVE  Verdict(g, i) \in Verdicts
  <2>1. "undefined" \in Verdicts
    BY DEF Verdicts
  <2> QED
    BY <1>2, <1>5, <2>1
<1> HIDE DEF Verdict, n
<1>6. AgreeBelow(g, h, Rank(x, y)) => DeclarationVerdicts(x, y, g) = DeclarationVerdicts(x, y, h)
  BY <1>3, <1>4
<1>7. ASSUME AnswersBelow(g, Rank(x, y)) PROVE AndAll(DeclarationVerdicts(x, y, g)) \in Verdicts
  <2> DEFINE f == [i \in 1..n |-> Verdict(g, i)]
  <2>1. f = [i \in 1..n |-> f[i]] /\ \A i \in 1..n : f[i] \in Verdicts
    BY <1>5, <1>7
  <2>2. DeclarationVerdicts(x, y, g) = f
    BY <1>3
  <2> HIDE DEF f
  <2> QED
    BY <1>1, <2>1, <2>2, AndAllAnswers
<1> QED
  BY <1>6, <1>7

LEMMA ArmsDepend ==
  ASSUME NEW x \in Trees, NEW y \in Trees, Same(x, y, "SwitchStatement"), NEW g, NEW h
  PROVE  /\ AgreeBelow(g, h, Rank(x, y)) =>
              /\ g[<<x.parts[1], y.parts[1]>>] = h[<<x.parts[1], y.parts[1]>>]
              /\ SameArms(x, y) => /\ CaseVerdicts(x, y, g) = CaseVerdicts(x, y, h)
                                   /\ g[<<Default(x), Default(y)>>] = h[<<Default(x), Default(y)>>]
         /\ AnswersBelow(g, Rank(x, y)) =>
              /\ g[<<x.parts[1], y.parts[1]>>] \in Verdicts
              /\ SameArms(x, y) => /\ AndAll(CaseVerdicts(x, y, g)) \in Verdicts
                                   /\ g[<<Default(x), Default(y)>>] \in Verdicts
<1>1. /\ x.parts[1] \in Trees /\ Height[x.parts[1]] < Height[x]
      /\ Default(x) \in Trees /\ Height[Default(x)] < Height[x]
      /\ Len(Arms(x)) \in Nat /\ Len(Arms(x)) > 0
  BY ArmsAre DEF Same, Expressions
<1>2. /\ y.parts[1] \in Trees /\ Height[y.parts[1]] < Height[y]
      /\ Default(y) \in Trees /\ Height[Default(y)] < Height[y]
  BY ArmsAre DEF Same, Expressions
<1>3. Rank(x.parts[1], y.parts[1]) < Rank(x, y) /\ Rank(Default(x), Default(y)) < Rank(x, y)
  BY <1>1, <1>2, RankIs
<1> DEFINE n == Len(Arms(x)) - 1
<1>4. n \in Nat
  BY <1>1
<1>5. ASSUME SameArms(x, y), NEW i \in 1..n
      PROVE  /\ AgreeBelow(g, h, Rank(x, y)) =>
                  MatchParts(Arms(x)[i], Arms(y)[i], g) = MatchParts(Arms(x)[i], Arms(y)[i], h)
             /\ AnswersBelow(g, Rank(x, y)) => MatchParts(Arms(x)[i], Arms(y)[i], g) \in Verdicts
  <2>1. i \in 1..Len(Arms(y)) - 1
    BY <1>5 DEF SameArms
  <2>2. PICK d, e : d = Arms(x)[i] /\ e = Arms(y)[i]
    OBVIOUS
  <2>3. d \in Trees /\ d.type = "CaseClauseStatement" /\ Height[d] < Height[x]
    BY <2>2, ArmsAre DEF Same, Expressions
  <2>3b. e \in Trees /\ e.type = "CaseClauseStatement" /\ Height[e] < Height[y]
    BY <2>1, <2>2, ArmsAre DEF Same, Expressions
  <2>4. d.type = e.type /\ d.type \in Named \union Plain /\ Rank(d, e) < Rank(x, y)
    BY <2>3, <2>3b, RankIs DEF Plain
  <2>5. /\ AgreeBelow(g, h, Rank(x, y)) => AgreeBelow(g, h, Rank(d, e))
        /\ AnswersBelow(g, Rank(x, y)) => AnswersBelow(g, Rank(d, e))
    BY <2>3, <2>3b, <2>4, BelowLess
  <2>6. /\ AgreeBelow(g, h, Rank(d, e)) => MatchParts(d, e, g) = MatchParts(d, e, h)
        /\ AnswersBelow(g, Rank(d, e)) => MatchParts(d, e, g) \in Verdicts
    BY <2>3, <2>3b, <2>4, PartsDepend
  <2> QED
    BY <2>2, <2>5, <2>6
<1>6. \A m : CaseVerdicts(x, y, m) = [i \in 1..n |-> MatchParts(Arms(x)[i], Arms(y)[i], m)]
  BY DEF CaseVerdicts
<1> HIDE DEF n
<1>7. AgreeBelow(g, h, Rank(x, y)) /\ SameArms(x, y) => CaseVerdicts(x, y, g) = CaseVerdicts(x, y, h)
  BY <1>5, <1>6
<1>8. ASSUME AnswersBelow(g, Rank(x, y)), SameArms(x, y)
      PROVE  AndAll(CaseVerdicts(x, y, g)) \in Verdicts
  <2> DEFINE f == [i \in 1..n |-> MatchParts(Arms(x)[i], Arms(y)[i], g)]
  <2>1. f = [i \in 1..n |-> f[i]] /\ \A i \in 1..n : f[i] \in Verdicts
    BY <1>5, <1>8
  <2>2. CaseVerdicts(x, y, g) = f
    BY <1>6
  <2> HIDE DEF f
  <2> QED
    BY <1>4, <2>1, <2>2, AndAllAnswers
<1>9. /\ AgreeBelow(g, h, Rank(x, y)) => /\ g[<<x.parts[1], y.parts[1]>>] = h[<<x.parts[1], y.parts[1]>>]
                                         /\ g[<<Default(x), Default(y)>>] = h[<<Default(x), Default(y)>>]
      /\ AnswersBelow(g, Rank(x, y)) => /\ g[<<x.parts[1], y.parts[1]>>] \in Verdicts
                                        /\ g[<<Default(x), Default(y)>>] \in Verdicts
  BY <1>1, <1>2, <1>3 DEF AgreeBelow, AnswersBelow
<1> QED
  BY <1>7, <1>8, <1>9

(* A switch statement in two parts, as its lists have the same arms or not. *)
LEMMA SwitchMatch ==
  ASSUME NEW x, NEW y, Same(x, y, "SwitchStatement"), NEW m
  PROVE  MatchExpression(x, y, m) =
           And(m[<<x.parts[1], y.parts[1]>>],
               IF SameArms(x, y)
               THEN And(AndAll(CaseVerdicts(x, y, m)), Negated(m[<<Default(x), Default(y)>>]))
               ELSE "false")
<1> DEFINE M == MatchExpression(x, y, m)
<1>1. M = And(m[<<x.parts[1], y.parts[1]>>],
              And(And(Is(SameArms(x, y)), AndAll(CaseVerdicts(x, y, m))),
                  Negated(m[<<Default(x), Arms(y)[Len(Arms(x))]>>])))
  <2>1. x # Null /\ y # Null /\ x.type = y.type /\ x.type = "SwitchStatement"
    BY NullIs DEF Same, Classes, Others
  <2>2. M = MatchSwitchStatement(x, y, m)
    BY <2>1 DEF MatchExpression
  <2> QED
    BY <2>2 DEF MatchSwitchStatement, MatchClausesList, SameArms, HasDefaultCase, CaseVerdicts,
                Default, Arms, Negated
<1>2. CASE SameArms(x, y)
  <2>1. Arms(y)[Len(Arms(x))] = Default(y)
    BY <1>2 DEF SameArms, Default
  <2>2. And(Is(SameArms(x, y)), AndAll(CaseVerdicts(x, y, m))) = AndAll(CaseVerdicts(x, y, m))
    BY <1>2 DEF And, Is
  <2> QED
    BY <1>1, <1>2, <2>1, <2>2
<1>3. CASE ~SameArms(x, y)
  <2>1. \A v, w : And(And(Is(SameArms(x, y)), v), w) = "false"
    BY <1>3 DEF And, Is
  <2> QED
    BY <1>1, <1>3, <2>1
<1> QED
  BY <1>2, <1>3

LEMMA EachDepends ==
  ASSUME NEW x \in Trees, NEW y \in Trees, Regular(x), Regular(y), Agree(x, y), NEW g, NEW h
  PROVE  /\ AgreeBelow(g, h, Rank(x, y)) => Each(x, y, g) = Each(x, y, h)
         /\ AnswersBelow(g, Rank(x, y)) => AndAll(Each(x, y, g)) \in Verdicts
<1> DEFINE n == Len(Kids(x))
<1>1. /\ n \in Nat
      /\ \A i \in 1..n : Kids(x)[i] \in Trees /\ Height[Kids(x)[i]] < Height[x]
  BY KidsAre DEF Expressions
<1>2. \A i \in 1..n : Kids(y)[i] \in Trees /\ Height[Kids(y)[i]] < Height[y]
  BY KidsAre DEF Expressions, Agree
<1>3. \A i \in 1..n : Rank(Kids(x)[i], Kids(y)[i]) < Rank(x, y)
  BY <1>1, <1>2, RankIs
<1>4. \A m : Each(x, y, m) = [i \in 1..n |-> m[<<Kids(x)[i], Kids(y)[i]>>]]
  BY DEF Each
<1> HIDE DEF n
<1>5. ASSUME AgreeBelow(g, h, Rank(x, y)) PROVE Each(x, y, g) = Each(x, y, h)
  <2>1. \A i \in 1..n : g[<<Kids(x)[i], Kids(y)[i]>>] = h[<<Kids(x)[i], Kids(y)[i]>>]
    BY <1>1, <1>2, <1>3, <1>5 DEF AgreeBelow
  <2> QED
    BY <1>4, <2>1
<1>6. ASSUME AnswersBelow(g, Rank(x, y)) PROVE AndAll(Each(x, y, g)) \in Verdicts
  <2> DEFINE f == [i \in 1..n |-> g[<<Kids(x)[i], Kids(y)[i]>>]]
  <2>1. \A i \in 1..n : g[<<Kids(x)[i], Kids(y)[i]>>] \in Verdicts
    BY <1>1, <1>2, <1>3, <1>6 DEF AnswersBelow
  <2>2. f = [i \in 1..n |-> f[i]] /\ \A i \in 1..n : f[i] \in Verdicts
    BY <2>1
  <2>3. Each(x, y, g) = f
    BY <1>4
  <2> HIDE DEF f
  <2> QED
    BY <1>1, <2>2, <2>3, AndAllAnswers
<1> QED
  BY <1>5, <1>6

(* What Match answers for a pair depends on what is answered for pairs of  *)
(* lower rank.                                                             *)
LEMMA MatchDepends ==
  ASSUME NEW x \in Trees, NEW y \in Trees, NEW g, NEW h
  PROVE  /\ AgreeBelow(g, h, Rank(x, y)) => MatchExpression(x, y, g) = MatchExpression(x, y, h)
         /\ AnswersBelow(g, Rank(x, y)) => MatchExpression(x, y, g) \in Verdicts
<1>0. \A c, p : And(Is(c), p) = IF c THEN p ELSE "false"
  BY DEF And, Is
<1>1. CASE Apart(x, y)
  <2>1. \A m : MatchExpression(x, y, m) = Is(x = y)
    BY <1>1, ApartMatch
  <2> QED
    BY <2>1, AndAnswers
<1>2. CASE Regular(x) /\ Regular(y) /\ x.type = y.type
  <2>1. \A m : MatchExpression(x, y, m) = And(Is(Agree(x, y)), AndAll(Each(x, y, m)))
    BY <1>2, RegularMatch
  <2>2. CASE Agree(x, y)
    <3>1. \A m : MatchExpression(x, y, m) = AndAll(Each(x, y, m))
      BY <2>1, <2>2 DEF And, Is
    <3>2. /\ AgreeBelow(g, h, Rank(x, y)) => Each(x, y, g) = Each(x, y, h)
          /\ AnswersBelow(g, Rank(x, y)) => AndAll(Each(x, y, g)) \in Verdicts
      BY <1>2, <2>2, EachDepends
    <3> QED
      BY <3>1, <3>2
  <2>3. CASE ~Agree(x, y)
    <3>1. \A m : MatchExpression(x, y, m) = "false"
      BY <2>1, <2>3 DEF And, Is
    <3> QED
      BY <3>1 DEF Verdicts
  <2> QED
    BY <2>2, <2>3
<1>3. CASE Crashing(x, y)
  <2>1. \A m : MatchExpression(x, y, m) = "crash"
    BY <1>3, CrashMatch
  <2> QED
    BY <2>1 DEF Verdicts
<1>4. CASE Same(x, y, "ObjectLiteral")
  <2>1. \A m : MatchExpression(x, y, m) =
                 And(Is(Len(Properties(x)) = Len(Properties(y))), AndAll(PropertyVerdicts(x, y, m)))
    BY <1>4, ObjectMatch
  <2>2. /\ AgreeBelow(g, h, Rank(x, y)) => PropertyVerdicts(x, y, g) = PropertyVerdicts(x, y, h)
        /\ AnswersBelow(g, Rank(x, y)) => AndAll(PropertyVerdicts(x, y, g)) \in Verdicts
    BY <1>4, PropertiesDepend
  <2> QED
    BY <2>1, <2>2, AndAnswers
<1>5. CASE Same(x, y, "RegExpLiteral")
  <2>1. \A m : MatchExpression(x, y, m) = "false"
    BY <1>5, RegExpMatch
  <2> QED
    BY <2>1 DEF Verdicts
<1>6. CASE Same(x, y, "DeclarationList")
  <2>1. \A m : MatchExpression(x, y, m) = AndAll(DeclarationVerdicts(x, y, m))
    BY <1>6, DeclarationsMatch
  <2>2. /\ AgreeBelow(g, h, Rank(x, y)) => DeclarationVerdicts(x, y, g) = DeclarationVerdicts(x, y, h)
        /\ AnswersBelow(g, Rank(x, y)) => AndAll(DeclarationVerdicts(x, y, g)) \in Verdicts
    BY <1>6, DeclarationsDepend
  <2> QED
    BY <2>1, <2>2
<1>7. CASE Same(x, y, "SwitchStatement")
  <2>1. \A m : MatchExpression(x, y, m) =
           And(m[<<x.parts[1], y.parts[1]>>],
               IF SameArms(x, y)
               THEN And(AndAll(CaseVerdicts(x, y, m)), Negated(m[<<Default(x), Default(y)>>]))
               ELSE "false")
    BY <1>7, SwitchMatch
  <2>2. /\ AgreeBelow(g, h, Rank(x, y)) =>
              /\ g[<<x.parts[1], y.parts[1]>>] = h[<<x.parts[1], y.parts[1]>>]
              /\ SameArms(x, y) => /\ CaseVerdicts(x, y, g) = CaseVerdicts(x, y, h)
                                   /\ g[<<Default(x), Default(y)>>] = h[<<Default(x), Default(y)>>]
        /\ AnswersBelow(g, Rank(x, y)) =>
              /\ g[<<x.parts[1], y.parts[1]>>] \in Verdicts
              /\ SameArms(x, y) => /\ AndAll(CaseVerdicts(x, y, g)) \in Verdicts
                                   /\ g[<<Default(x), Default(y)>>] \in Verdicts
    BY <1>7, ArmsDepend
  <2>3. AgreeBelow(g, h, Rank(x, y)) => MatchExpression(x, y, g) = MatchExpression(x, y, h)
    BY <2>1, <2>2
  <2>4. ASSUME AnswersBelow(g, Rank(x, y)) PROVE MatchExpression(x, y, g) \in Verdicts
    <3>1. CASE SameArms(x, y)
      BY <2>1, <2>2, <2>4, <3>1, AndAnswers
    <3>2. CASE ~SameArms(x, y)
      <4>1. "false" \in Verdicts
        BY DEF Verdicts
      <4> QED
        BY <2>1, <2>2, <2>4, <3>2, <4>1, AndAnswers
    <3> QED
      BY <3>1, <3>2
  <2> QED
    BY <2>3, <2>4
<1>8. CASE Unmatched(x, y)
  <2>1. \A m : MatchExpression(x, y, m) = "throw"
    BY <1>8, ThrowMatch
  <2> QED
    BY <2>1 DEF Verdicts
<1> QED
  BY <1>1, <1>2, <1>3, <1>4, <1>5, <1>6, <1>7, <1>8, PairKinds

-----------------------------------------------------------------------------
(* A function defined by its values at elements of lower rank exists.      *)

(* What step gives for d depends on g at elements of lower rank only.      *)
Recursion(E, V, rank, step) ==
  /\ V # {} /\ rank \in [E -> Nat] /\ step \in [E -> [[E -> V] -> V]]
  /\ \A d \in E : \A g, h \in [E -> V] :
       (\A e \in E : rank[e] < rank[d] => g[e] = h[e]) => step[d][g] = step[d][h]

Solved(E, V, step) == \E f \in [E -> V] : \A d \in E : f[d] = step[d][f]

(* A step that depends on lower ranks defines a function: the functions on *)
(* the elements up to a rank exist and agree, by induction on ranks, and   *)
(* their union is the one.                                                 *)
LEMMA RecursiveFunctions ==
  ASSUME NEW E, NEW V, NEW rank, NEW step, Recursion(E, V, rank, step)
  PROVE  Solved(E, V, step)
<1>r. /\ rank \in [E -> Nat] /\ step \in [E -> [[E -> V] -> V]]
      /\ \A d \in E : \A g, h \in [E -> V] :
           (\A e \in E : rank[e] < rank[d] => g[e] = h[e]) => step[d][g] = step[d][h]
  BY DEF Recursion
<1>v. PICK v : v \in V
  BY DEF Recursion
<1> DEFINE Good(n, g) == g \in [E -> V] /\ \A d \in E : rank[d] < n => g[d] = step[d][g]
           Missing == {n \in Nat : ~\E g : Good(n, g)}
<1>0. /\ \A i, j, k \in Nat : i < j /\ j < k + 1 => i < k
      /\ \A i \in Nat : ~(i < 0)
      /\ \A i \in Nat : i # 0 => i - 1 \in Nat /\ i - 1 < i /\ (i - 1) + 1 = i
      /\ \A i, j \in Nat : i <= j \/ j < i
      /\ \A i, j \in Nat : i <= j => ~(j < i)
      /\ \A i \in Nat : i < i + 1 /\ i + 1 \in Nat
      /\ \A i, j, k \in Nat : i < j /\ j < k => i < k
      /\ \A i, j \in Nat : i < j => i < j + 1
      /\ \A i, j, k \in Nat : i < j /\ j < k + 1 => i < k + 1
  OBVIOUS
<1>1. \A n \in Nat : \E g : Good(n, g)
  <2> SUFFICES ASSUME Missing # {} PROVE FALSE
    OBVIOUS
  <2>1. PICK n \in Missing : \A k \in Missing : n <= k
    <3>1. Missing \in SUBSET Nat
      OBVIOUS
    <3> HIDE DEF Missing
    <3> QED
      BY <3>1, LeastOf
  <2>2. n # 0
    <3>1. Good(0, [d \in E |-> v])
      BY <1>0, <1>v, <1>r
    <3> QED
      BY <3>1
  <2>3. n \in Nat /\ n - 1 \in Nat /\ n - 1 \notin Missing
    BY <1>0, <2>1, <2>2
  <2>4. PICK g : Good(n - 1, g)
    BY <2>3
  <2> DEFINE h == [d \in E |-> step[d][g]]
  <2>5. h \in [E -> V]
    BY <1>r, <2>4
  <2>6. PICK k \in Nat : k = n - 1
    BY <2>3
  <2>7. n = k + 1
    BY <2>3, <2>6
  <2>8. ASSUME NEW d \in E, rank[d] < n PROVE h[d] = step[d][h]
    <3>1. \A e \in E : rank[e] < rank[d] => g[e] = h[e]
      <4> TAKE e \in E
      <4> HAVE rank[e] < rank[d]
      <4>1. rank[e] < k
        BY <1>0, <1>r, <2>7, <2>8
      <4> QED
        BY <2>4, <2>6, <4>1
    <3>2. step[d][g] = step[d][h]
      <4> HIDE DEF h
      <4> QED
        BY <1>r, <2>4, <2>5, <3>1
    <3> QED
      BY <3>2
  <2>9. Good(n, h)
    <3> HIDE DEF h
    <3> QED
      BY <2>5, <2>8
  <2> QED
    BY <2>1, <2>9
<1>2. ASSUME NEW m \in Nat, NEW n \in Nat, NEW g, NEW h, Good(m, g), Good(n, h)
      PROVE  \A d \in E : rank[d] < m /\ rank[d] < n => g[d] = h[d]
  <2> DEFINE Ranks == {rank[d] : d \in {e \in E : rank[e] < m /\ rank[e] < n /\ g[e] # h[e]}}
  <2> SUFFICES ASSUME Ranks # {} PROVE FALSE
    <3>1. ASSUME Ranks = {}, NEW d \in E, rank[d] < m, rank[d] < n PROVE g[d] = h[d]
      <4>1. rank[d] \notin Ranks
        BY <3>1
      <4> QED
        BY <3>1, <4>1
    <3> HIDE DEF Ranks
    <3> QED
      BY <3>1
  <2>1. PICK r \in Ranks : \A k \in Ranks : r <= k
    <3>1. Ranks \in SUBSET Nat
      BY <1>r
    <3> HIDE DEF Ranks
    <3> QED
      BY <3>1, LeastOf
  <2>2. PICK d \in E : rank[d] = r /\ rank[d] < m /\ rank[d] < n /\ g[d] # h[d]
    BY <2>1
  <2>3. \A e \in E : rank[e] < rank[d] => g[e] = h[e]
    <3> TAKE e \in E
    <3> HAVE rank[e] < rank[d]
    <3>1. rank[e] < m /\ rank[e] < n
      BY <1>0, <1>r, <2>2
    <3> SUFFICES ASSUME g[e] # h[e] PROVE FALSE
      OBVIOUS
    <3>2. rank[e] \in Ranks
      BY <3>1
    <3>3. r <= rank[e] /\ r \in Nat /\ rank[e] \in Nat
      BY <1>r, <2>1, <2>2, <3>2
    <3> QED
      BY <1>0, <2>2, <3>3
  <2>4. step[d][g] = step[d][h]
    BY <1>r, <1>2, <2>3
  <2> QED
    BY <1>2, <2>2, <2>4
<1> DEFINE Upto(d) == CHOOSE g : Good(rank[d] + 1, g)
           f == [d \in E |-> Upto(d)[d]]
<1>3. \A d \in E : rank[d] \in Nat /\ rank[d] + 1 \in Nat /\ Good(rank[d] + 1, Upto(d))
  <2> TAKE d \in E
  <2>1. rank[d] \in Nat /\ rank[d] + 1 \in Nat
    BY <1>0, <1>r
  <2>2. \E g : Good(rank[d] + 1, g)
    BY <1>1, <2>1
  <2> HIDE DEF Good
  <2> QED
    BY <2>1, <2>2
<1> HIDE DEF Upto
<1>4. f \in [E -> V]
  BY <1>3
<1>5. ASSUME NEW d \in E PROVE f[d] = step[d][f]
  <2>1. \A e \in E : rank[e] < rank[d] => Upto(d)[e] = f[e]
    <3> TAKE e \in E
    <3> HAVE rank[e] < rank[d]
    <3>1. rank[e] < rank[e] + 1 /\ rank[e] < rank[d] + 1
      BY <1>0, <1>r, <1>3
    <3>2. Upto(d)[e] = Upto(e)[e]
      <4> HIDE DEF Good
      <4> QED
        BY <1>2, <1>3, <3>1
    <3> QED
      BY <3>2
  <2>2. Upto(d)[d] = step[d][Upto(d)]
    BY <1>0, <1>3
  <2>3. Upto(d) \in [E -> V]
    BY <1>3
  <2>4. step[d][Upto(d)] = step[d][f]
    <3> HIDE DEF f
    <3> QED
      BY <1>r, <1>4, <2>1, <2>3
  <2> QED
    BY <2>2, <2>4
<1> HIDE DEF f
<1> QED
  BY <1>4, <1>5 DEF Solved

LEMMA RankInduction ==
  ASSUME NEW E, NEW S, NEW rank \in [E -> Nat],
         \A d \in E : (\A e \in E : rank[e] < rank[d] => e \in S) => d \in S
  PROVE  \A d \in E : d \in S
<1> DEFINE Ranks == {rank[d] : d \in {e \in E : e \notin S}}
<1> SUFFICES ASSUME Ranks # {} PROVE FALSE
  OBVIOUS
<1>1. PICK r \in Ranks : \A k \in Ranks : r <= k
  <2>1. Ranks \in SUBSET Nat
    OBVIOUS
  <2> HIDE DEF Ranks
  <2> QED
    BY <2>1, LeastOf
<1>2. PICK d \in E : rank[d] = r /\ d \notin S
  BY <1>1
<1>3. \A i, j \in Nat : i <= j => ~(j < i)
  OBVIOUS
<1>4. ASSUME NEW e \in E, rank[e] < rank[d] PROVE e \in S
  <2> SUFFICES ASSUME e \notin S PROVE FALSE
    OBVIOUS
  <2>1. rank[e] \in Ranks
    OBVIOUS
  <2>2. r <= rank[e] /\ r \in Nat /\ rank[e] \in Nat
    BY <1>1, <1>2, <2>1
  <2> QED
    BY <1>2, <1>3, <1>4, <2>2
<1> QED
  BY <1>2, <1>4

PairRank == [pair \in Trees \X Trees |-> Rank(pair[1], pair[2])]

LEMMA PairRankIs ==
  /\ PairRank \in [Trees \X Trees -> Nat]
  /\ \A x, y \in Trees : PairRank[<<x, y>>] = Rank(x, y)
<1>1. \A pair \in Trees \X Trees : pair[1] \in Trees /\ pair[2] \in Trees
  OBVIOUS
<1>2. \A x, y \in Trees : Rank(x, y) \in Nat
  BY RankIs
<1> QED
  BY <1>1, <1>2 DEF PairRank

(* Induction over pairs of expressions.                                    *)
LEMMA PairInduction ==
  ASSUME NEW S,
         \A x, y \in Expressions :
           (\A u, v \in Expressions : Rank(u, v) < Rank(x, y) => <<u, v>> \in S) => <<x, y>> \in S
  PROVE  \A x, y \in Expressions : <<x, y>> \in S
<1> DEFINE E == Expressions \X Expressions
           rank == [pair \in E |-> Rank(pair[1], pair[2])]
<1>1. \A x, y \in Expressions : Rank(x, y) \in Nat
  BY RankIs DEF Expressions
<1>2. rank \in [E -> Nat] /\ \A x, y \in Expressions : rank[<<x, y>>] = Rank(x, y)
  BY <1>1
<1>3. \A d \in E : \E x, y \in Expressions : d = <<x, y>>
  OBVIOUS
<1>4. \A x, y \in Expressions : <<x, y>> \in E
  OBVIOUS
<1> HIDE DEF E, rank
<1>5. \A d \in E : (\A e \in E : rank[e] < rank[d] => e \in S) => d \in S
  <2> TAKE d \in E
  <2> HAVE \A e \in E : rank[e] < rank[d] => e \in S
  <2>1. PICK x \in Expressions, y \in Expressions : d = <<x, y>>
    BY <1>3
  <2>2. \A u, v \in Expressions : Rank(u, v) < Rank(x, y) => <<u, v>> \in S
    BY <1>2, <1>4, <2>1
  <2> QED
    BY <2>1, <2>2
<1>6. \A d \in E : d \in S
  BY <1>2, <1>5, RankInduction
<1> QED
  BY <1>4, <1>6

-----------------------------------------------------------------------------
(* The functions of the specification satisfy their definitions.           *)

(* match is the function that its definition asks for.                     *)
LEMMA MatchIs ==
  \A x, y \in Trees : /\ match[<<x, y>>] = MatchExpression(x, y, match)
                      /\ match[<<x, y>>] \in Verdicts
<1> DEFINE E == Trees \X Trees
           step == [pair \in E |-> [g \in [E -> Verdicts] |-> MatchExpression(pair[1], pair[2], g)]]
<1>1. \A x, y \in Trees : <<x, y>> \in E
  OBVIOUS
<1>2. \A d \in E : d[1] \in Trees /\ d[2] \in Trees /\ d = <<d[1], d[2]>>
  OBVIOUS
<1> HIDE DEF E
<1>3. \A g \in [E -> Verdicts] : \A u, v \in Trees : g[<<u, v>>] \in Verdicts
  BY <1>1
<1>4. ASSUME NEW d \in E, NEW g \in [E -> Verdicts]
      PROVE  MatchExpression(d[1], d[2], g) \in Verdicts
  BY <1>2, <1>3, MatchDepends DEF AnswersBelow
<1>5. step \in [E -> [[E -> Verdicts] -> Verdicts]]
  BY <1>4
<1>6. ASSUME NEW d \in E, NEW g \in [E -> Verdicts], NEW h \in [E -> Verdicts],
             \A e \in E : PairRank[e] < PairRank[d] => g[e] = h[e]
      PROVE  step[d][g] = step[d][h]
  <2>1. PICK x \in Trees, y \in Trees : d[1] = x /\ d[2] = y /\ d = <<x, y>>
    BY <1>2
  <2>2. AgreeBelow(g, h, Rank(x, y))
    BY <1>1, <1>6, <2>1, PairRankIs DEF AgreeBelow
  <2>3. MatchExpression(x, y, g) = MatchExpression(x, y, h)
    BY <2>2, MatchDepends
  <2> QED
    BY <2>1, <2>3
<1>7. Solved(E, Verdicts, step)
  <2>1. "true" \in Verdicts
    BY DEF Verdicts
  <2>2. PairRank \in [E -> Nat]
    BY PairRankIs DEF E
  <2> HIDE DEF step
  <2>3. Recursion(E, Verdicts, PairRank, step)
    BY <1>5, <1>6, <2>1, <2>2 DEF Recursion
  <2> QED
    BY <2>3, RecursiveFunctions
<1>8. PICK f \in [E -> Verdicts] : \A d \in E : f[d] = MatchExpression(d[1], d[2], f)
  BY <1>7 DEF Solved
<1>9. f = [pair \in E |-> MatchExpression(pair[1], pair[2], f)]
  BY <1>8
<1>10. match = CHOOSE g : g = [pair \in E |-> MatchExpression(pair[1], pair[2], g)]
  BY DEF match, E
<1>11. match = [pair \in E |-> MatchExpression(pair[1], pair[2], match)]
  BY <1>9, <1>10
<1>12. \A x, y \in Trees : match[<<x, y>>] = MatchExpression(x, y, match)
  <2> TAKE x, y \in Trees
  <2>1. <<x, y>> \in E /\ <<x, y>>[1] = x /\ <<x, y>>[2] = y
    BY <1>1
  <2> QED
    BY <1>11, <2>1
<1> DEFINE S == {d \in E : match[d] \in Verdicts}
<1>13. \A d \in E : (\A e \in E : PairRank[e] < PairRank[d] => e \in S) => d \in S
  <2> TAKE d \in E
  <2> HAVE \A e \in E : PairRank[e] < PairRank[d] => e \in S
  <2>1. PICK x \in Trees, y \in Trees : d = <<x, y>>
    BY <1>2
  <2>2. AnswersBelow(match, Rank(x, y))
    BY <1>1, <2>1, PairRankIs DEF AnswersBelow
  <2>3. match[d] \in Verdicts
    BY <1>12, <2>1, <2>2, MatchDepends
  <2> QED
    BY <2>3
<1>14. \A d \in E : d \in S
  <2>1. PairRank \in [E -> Nat]
    BY PairRankIs DEF E
  <2> HIDE DEF S
  <2> QED
    BY <1>13, <2>1, RankInduction
<1> QED
  BY <1>1, <1>12, <1>14

(* So is Nodes.                                                            *)
LEMMA NodesAre ==
  \A t \in Trees : /\ Nodes[t] \in SUBSET Trees
                   /\ Nodes[t] = {t} \union UNION {Nodes[t.parts[i]] : i \in 1..Len(t.parts)}
<1> DEFINE V == SUBSET Trees
           step == [t \in Trees |-> [g \in [Trees -> V] |->
                      {t} \union UNION {g[t.parts[i]] : i \in 1..Len(t.parts)}]]
<1>1. \A t \in Trees : \A i \in 1..Len(t.parts) :
        t.parts[i] \in Trees /\ Height[t.parts[i]] < Height[t]
  BY TreeFacts
<1>2. Height \in [Trees -> Nat]
  BY TreesAreTrees
<1>3. ASSUME NEW t \in Trees, NEW g \in [Trees -> V]
      PROVE  {t} \union UNION {g[t.parts[i]] : i \in 1..Len(t.parts)} \in V
  BY <1>1
<1>4. step \in [Trees -> [[Trees -> V] -> V]]
  BY <1>3
<1>5. ASSUME NEW t \in Trees, NEW g \in [Trees -> V], NEW h \in [Trees -> V],
             \A e \in Trees : Height[e] < Height[t] => g[e] = h[e]
      PROVE  step[t][g] = step[t][h]
  <2>1. \A i \in 1..Len(t.parts) : g[t.parts[i]] = h[t.parts[i]]
    BY <1>1, <1>5
  <2>2. {g[t.parts[i]] : i \in 1..Len(t.parts)} = {h[t.parts[i]] : i \in 1..Len(t.parts)}
    BY <2>1
  <2>3. {t} \union UNION {g[t.parts[i]] : i \in 1..Len(t.parts)}
          = {t} \union UNION {h[t.parts[i]] : i \in 1..Len(t.parts)}
    BY <2>2
  <2> HIDE DEF V
  <2> QED
    BY <2>3
<1>6. Solved(Trees, V, step)
  <2>1. {} \in V
    OBVIOUS
  <2> HIDE DEF step, V
  <2>2. Recursion(Trees, V, Height, step)
    BY <1>2, <1>4, <1>5, <2>1 DEF Recursion
  <2> QED
    BY <2>2, RecursiveFunctions
<1> HIDE DEF V
<1>7. PICK f \in [Trees -> V] :
        \A t \in Trees : f[t] = {t} \union UNION {f[t.parts[i]] : i \in 1..Len(t.parts)}
  BY <1>6 DEF Solved
<1> DEFINE Right(g) ==
             g = [t \in Trees |-> {t} \union UNION {g[t.parts[i]] : i \in 1..Len(t.parts)}]
<1>8. Right(f)
  BY <1>7
<1>9. Nodes = CHOOSE g : Right(g)
  BY DEF Nodes
<1>10. Right(Nodes)
  <2> HIDE DEF Right
  <2> QED
    BY <1>8, <1>9
<1>11. \A t \in Trees : Nodes[t] = {t} \union UNION {Nodes[t.parts[i]] : i \in 1..Len(t.parts)}
  BY <1>10
<1> DEFINE S == {t \in Trees : Nodes[t] \in V}
<1>12. \A d \in Trees : (\A e \in Trees : Height[e] < Height[d] => e \in S) => d \in S
  <2> TAKE d \in Trees
  <2> HAVE \A e \in Trees : Height[e] < Height[d] => e \in S
  <2>1. \A i \in 1..Len(d.parts) : Nodes[d.parts[i]] \in V
    BY <1>1
  <2>2. Nodes[d] \in V
    BY <1>11, <2>1 DEF V
  <2> QED
    BY <2>2
<1>13. \A d \in Trees : d \in S
  <2> HIDE DEF S
  <2> QED
    BY <1>2, <1>12, RankInduction
<1> QED
  BY <1>11, <1>13 DEF V

LikeStep(x, y, g, but) ==
  /\ SameNode(x, y)
  /\ \A i \in 1..Len(x.parts) : (but /\ IsDefault(x, i)) \/ g[<<x.parts[i], y.parts[i]>>]

LEMMA LikeDepends ==
  ASSUME NEW x \in Trees, NEW y \in Trees, NEW but \in BOOLEAN, NEW g, NEW h,
         AgreeBelow(g, h, Rank(x, y))
  PROVE  LikeStep(x, y, g, but) <=> LikeStep(x, y, h, but)
<1>1. CASE ~SameNode(x, y)
  BY <1>1 DEF LikeStep
<1>2. CASE SameNode(x, y)
  <2>1. Len(x.parts) = Len(y.parts)
    BY <1>2 DEF SameNode
  <2>2. \A i \in 1..Len(x.parts) : /\ x.parts[i] \in Trees /\ Height[x.parts[i]] < Height[x]
                                  /\ y.parts[i] \in Trees /\ Height[y.parts[i]] < Height[y]
    BY <2>1, TreeFacts
  <2>3. \A i \in 1..Len(x.parts) : Rank(x.parts[i], y.parts[i]) < Rank(x, y)
    BY <2>2, RankIs
  <2>4. \A i \in 1..Len(x.parts) : g[<<x.parts[i], y.parts[i]>>] = h[<<x.parts[i], y.parts[i]>>]
    BY <2>2, <2>3 DEF AgreeBelow
  <2> QED
    BY <2>4 DEF LikeStep
<1> QED
  BY <1>1, <1>2

LEMMA LikeExists ==
  ASSUME NEW but \in BOOLEAN
  PROVE  \E f : f = [pair \in Trees \X Trees |-> LikeStep(pair[1], pair[2], f, but)]
<1> DEFINE E == Trees \X Trees
           step == [pair \in E |-> [g \in [E -> BOOLEAN] |-> LikeStep(pair[1], pair[2], g, but)]]
<1>1. \A x, y \in Trees : <<x, y>> \in E
  OBVIOUS
<1>2. \A d \in E : d[1] \in Trees /\ d[2] \in Trees /\ d = <<d[1], d[2]>>
  OBVIOUS
<1> HIDE DEF E
<1>3. \A x, y, g : LikeStep(x, y, g, but) \in BOOLEAN
  BY DEF LikeStep
<1>4. step \in [E -> [[E -> BOOLEAN] -> BOOLEAN]]
  BY <1>3
<1>5. ASSUME NEW d \in E, NEW g \in [E -> BOOLEAN], NEW h \in [E -> BOOLEAN],
             \A e \in E : PairRank[e] < PairRank[d] => g[e] = h[e]
      PROVE  step[d][g] = step[d][h]
  <2>1. PICK x \in Trees, y \in Trees : d[1] = x /\ d[2] = y /\ d = <<x, y>>
    BY <1>2
  <2>2. AgreeBelow(g, h, Rank(x, y))
    BY <1>1, <1>5, <2>1, PairRankIs DEF AgreeBelow
  <2>3. LikeStep(x, y, g, but) <=> LikeStep(x, y, h, but)
    BY <2>2, LikeDepends
  <2>4. LikeStep(x, y, g, but) = LikeStep(x, y, h, but)
    BY <1>3, <2>3
  <2> QED
    BY <2>1, <2>4
<1>6. Solved(E, BOOLEAN, step)
  <2>1. PairRank \in [E -> Nat]
    BY PairRankIs DEF E
  <2> HIDE DEF step
  <2>2. Recursion(E, BOOLEAN, PairRank, step)
    BY <1>4, <1>5, <2>1 DEF Recursion
  <2> QED
    BY <2>2, RecursiveFunctions
<1>7. PICK f \in [E -> BOOLEAN] : \A d \in E : f[d] = LikeStep(d[1], d[2], f, but)
  BY <1>6 DEF Solved
<1>8. f = [pair \in E |-> LikeStep(pair[1], pair[2], f, but)]
  BY <1>7
<1> QED
  BY <1>8 DEF E

(* So are Alike and AlikeButDefaults.                                      *)
LEMMA AlikeIs ==
  \A x, y \in Trees :
    /\ Alike[<<x, y>>] \in BOOLEAN
    /\ Alike[<<x, y>>] <=> /\ SameNode(x, y)
                           /\ \A i \in 1..Len(x.parts) : Alike[<<x.parts[i], y.parts[i]>>]
<1> DEFINE Right(g) ==
             g = [pair \in Trees \X Trees |->
                    SameNode(pair[1], pair[2])
                      /\ \A i \in 1..Len(pair[1].parts) : g[<<pair[1].parts[i], pair[2].parts[i]>>]]
<1>1. \E f : Right(f)
  <2>1. PICK f : f = [pair \in Trees \X Trees |-> LikeStep(pair[1], pair[2], f, FALSE)]
    BY LikeExists
  <2>2. \A x, y : LikeStep(x, y, f, FALSE) =
                    (SameNode(x, y) /\ \A i \in 1..Len(x.parts) : f[<<x.parts[i], y.parts[i]>>])
    BY DEF LikeStep
  <2>3. \A pair \in Trees \X Trees :
          LikeStep(pair[1], pair[2], f, FALSE) =
            (SameNode(pair[1], pair[2])
               /\ \A i \in 1..Len(pair[1].parts) : f[<<pair[1].parts[i], pair[2].parts[i]>>])
    BY <2>2
  <2>4. Right(f)
    BY <2>1, <2>3
  <2> QED
    BY <2>4
<1>2. Alike = CHOOSE g : Right(g)
  BY DEF Alike
<1>3. Right(Alike)
  <2> HIDE DEF Right
  <2> QED
    BY <1>1, <1>2
<1> QED
  <2> TAKE x, y \in Trees
  <2>1. Alike[<<x, y>>] = (SameNode(x, y) /\ \A i \in 1..Len(x.parts) : Alike[<<x.parts[i], y.parts[i]>>])
    BY <1>3
  <2> QED
    BY <2>1

LEMMA AlikeButDefaultsIs ==
  \A x, y \in Trees :
    /\ AlikeButDefaults[<<x, y>>] \in BOOLEAN
    /\ AlikeButDefaults[<<x, y>>] <=>
         /\ SameNode(x, y)
         /\ \A i \in 1..Len(x.parts) :
              IsDefault(x, i) \/ AlikeButDefaults[<<x.parts[i], y.parts[i]>>]
<1> DEFINE Right(g) == g = [pair \in Trees \X Trees |-> LikeStep(pair[1], pair[2], g, TRUE)]
<1>1. \E f : Right(f)
  BY LikeExists
<1>2. AlikeButDefaults = CHOOSE g : Right(g)
  BY DEF AlikeButDefaults, LikeStep
<1>3. Right(AlikeButDefaults)
  <2> HIDE DEF Right
  <2> QED
    BY <1>1, <1>2
<1> QED
  <2> TAKE x, y \in Trees
  <2>1. AlikeButDefaults[<<x, y>>] = LikeStep(x, y, AlikeButDefaults, TRUE)
    BY <1>3
  <2> QED
    BY <2>1 DEF LikeStep

-----------------------------------------------------------------------------
(* Both likenesses compare regular nodes as the matcher does.              *)

Likeness(A) ==
  \A x, y \in Trees : x.type # "ClausesList" =>
    (A[<<x, y>>] <=> /\ SameNode(x, y)
                     /\ \A i \in 1..Len(x.parts) : A[<<x.parts[i], y.parts[i]>>])

LEMMA Likenesses == Likeness(Alike) /\ Likeness(AlikeButDefaults)
<1>1. \A x, i : x.type # "ClausesList" => ~IsDefault(x, i)
  BY DEF IsDefault
<1> QED
  BY <1>1, AlikeIs, AlikeButDefaultsIs DEF Likeness

LEMMA EqualSequences ==
  ASSUME NEW s \in Seq(Trees), NEW t \in Seq(Trees), Len(s) = Len(t),
         \A i \in 1..Len(s) : s[i] = t[i]
  PROVE  s = t
  OBVIOUS

LEMMA ListLike ==
  ASSUME NEW A, Likeness(A), NEW x \in Trees, NEW y \in Trees, x.type = y.type, x.data = y.data,
         x.type \in {"vector", "ExpressionList"}
  PROVE  A[<<x, y>>] <=> /\ Len(x.parts) = Len(y.parts)
                         /\ \A i \in 1..Len(x.parts) : A[<<x.parts[i], y.parts[i]>>]
  BY DEF Likeness, SameNode

LEMMA PrototypeLike ==
  ASSUME NEW A, Likeness(A), NEW x \in Trees, NEW y \in Trees, Same(x, y, "FunctionPrototype")
  PROVE  A[<<x, y>>] <=> x.data = y.data /\ x.parts = y.parts
<1> DEFINE v == x.parts[1]
           w == y.parts[1]
<1>1. /\ Len(x.parts) = 1 /\ v \in Trees /\ v.type = "vector" /\ v.data = ""
      /\ \A i \in 1..Len(v.parts) :
           v.parts[i] \in Trees /\ v.parts[i].type = "name" /\ v.parts[i].parts = <<>>
  BY PrototypeIs DEF Same
<1>2. /\ Len(y.parts) = 1 /\ w \in Trees /\ w.type = "vector" /\ w.data = ""
      /\ \A i \in 1..Len(w.parts) :
           w.parts[i] \in Trees /\ w.parts[i].type = "name" /\ w.parts[i].parts = <<>>
  BY PrototypeIs DEF Same
<1> HIDE DEF v, w
<1>3. A[<<x, y>>] <=> x.data = y.data /\ A[<<v, w>>]
  <2>1. A[<<x, y>>] <=> /\ SameNode(x, y)
                        /\ \A i \in 1..Len(x.parts) : A[<<x.parts[i], y.parts[i]>>]
    BY DEF Likeness, Same
  <2>2. SameNode(x, y) <=> x.data = y.data
    BY <1>1, <1>2 DEF SameNode, Same
  <2>3. (\A i \in 1..Len(x.parts) : A[<<x.parts[i], y.parts[i]>>]) <=> A[<<v, w>>]
    <3>1. \A i \in 1..1 : i = 1
      OBVIOUS
    <3> QED
      BY <1>1, <3>1, Indices DEF v, w
  <2> QED
    BY <2>1, <2>2, <2>3
<1>4. A[<<v, w>>] <=> v = w
  <2>1. A[<<v, w>>] <=> /\ Len(v.parts) = Len(w.parts)
                        /\ \A i \in 1..Len(v.parts) : A[<<v.parts[i], w.parts[i]>>]
    BY <1>1, <1>2, ListLike
  <2>2. ASSUME NEW p \in Trees, NEW q \in Trees, p.type = "name", q.type = "name",
               p.parts = <<>>, q.parts = <<>>
        PROVE  A[<<p, q>>] <=> p = q
    <3>1. A[<<p, q>>] <=> SameNode(p, q) /\ \A i \in 1..Len(p.parts) : A[<<p.parts[i], q.parts[i]>>]
      BY <2>2 DEF Likeness
    <3>2. Len(p.parts) = 0
      BY <2>2
    <3>3. A[<<p, q>>] <=> SameNode(p, q)
      BY <3>1, <3>2
    <3>4. SameNode(p, q) <=> p.data = q.data
      BY <2>2 DEF SameNode
    <3>5. p = Node("name", p.data, <<>>) /\ q = Node("name", q.data, <<>>)
      BY <2>2, TreeFacts
    <3> QED
      BY <3>3, <3>4, <3>5
  <2>3. ASSUME Len(v.parts) = Len(w.parts), \A i \in 1..Len(v.parts) : A[<<v.parts[i], w.parts[i]>>]
        PROVE  v = w
    <3>1. \A i \in 1..Len(v.parts) : v.parts[i] = w.parts[i]
      <4> TAKE i \in 1..Len(v.parts)
      <4>1. PICK p, q : p = v.parts[i] /\ q = w.parts[i]
        OBVIOUS
      <4>2. p \in Trees /\ p.type = "name" /\ p.parts = <<>>
        BY <1>1, <4>1
      <4>3. q \in Trees /\ q.type = "name" /\ q.parts = <<>>
        BY <1>2, <2>3, <4>1
      <4> QED
        BY <2>2, <2>3, <4>1, <4>2, <4>3
    <3>2. v.parts \in Seq(Trees) /\ w.parts \in Seq(Trees)
      BY <1>1, <1>2, TreeFacts
    <3>3. v.parts = w.parts
      BY <2>3, <3>1, <3>2, EqualSequences
    <3>4. v = Node("vector", "", v.parts) /\ w = Node("vector", "", w.parts)
      BY <1>1, <1>2, TreeFacts
    <3> QED
      BY <3>3, <3>4
  <2>4. ASSUME v = w
        PROVE  Len(v.parts) = Len(w.parts) /\ \A i \in 1..Len(v.parts) : A[<<v.parts[i], w.parts[i]>>]
    BY <1>1, <2>2, <2>4
  <2> QED
    BY <2>1, <2>3, <2>4
<1>5. v = w <=> x.parts = y.parts
  <2>1. x.parts \in Seq(Trees) /\ y.parts \in Seq(Trees)
    BY TreeFacts
  <2>2. ASSUME v = w PROVE x.parts = y.parts
    <3>1. \A i \in 1..Len(x.parts) : x.parts[i] = y.parts[i]
      <4>1. \A i \in 1..1 : i = 1
        OBVIOUS
      <4> QED
        BY <1>1, <2>2, <4>1 DEF v, w
    <3> QED
      BY <1>1, <1>2, <2>1, <3>1, EqualSequences
  <2> QED
    BY <2>2 DEF v, w
<1> QED
  BY <1>3, <1>4, <1>5

-----------------------------------------------------------------------------
(* The nodes of a tree.                                                    *)

Below(x) == {u \in Expressions : Height[u] < Height[x] /\ Nodes[u] \subseteq Nodes[x]}

LEMMA PartsInside ==
  ASSUME NEW x \in Trees
  PROVE  /\ x \in Nodes[x]
         /\ \A i \in 1..Len(x.parts) : Nodes[x.parts[i]] \subseteq Nodes[x]
         /\ Len(x.parts) = 1 => Nodes[x.parts[1]] \subseteq Nodes[x]
         /\ Len(x.parts) = 2 => /\ Nodes[x.parts[1]] \subseteq Nodes[x]
                               /\ Nodes[x.parts[2]] \subseteq Nodes[x]
<1>1. /\ x \in Nodes[x]
      /\ \A i \in 1..Len(x.parts) : Nodes[x.parts[i]] \subseteq Nodes[x]
  <2>1. Nodes[x] = {x} \union UNION {Nodes[x.parts[i]] : i \in 1..Len(x.parts)}
    BY NodesAre
  <2> QED
    BY <2>1
<1> QED
  BY <1>1, Indices

LEMMA KidsBelow ==
  ASSUME NEW x \in Trees, Regular(x)
  PROVE  \A i \in 1..Len(Kids(x)) : Kids(x)[i] \in Below(x)
<1> SUFFICES \A i \in 1..Len(Kids(x)) : Nodes[Kids(x)[i]] \subseteq Nodes[x]
  BY KidsAre DEF Below
<1>1. CASE x.type \in Constants \union Valued \union Named \union Plain
  <2>1. Kids(x) = x.parts
    BY <1>1, KidsOf
  <2> QED
    BY <2>1, PartsInside
<1>2. CASE x.type \in Accessing
  <2>1. PICK s, t : s = x.parts[1] /\ t = x.parts[2]
    OBVIOUS
  <2>2. Kids(x) = <<t, s>> /\ Len(x.parts) = 2
    BY <1>2, <2>1, KidsOf, SimpleIs
  <2>3. Nodes[s] \subseteq Nodes[x] /\ Nodes[t] \subseteq Nodes[x]
    BY <2>1, <2>2, PartsInside
  <2>4. Len(Kids(x)) = 2 /\ Kids(x)[1] = t /\ Kids(x)[2] = s
    BY <2>2
  <2>5. \A i \in 1..2 : i = 1 \/ i = 2
    OBVIOUS
  <2> QED
    BY <2>3, <2>4, <2>5
<1>3. CASE x.type \in Listing \union {"ArrayLiteral"}
  <2>1. Kids(x) = x.parts[1].parts
    BY <1>3, KidsOf
  <2>2. Len(x.parts) = 1 /\ x.parts[1] \in Trees
    BY <1>3, ListingIs, ArrayIs
  <2>3. Nodes[x.parts[1]] \subseteq Nodes[x]
    BY <2>2, PartsInside
  <2>4. \A i \in 1..Len(x.parts[1].parts) : Nodes[x.parts[1].parts[i]] \subseteq Nodes[x.parts[1]]
    BY <2>2, PartsInside
  <2> QED
    BY <2>1, <2>3, <2>4
<1>4. CASE x.type = "FunctionPrototype"
  <2>1. Kids(x) = <<>>
    BY <1>4, KidsOf
  <2> QED
    BY <2>1
<1>5. CASE x.type = "FunctionStatement"
  <2>1. PICK t : t = x.parts[2]
    OBVIOUS
  <2>2. Kids(x) = <<t>> /\ Len(x.parts) = 2
    BY <1>5, <2>1, KidsOf, FunctionIs
  <2>3. Nodes[t] \subseteq Nodes[x]
    BY <2>1, <2>2, PartsInside
  <2>4. Len(Kids(x)) = 1 /\ Kids(x)[1] = t
    BY <2>2
  <2>5. \A i \in 1..1 : i = 1
    OBVIOUS
  <2> QED
    BY <2>3, <2>4, <2>5
<1> QED
  BY <1>1, <1>2, <1>3, <1>4, <1>5, RegularKinds

LEMMA ValuesBelow ==
  ASSUME NEW x \in Trees, x.type = "ObjectLiteral"
  PROVE  \A i \in 1..Len(Properties(x)) : Properties(x)[i].parts[1] \in Below(x)
<1>1. Len(x.parts) = 1 /\ x.parts[1] \in Trees
  BY ObjectIs
<1>2. Nodes[x.parts[1]] \subseteq Nodes[x]
  BY <1>1, PartsInside
<1>3. \A i \in 1..Len(Properties(x)) : Nodes[Properties(x)[i]] \subseteq Nodes[x.parts[1]]
  BY <1>1, PartsInside DEF Properties
<1>4. ASSUME NEW i \in 1..Len(Properties(x)) PROVE Properties(x)[i].parts[1] \in Below(x)
  <2>1. PICK p : p = Properties(x)[i]
    OBVIOUS
  <2>2. /\ p \in Trees /\ Len(p.parts) = 1
        /\ p.parts[1] \in Expressions /\ Height[p.parts[1]] < Height[x]
    BY <2>1, PropertiesAre
  <2>3. Nodes[p.parts[1]] \subseteq Nodes[p]
    BY <2>2, PartsInside
  <2> QED
    BY <1>2, <1>3, <2>1, <2>2, <2>3 DEF Below
<1> QED
  BY <1>4

LEMMA DeclaredBelow ==
  ASSUME NEW x \in Trees, x.type = "DeclarationList"
  PROVE  \A i \in 1..Len(Properties(x)) : Properties(x)[i] \in Below(x)
<1>1. Len(x.parts) = 1 /\ x.parts[1] \in Trees
  BY DeclarationsAre
<1>2. Nodes[x.parts[1]] \subseteq Nodes[x]
  BY <1>1, PartsInside
<1>3. \A i \in 1..Len(Properties(x)) : Nodes[Properties(x)[i]] \subseteq Nodes[x.parts[1]]
  BY <1>1, PartsInside DEF Properties
<1> QED
  BY <1>2, <1>3, DeclaredAre DEF Below

LEMMA ArmsBelow ==
  ASSUME NEW x \in Trees, x.type = "SwitchStatement"
  PROVE  /\ x.parts[1] \in Below(x) /\ Default(x) \in Below(x)
         /\ x.parts[2] \in Nodes[x]
         /\ \A i \in 1..Len(Arms(x)) - 1 : Arms(x)[i] \in Below(x)
<1>1. Len(x.parts) = 2 /\ x.parts[2] \in Trees
  BY SwitchIs
<1>2. Nodes[x.parts[1]] \subseteq Nodes[x] /\ Nodes[x.parts[2]] \subseteq Nodes[x]
  BY <1>1, PartsInside
<1>3. x.parts[2] \in Nodes[x.parts[2]]
      /\ \A i \in 1..Len(Arms(x)) : Nodes[Arms(x)[i]] \subseteq Nodes[x.parts[2]]
  BY <1>1, PartsInside DEF Arms
<1>4. PICK n : n = Len(Arms(x))
  OBVIOUS
<1>5. n \in 1..n /\ \A i \in 1..n - 1 : i \in 1..n
  <2>1. n \in Nat /\ n > 0
    BY <1>4, ArmsAre
  <2> QED
    BY <2>1
<1>6. Nodes[Default(x)] \subseteq Nodes[x.parts[2]]
  BY <1>3, <1>4, <1>5 DEF Default
<1>7. \A i \in 1..n - 1 : Nodes[Arms(x)[i]] \subseteq Nodes[x.parts[2]]
  BY <1>3, <1>4, <1>5
<1> QED
  BY <1>2, <1>3, <1>4, <1>6, <1>7, ArmsAre DEF Below

LEMMA BelowRank ==
  ASSUME NEW x \in Expressions, NEW y \in Expressions, NEW u \in Below(x), NEW v \in Below(y)
  PROVE  /\ u \in Expressions /\ v \in Expressions
         /\ Rank(u, v) < Rank(x, y) /\ Rank(v, u) < Rank(x, y)
         /\ Nodes[u] \subseteq Nodes[x] /\ Nodes[v] \subseteq Nodes[y]
  BY RankIs DEF Below, Expressions

-----------------------------------------------------------------------------
(* Where a failure comes from: the two nodes, or two nodes below them.     *)

Failures == {"throw", "crash", "undefined"}

Passed(x, y, w) ==
  \E u \in Below(x), v \in Below(y) : w = match[<<u, v>>] \/ w = match[<<v, u>>]

Unequal(x, y) ==
  Same(x, y, "DeclarationList") /\ Len(Properties(x)) # Len(Properties(y))

LEMMA ArmMatch ==
  ASSUME NEW x \in Trees, NEW y \in Trees
  PROVE  /\ Same(x, y, "CaseClauseStatement") => MatchParts(x, y, match) = match[<<x, y>>]
         /\ Same(x, y, "Declaration") => MatchValued(x, y, match) = match[<<x, y>>]
<1>1. match[<<x, y>>] = MatchExpression(x, y, match)
  BY MatchIs
<1>2. Same(x, y, "CaseClauseStatement") \/ Same(x, y, "Declaration") =>
        x # Null /\ y # Null /\ x.type = y.type
  BY NullIs DEF Same, Classes, Named, Plain
<1>3. Same(x, y, "CaseClauseStatement") => MatchExpression(x, y, match) = MatchParts(x, y, match)
  BY <1>2 DEF Same, MatchExpression
<1>4. Same(x, y, "Declaration") => MatchExpression(x, y, match) = MatchValued(x, y, match)
  BY <1>2 DEF Same, MatchExpression
<1> QED
  BY <1>1, <1>3, <1>4

LEMMA CasesMatch ==
  ASSUME NEW x \in Trees, NEW y \in Trees, Same(x, y, "SwitchStatement"), SameArms(x, y)
  PROVE  CaseVerdicts(x, y, match) =
           [i \in 1..Len(Arms(x)) - 1 |-> match[<<Arms(x)[i], Arms(y)[i]>>]]
<1>1. ASSUME NEW i \in 1..Len(Arms(x)) - 1
      PROVE  MatchParts(Arms(x)[i], Arms(y)[i], match) = match[<<Arms(x)[i], Arms(y)[i]>>]
  <2>1. PICK d, e : d = Arms(x)[i] /\ e = Arms(y)[i]
    OBVIOUS
  <2>2. d \in Trees /\ d.type = "CaseClauseStatement"
    BY <2>1, ArmsAre DEF Same, Expressions
  <2>3. i \in 1..Len(Arms(y)) - 1
    BY DEF SameArms
  <2>4. e \in Trees /\ e.type = "CaseClauseStatement"
    BY <2>1, <2>3, ArmsAre DEF Same, Expressions
  <2> QED
    BY <2>1, <2>2, <2>4, ArmMatch DEF Same
<1> QED
  BY <1>1 DEF CaseVerdicts

LEMMA DeclaredMatch ==
  ASSUME NEW x \in Trees, NEW y \in Trees, Same(x, y, "DeclarationList")
  PROVE  DeclarationVerdicts(x, y, match) =
           [i \in 1..Len(Properties(x)) |->
              IF i <= Len(Properties(y)) THEN match[<<Properties(x)[i], Properties(y)[i]>>]
              ELSE "undefined"]
<1>1. ASSUME NEW i \in 1..Len(Properties(x)), i <= Len(Properties(y))
      PROVE  MatchValued(Properties(x)[i], Properties(y)[i], match)
               = match[<<Properties(x)[i], Properties(y)[i]>>]
  <2>1. PICK d, e : d = Properties(x)[i] /\ e = Properties(y)[i]
    OBVIOUS
  <2>2. d \in Trees /\ d.type = "Declaration"
    BY <2>1, DeclaredAre DEF Same, Expressions
  <2>3. i \in 1..Len(Properties(y))
    <3>1. Len(Properties(x)) \in Nat /\ Len(Properties(y)) \in Nat
      BY DeclaredAre DEF Same
    <3> QED
      BY <1>1, <3>1
  <2>4. e \in Trees /\ e.type = "Declaration"
    BY <2>1, <2>3, DeclaredAre DEF Same, Expressions
  <2> QED
    BY <2>1, <2>2, <2>4, ArmMatch DEF Same
<1> QED
  BY <1>1 DEF DeclarationVerdicts

LEMMA AndAllFails ==
  ASSUME NEW n \in Nat, NEW f, f = [i \in 1..n |-> f[i]], AndAll(f) \in Failures
  PROVE  \E i \in 1..n : f[i] = AndAll(f)
<1>1. AndAll(f) # "true"
  BY DEF Failures
<1> QED
  BY <1>1, AndAllOf

(* A failing pair either fails by itself, or one below it fails in the     *)
(* same way.                                                               *)
LEMMA FailureSource ==
  ASSUME NEW x \in Expressions, NEW y \in Expressions, NEW w \in Failures, w = match[<<x, y>>]
  PROVE  \/ w = "throw" /\ Same(x, y, "TemplateLiteral")
         \/ w = "crash" /\ Crashing(x, y)
         \/ w = "undefined" /\ Unequal(x, y)
         \/ Passed(x, y, w)
<1>0. x \in Trees /\ y \in Trees
  BY DEF Expressions
<1>m. w = MatchExpression(x, y, match)
  BY <1>0, MatchIs
<1>n. \A c : Is(c) \notin Failures
  BY DEF Is, Failures
<1>a. \A c, q : And(Is(c), q) \in Failures => And(Is(c), q) = q /\ c
  BY DEF And, Is, Failures
<1>1. CASE Apart(x, y)
  <2>1. w = Is(x = y)
    BY <1>m, <1>1, ApartMatch
  <2> QED
    BY <1>n, <2>1
<1>2. CASE Regular(x) /\ Regular(y) /\ x.type = y.type
  <2>1. w = And(Is(Agree(x, y)), AndAll(Each(x, y, match)))
    BY <1>0, <1>m, <1>2, RegularMatch
  <2>2. w = AndAll(Each(x, y, match)) /\ Agree(x, y)
    BY <1>a, <2>1
  <2> DEFINE f == Each(x, y, match)
             n == Len(Kids(x))
  <2>3. n \in Nat /\ f = [i \in 1..n |-> f[i]]
        /\ \A i \in 1..n : f[i] = match[<<Kids(x)[i], Kids(y)[i]>>]
    BY <1>0, <1>2, KidsAre DEF Each
  <2>4. \A i \in 1..n : Kids(x)[i] \in Below(x) /\ Kids(y)[i] \in Below(y)
    BY <1>0, <1>2, <2>2, KidsBelow DEF Agree
  <2> HIDE DEF f, n
  <2>5. PICK i \in 1..n : f[i] = w
    <3>1. AndAll(f) \in Failures
      BY <2>2 DEF f
    <3> QED
      BY <2>2, <2>3, <3>1, AndAllFails DEF f
  <2> QED
    BY <2>3, <2>4, <2>5 DEF Passed
<1>3. CASE Crashing(x, y)
  <2>1. w = "crash"
    BY <1>m, <1>3, CrashMatch
  <2> QED
    BY <1>3, <2>1
<1>4. CASE Same(x, y, "ObjectLiteral")
  <2>1. w = And(Is(Len(Properties(x)) = Len(Properties(y))), AndAll(PropertyVerdicts(x, y, match)))
    BY <1>m, <1>4, ObjectMatch
  <2> DEFINE f == PropertyVerdicts(x, y, match)
             n == Len(Properties(x))
             Other(i) == CHOOSE q \in Found(y, Properties(x)[i]) : TRUE
  <2>2. w = AndAll(f)
    BY <1>a, <2>1
  <2>3. n \in Nat /\ f = [i \in 1..n |-> f[i]]
        /\ \A i \in 1..n : f[i] = IF Found(y, Properties(x)[i]) = {} THEN "false"
                                  ELSE match[<<Other(i).parts[1], Properties(x)[i].parts[1]>>]
    BY <1>0, <1>4, PropertiesAre DEF PropertyVerdicts, Same
  <2>4. \A i \in 1..n : Properties(x)[i].parts[1] \in Below(x)
    BY <1>0, <1>4, ValuesBelow DEF Same
  <2>5. \A k \in 1..Len(Properties(y)) : Properties(y)[k].parts[1] \in Below(y)
    BY <1>0, <1>4, ValuesBelow DEF Same
  <2>6. \A i \in 1..n : Found(y, Properties(x)[i]) # {} => Other(i).parts[1] \in Below(y)
    BY <2>5, FoundIs
  <2> HIDE DEF f, n, Other
  <2>7. PICK i \in 1..n : f[i] = w
    <3>1. AndAll(f) \in Failures
      BY <2>2
    <3>2. \E i \in 1..n : f[i] = AndAll(f)
      BY <2>3, <3>1, AndAllFails
    <3> QED
      BY <2>2, <3>2
  <2>8. Found(y, Properties(x)[i]) # {}
    BY <2>3, <2>7 DEF Failures
  <2>9. w = match[<<Other(i).parts[1], Properties(x)[i].parts[1]>>]
    BY <2>3, <2>7, <2>8
  <2> QED
    BY <2>4, <2>6, <2>8, <2>9 DEF Passed
<1>5. CASE Same(x, y, "RegExpLiteral")
  <2>1. w = "false"
    BY <1>m, <1>5, RegExpMatch
  <2> QED
    BY <2>1 DEF Failures
<1>6. CASE Same(x, y, "DeclarationList")
  <2> DEFINE f == DeclarationVerdicts(x, y, match)
             n == Len(Properties(x))
             k == Len(Properties(y))
  <2>1. w = AndAll(f)
    BY <1>m, <1>6, DeclarationsMatch
  <2>2. /\ n \in Nat /\ k \in Nat
        /\ \A i \in 1..n : Properties(x)[i] \in Below(x)
        /\ \A i \in 1..k : Properties(y)[i] \in Below(y)
    BY <1>0, <1>6, DeclaredAre, DeclaredBelow DEF Same
  <2>3. f = [i \in 1..n |-> f[i]]
        /\ \A i \in 1..n : f[i] = IF i <= k THEN match[<<Properties(x)[i], Properties(y)[i]>>]
                                  ELSE "undefined"
    BY <1>0, <1>6, DeclaredMatch
  <2>4. \A i \in 1..n : i <= k => i \in 1..k
    BY <2>2
  <2>5. \A i \in 1..n : ~(i <= k) => n # k
    BY <2>2
  <2>6. Unequal(x, y) <=> n # k
    BY <1>6 DEF Unequal
  <2> HIDE DEF f, n, k
  <2>7. PICK i \in 1..n : f[i] = w
    <3>1. AndAll(f) \in Failures
      BY <2>1
    <3>2. \E i \in 1..n : f[i] = AndAll(f)
      BY <2>2, <2>3, <3>1, AndAllFails
    <3> QED
      BY <2>1, <3>2
  <2>8. CASE i <= k
    <3>1. Properties(x)[i] \in Below(x) /\ Properties(y)[i] \in Below(y)
      BY <2>2, <2>4, <2>8
    <3>2. w = match[<<Properties(x)[i], Properties(y)[i]>>]
      BY <2>3, <2>7, <2>8
    <3> QED
      BY <3>1, <3>2 DEF Passed
  <2>9. CASE ~(i <= k)
    <3>1. w = "undefined"
      BY <2>3, <2>7, <2>9
    <3> QED
      BY <2>5, <2>6, <2>9, <3>1
  <2> QED
    BY <2>8, <2>9
<1>7. CASE Same(x, y, "SwitchStatement")
  <2> DEFINE f == CaseVerdicts(x, y, match)
             d == match[<<Default(x), Default(y)>>]
             e == match[<<x.parts[1], y.parts[1]>>]
  <2>1. w = And(e, IF SameArms(x, y) THEN And(AndAll(f), Negated(d)) ELSE "false")
    BY <1>m, <1>7, SwitchMatch
  <2>2. /\ x.parts[1] \in Below(x) /\ y.parts[1] \in Below(y)
        /\ Default(x) \in Below(x) /\ Default(y) \in Below(y)
    BY <1>0, <1>7, ArmsBelow DEF Same
  <2>3. w = e \/ (SameArms(x, y) /\ w = AndAll(f)) \/ w = d
    <3>1. \A p, q : And(p, q) = p \/ And(p, q) = q
      BY DEF And
    <3>2. w = Negated(d) => w = d
      BY DEF Negated, Failures
    <3>3. w # "false"
      BY DEF Failures
    <3> HIDE DEF f, d, e
    <3> QED
      BY <2>1, <3>1, <3>2, <3>3
  <2>4. CASE w = e \/ w = d
    BY <2>2, <2>4 DEF Passed
  <2>5. CASE SameArms(x, y) /\ w = AndAll(f)
    <3>1. PICK n \in Nat : n = Len(Arms(x)) - 1
      <4>1. Len(Arms(x)) \in Nat /\ Len(Arms(x)) > 0
        BY <1>0, <1>7, ArmsAre DEF Same
      <4>2. Len(Arms(x)) - 1 \in Nat
        BY <4>1
      <4> QED
        BY <4>2
    <3>2. /\ f = [i \in 1..n |-> f[i]]
          /\ \A i \in 1..n : f[i] = match[<<Arms(x)[i], Arms(y)[i]>>]
      BY <1>0, <1>7, <2>5, <3>1, CasesMatch
    <3>3. \A i \in 1..n : Arms(x)[i] \in Below(x)
      BY <1>0, <1>7, <3>1, ArmsBelow DEF Same
    <3>4. \A i \in 1..n : Arms(y)[i] \in Below(y)
      BY <1>0, <1>7, <2>5, <3>1, ArmsBelow DEF Same, SameArms
    <3> HIDE DEF f
    <3>5. PICK i \in 1..n : f[i] = w
      BY <2>5, <3>2, AndAllFails
    <3> QED
      BY <3>2, <3>3, <3>4, <3>5 DEF Passed
  <2> QED
    BY <2>3, <2>4, <2>5
<1>8. CASE Unmatched(x, y)
  <2>1. w = "throw"
    BY <1>m, <1>8, ThrowMatch
  <2>2. x.type \in Classes
    BY <1>0, <1>8, ExpressionIs DEF Unmatched, Expressions
  <2> QED
    BY <1>8, <2>1, <2>2 DEF Unmatched, Same
<1> QED
  BY <1>1, <1>2, <1>3, <1>4, <1>5, <1>6, <1>7, <1>8, PairKinds

(* What failures there are for two trees, as MatchFailsOnlyFor has it.    *)
FailsFor(x, y, w) ==
  /\ w = "throw" => Contains(x, {"TemplateLiteral"}) /\ Contains(y, {"TemplateLiteral"})
  /\ w = "crash" =>
       /\ NullArguments \in Nodes[x] \union Nodes[y]
       /\ Contains(x, {"ArgumentList"}) /\ Contains(y, {"ArgumentList"})
  /\ w = "undefined" =>
       \E u \in Nodes[x], v \in Nodes[y] :
         /\ u.type = "DeclarationList" /\ v.type = "DeclarationList"
         /\ Len(u.parts[1].parts) # Len(v.parts[1].parts)

LEMMA FailsAbove ==
  ASSUME NEW x, NEW y, NEW u, NEW v, NEW w,
         Nodes[u] \subseteq Nodes[x], Nodes[v] \subseteq Nodes[y]
  PROVE  /\ FailsFor(u, v, w) => FailsFor(x, y, w)
         /\ FailsFor(v, u, w) => FailsFor(x, y, w)
  BY DEF FailsFor, Contains

LEMMA NullArgumentsAre ==
  ASSUME NEW x \in Trees, x.type = "ArgumentList", x.parts[1] = Null
  PROVE  x = NullArguments
<1>1. Len(x.parts) = 1 /\ x.data = "" /\ x.parts \in Seq(Trees) /\ x = Node(x.type, x.data, x.parts)
  BY ListingIs, TreeFacts DEF Listing
<1>2. \A s \in Seq(Trees) : Len(s) = 1 => s = <<s[1]>>
  OBVIOUS
<1>3. x.parts = <<Null>>
  BY <1>1, <1>2
<1> QED
  BY <1>1, <1>3 DEF NullArguments

LEMMA FailuresAre == \A x, y \in Expressions : FailsFor(x, y, match[<<x, y>>])
<1> DEFINE S == {pair \in Expressions \X Expressions : FailsFor(pair[1], pair[2], match[pair])}
<1>1. \A x, y \in Expressions : <<x, y>> \in S <=> FailsFor(x, y, match[<<x, y>>])
  OBVIOUS
<1> HIDE DEF S
<1>2. ASSUME NEW x \in Expressions, NEW y \in Expressions,
             \A u, v \in Expressions : Rank(u, v) < Rank(x, y) => <<u, v>> \in S
      PROVE  <<x, y>> \in S
  <2>1. PICK w : w = match[<<x, y>>]
    OBVIOUS
  <2>2. x \in Nodes[x] /\ y \in Nodes[y] /\ x \in Trees /\ y \in Trees
    BY PartsInside DEF Expressions
  <2>3. CASE w \notin Failures
    <3>1. FailsFor(x, y, w)
      BY <2>3 DEF FailsFor, Failures
    <3> QED
      BY <1>1, <2>1, <3>1
  <2>4. CASE w = "throw" /\ Same(x, y, "TemplateLiteral")
    <3>1. FailsFor(x, y, w)
      BY <2>2, <2>4 DEF FailsFor, Contains, Same
    <3> QED
      BY <1>1, <2>1, <3>1
  <2>5. CASE w = "crash" /\ Crashing(x, y)
    <3>1. NullArguments \in Nodes[x] \union Nodes[y]
      BY <2>2, <2>5, NullArgumentsAre DEF Crashing, Same
    <3>2. FailsFor(x, y, w)
      BY <2>2, <2>5, <3>1 DEF FailsFor, Contains, Crashing, Same
    <3> QED
      BY <1>1, <2>1, <3>2
  <2>6. CASE w = "undefined" /\ Unequal(x, y)
    <3>1. FailsFor(x, y, w)
      BY <2>2, <2>6 DEF FailsFor, Unequal, Same, Properties
    <3> QED
      BY <1>1, <2>1, <3>1
  <2>7. CASE Passed(x, y, w)
    <3>1. PICK u \in Below(x), v \in Below(y) : w = match[<<u, v>>] \/ w = match[<<v, u>>]
      BY <2>7 DEF Passed
    <3>2. /\ u \in Expressions /\ v \in Expressions
          /\ Rank(u, v) < Rank(x, y) /\ Rank(v, u) < Rank(x, y)
          /\ Nodes[u] \subseteq Nodes[x] /\ Nodes[v] \subseteq Nodes[y]
      BY BelowRank
    <3>3. FailsFor(u, v, match[<<u, v>>]) /\ FailsFor(v, u, match[<<v, u>>])
      BY <1>1, <1>2, <3>2
    <3>4. FailsFor(u, v, w) \/ FailsFor(v, u, w)
      BY <3>1, <3>3
    <3>5. FailsFor(x, y, w)
      BY <3>2, <3>4, FailsAbove
    <3> QED
      BY <1>1, <2>1, <3>5
  <2> QED
    BY <2>1, <2>3, <2>4, <2>5, <2>6, <2>7, FailureSource
<1> QED
  BY <1>1, <1>2, PairInduction

-----------------------------------------------------------------------------
(* The matcher's answer is the verdict of its two trees.                   *)

Inv == /\ a \in Expressions /\ b \in Expressions
       /\ verdict # "none" => verdict = match[<<a, b>>]

(* Both trees stay expressions or statements that the matcher may be       *)
(* called with, and FastASTMatcher::match has answered for just them.      *)
THEOREM MatchInvariant == Spec => []Inv
<1> USE DEF Inv
<1>1. Init => Inv
  <2> SUFFICES ASSUME Init PROVE Inv
    OBVIOUS
  <2>1. PICK pair \in Pairs : a = pair[1] /\ b = pair[2]
    BY DEF Init
  <2>2. pair \in Expressions \X Expressions
    BY TreesAreTrees DEF Expressions
  <2> QED
    BY <2>1, <2>2 DEF Init
<1>2. Inv /\ [Next]_<<a, b, verdict>> => Inv'
  <2> SUFFICES ASSUME Inv, [Next]_<<a, b, verdict>> PROVE Inv'
    OBVIOUS
  <2>1. CASE Match
    BY <2>1 DEF Match
  <2>2. CASE Answered
    BY <2>2 DEF Answered
  <2>3. CASE UNCHANGED <<a, b, verdict>>
    BY <2>3
  <2> QED
    BY <2>1, <2>2, <2>3 DEF Next
<1> QED
  BY <1>1, <1>2, PTL DEF Spec

(* FastASTMatcher fails on no pair of trees but for a node of a kind it is *)
(* not ready for in both: it throws for a template literal, dereferences   *)
(* null in MatchArgumentList for a list that the parser left null, and     *)
(* reads past the end in MatchDeclarationList where the lists have         *)
(* different lengths.                                                      *)
THEOREM MatcherFails == Spec => []MatchFailsOnlyFor
<1>1. Inv => MatchFailsOnlyFor
  <2> SUFFICES ASSUME Inv PROVE MatchFailsOnlyFor
    OBVIOUS
  <2>1. CASE verdict = "none"
    BY <2>1 DEF MatchFailsOnlyFor
  <2>2. CASE verdict # "none"
    <3>1. FailsFor(a, b, verdict)
      BY <2>2, FailuresAre DEF Inv
    <3> QED
      BY <3>1 DEF FailsFor, MatchFailsOnlyFor
  <2> QED
    BY <2>1, <2>2
<1> QED
  BY <1>1, MatchInvariant, PTL

-----------------------------------------------------------------------------
(* Objects match when they have the same names in the same order and their *)
(* values match: a name that is found at all is found in its own place.    *)

(* An increasing function from 1..n to 1..n moves nothing.                 *)
LEMMA IncreasingIsIdentity ==
  ASSUME NEW n \in Nat, NEW k \in [1..n -> 1..n],
         \A i, j \in 1..n : i < j => k[i] < k[j]
  PROVE  \A i \in 1..n : k[i] = i
<1>1. \A i \in 1..n : ~(k[i] < i)
  <2> DEFINE Low == {i \in 1..n : k[i] < i}
  <2> SUFFICES ASSUME Low # {} PROVE FALSE
    OBVIOUS
  <2>1. PICK i \in Low : \A j \in Low : i <= j
    <3>1. Low \in SUBSET Nat
      OBVIOUS
    <3> HIDE DEF Low
    <3> QED
      BY <3>1, LeastOf
  <2>2. PICK j \in 1..n : j = k[i] /\ j < i
    BY <2>1
  <2>3. k[j] < k[i]
    BY <2>1, <2>2
  <2>4. j \in Low
    BY <2>2, <2>3
  <2>5. i <= j /\ i \in 1..n
    BY <2>1, <2>4
  <2> QED
    BY <2>2, <2>5
<1>2. \A i \in 1..n : ~(i < k[i])
  <2> DEFINE Room == {n - i : i \in {j \in 1..n : j < k[j]}}
  <2> SUFFICES ASSUME Room # {} PROVE FALSE
    OBVIOUS
  <2>1. PICK r \in Room : \A s \in Room : r <= s
    <3>0. \A i \in 1..n : n - i \in Nat
      OBVIOUS
    <3>1. Room \in SUBSET Nat
      BY <3>0
    <3> HIDE DEF Room
    <3> QED
      BY <3>1, LeastOf
  <2>2. PICK i \in 1..n : r = n - i /\ i < k[i]
    BY <2>1
  <2>3. PICK j \in 1..n : j = k[i] /\ i < j
    BY <2>2
  <2>4. k[i] < k[j]
    BY <2>3
  <2>5. n - j \in Room
    BY <2>3, <2>4
  <2>6. n - i <= n - j
    BY <2>1, <2>2, <2>5
  <2> QED
    BY <2>3, <2>6
<1>3. ASSUME NEW i \in 1..n PROVE k[i] = i
  <2>1. k[i] \in 1..n /\ ~(k[i] < i) /\ ~(i < k[i])
    BY <1>1, <1>2
  <2> QED
    BY <2>1
<1> QED
  BY <1>3

(* The order of the names in two maps is the same.                         *)
SameOrder(xs, ys) ==
  \A i, j \in 1..Len(xs), k, l \in 1..Len(ys) :
    xs[i].data = ys[k].data /\ xs[j].data = ys[l].data => (i < j <=> k < l)

LEMMA NamesAreOrdered ==
  ASSUME NEW x \in Trees, NEW y \in Trees, Same(x, y, "ObjectLiteral")
  PROVE  /\ SameOrder(Properties(x), Properties(y))
         /\ SameOrder(Properties(x), Properties(x))
         /\ SameOrder(Properties(y), Properties(y))
<1> DEFINE Maps == {t.parts[1].parts : t \in {u \in Trees : u.type = "ObjectLiteral"}}
<1>1. \A xs, ys \in Maps : SameOrder(xs, ys)
  BY MapsAreOrdered DEF SameOrder
<1>2. Properties(x) \in Maps /\ Properties(y) \in Maps
  BY DEF Properties, Same
<1> QED
  BY <1>1, <1>2

LEMMA NamesAreUnique ==
  ASSUME NEW ys, Len(ys) \in Nat, SameOrder(ys, ys), NEW i \in 1..Len(ys), NEW k \in 1..Len(ys),
         ys[i].data = ys[k].data
  PROVE  i = k
<1>1. i < k <=> k < i
  BY DEF SameOrder
<1> QED
  BY <1>1

SameNames(x, y) ==
  /\ Len(Properties(x)) = Len(Properties(y))
  /\ \A i \in 1..Len(Properties(x)) : Properties(x)[i].data = Properties(y)[i].data

(* Where two maps have the same names, MatchObjectLiteral finds each in    *)
(* its place.                                                              *)
LEMMA FoundInPlace ==
  ASSUME NEW x \in Trees, NEW y \in Trees, Same(x, y, "ObjectLiteral"),
         Len(Properties(x)) = Len(Properties(y)),
         \A i \in 1..Len(Properties(x)) : Found(y, Properties(x)[i]) # {}
  PROVE  SameNames(x, y)
<1>1. PICK n \in Nat : n = Len(Properties(x)) /\ n = Len(Properties(y))
  BY PropertiesAre DEF Same
<1>2. PICK xs, ys : xs = Properties(x) /\ ys = Properties(y)
  OBVIOUS
<1>3. \A i \in 1..n : \E k \in 1..n : ys[k].data = xs[i].data
  BY <1>1, <1>2 DEF Found
<1> DEFINE At == [i \in 1..n |-> CHOOSE k \in 1..n : ys[k].data = xs[i].data]
<1>4. At \in [1..n -> 1..n] /\ \A i \in 1..n : ys[At[i]].data = xs[i].data
  BY <1>3
<1> HIDE DEF At
<1>5. SameOrder(xs, ys) /\ Len(xs) = n /\ Len(ys) = n
  BY <1>1, <1>2, NamesAreOrdered
<1>6. \A i, j \in 1..n : i < j => At[i] < At[j]
  BY <1>4, <1>5 DEF SameOrder
<1>7. \A i \in 1..n : At[i] = i
  BY <1>4, <1>6, IncreasingIsIdentity
<1>8. \A i \in 1..n : xs[i].data = ys[i].data
  BY <1>4, <1>7
<1> QED
  BY <1>1, <1>2, <1>8 DEF SameNames

(* Where every name is found and the sizes agree, the names are the same.  *)
LEMMA NamedAreFound ==
  ASSUME NEW x \in Trees, NEW y \in Trees, Same(x, y, "ObjectLiteral"), SameNames(x, y),
         NEW i \in 1..Len(Properties(x))
  PROVE  Found(y, Properties(x)[i]) = {Properties(y)[i]}
<1>1. PICK n \in Nat : n = Len(Properties(x)) /\ n = Len(Properties(y))
  BY PropertiesAre DEF Same, SameNames
<1>2. PICK ys : ys = Properties(y)
  OBVIOUS
<1>3. SameOrder(ys, ys) /\ Len(ys) = n
  BY <1>1, <1>2, NamesAreOrdered
<1>4. \A k \in 1..n : ys[k].data = ys[i].data => k = i
  BY <1>1, <1>3, NamesAreUnique
<1>5. Properties(x)[i].data = ys[i].data /\ i \in 1..n
  BY <1>1, <1>2 DEF SameNames
<1>6. Found(y, Properties(x)[i]) = {q \in {ys[j] : j \in 1..n} : q.data = ys[i].data}
  BY <1>1, <1>2, <1>5 DEF Found
<1> QED
  BY <1>2, <1>4, <1>5, <1>6

(* Two nodes of a kind, other than declaration lists, are said to match    *)
(* exactly if                                                              *)
LEMMA ObjectTrue ==
  ASSUME NEW x \in Trees, NEW y \in Trees, Same(x, y, "ObjectLiteral")
  PROVE  match[<<x, y>>] = "true" <=>
           /\ SameNames(x, y)
           /\ \A i \in 1..Len(Properties(x)) :
                match[<<Properties(y)[i].parts[1], Properties(x)[i].parts[1]>>] = "true"
<1> DEFINE f == PropertyVerdicts(x, y, match)
           n == Len(Properties(x))
           Other(i) == CHOOSE q \in Found(y, Properties(x)[i]) : TRUE
           sized == n = Len(Properties(y))
<1>1. match[<<x, y>>] = And(Is(sized), AndAll(f))
  <2>1. match[<<x, y>>] = MatchExpression(x, y, match)
    BY MatchIs
  <2> QED
    BY <2>1, ObjectMatch
<1>2. /\ n \in Nat /\ f = [i \in 1..n |-> f[i]]
      /\ \A i \in 1..n : f[i] = IF Found(y, Properties(x)[i]) = {} THEN "false"
                                ELSE match[<<Other(i).parts[1], Properties(x)[i].parts[1]>>]
  BY PropertiesAre DEF PropertyVerdicts, Same
<1>3. SameNames(x, y) => sized
  BY DEF SameNames
<1>4. ASSUME SameNames(x, y), NEW i \in 1..n
      PROVE  Found(y, Properties(x)[i]) # {} /\ Other(i) = Properties(y)[i]
  <2>1. Found(y, Properties(x)[i]) = {Properties(y)[i]}
    BY <1>4, NamedAreFound
  <2> QED
    BY <2>1
<1>5. sized /\ (\A i \in 1..n : Found(y, Properties(x)[i]) # {}) => SameNames(x, y)
  BY FoundInPlace
<1> HIDE DEF f, n, Other, sized
<1>6. AndAll(f) = "true" <=> \A i \in 1..n : f[i] = "true"
  BY <1>2, AndAllOf
<1>7. match[<<x, y>>] = "true" <=> sized /\ \A i \in 1..n : f[i] = "true"
  BY <1>1, <1>6 DEF And, Is
<1>8. SameNames(x, y) =>
        \A i \in 1..n : f[i] = match[<<Properties(y)[i].parts[1], Properties(x)[i].parts[1]>>]
  BY <1>2, <1>4
<1>9. (\A i \in 1..n : f[i] = "true") => \A i \in 1..n : Found(y, Properties(x)[i]) # {}
  BY <1>2
<1>10. match[<<x, y>>] = "true" <=>
         /\ SameNames(x, y)
         /\ \A i \in 1..n : match[<<Properties(y)[i].parts[1], Properties(x)[i].parts[1]>>] = "true"
  BY <1>3, <1>5, <1>7, <1>8, <1>9
<1> QED
  BY <1>10 DEF n

LEMMA RegularTrue ==
  ASSUME NEW x \in Trees, NEW y \in Trees, Regular(x), Regular(y), x.type = y.type
  PROVE  match[<<x, y>>] = "true" <=>
           /\ Agree(x, y)
           /\ \A i \in 1..Len(Kids(x)) : match[<<Kids(x)[i], Kids(y)[i]>>] = "true"
<1> DEFINE f == Each(x, y, match)
           n == Len(Kids(x))
<1>1. match[<<x, y>>] = And(Is(Agree(x, y)), AndAll(f))
  <2>1. match[<<x, y>>] = MatchExpression(x, y, match)
    BY MatchIs
  <2> QED
    BY <2>1, RegularMatch
<1>2. n \in Nat /\ f = [i \in 1..n |-> f[i]]
      /\ \A i \in 1..n : f[i] = match[<<Kids(x)[i], Kids(y)[i]>>]
  BY KidsAre DEF Each
<1> HIDE DEF f
<1>3. AndAll(f) = "true" <=> \A i \in 1..n : f[i] = "true"
  <2> HIDE DEF n
  <2> QED
    BY <1>2, AndAllOf
<1>4. match[<<x, y>>] = "true" <=> Agree(x, y) /\ AndAll(f) = "true"
  BY <1>1 DEF And, Is
<1> QED
  BY <1>2, <1>3, <1>4

LEMMA SwitchTrue ==
  ASSUME NEW x \in Trees, NEW y \in Trees, Same(x, y, "SwitchStatement")
  PROVE  match[<<x, y>>] = "true" <=>
           /\ match[<<x.parts[1], y.parts[1]>>] = "true" /\ SameArms(x, y)
           /\ \A i \in 1..Len(Arms(x)) - 1 : match[<<Arms(x)[i], Arms(y)[i]>>] = "true"
           /\ match[<<Default(x), Default(y)>>] = "false"
<1> DEFINE f == CaseVerdicts(x, y, match)
           d == match[<<Default(x), Default(y)>>]
           e == match[<<x.parts[1], y.parts[1]>>]
<1>1. match[<<x, y>>] = And(e, IF SameArms(x, y) THEN And(AndAll(f), Negated(d)) ELSE "false")
  <2>1. match[<<x, y>>] = MatchExpression(x, y, match)
    BY MatchIs
  <2> QED
    BY <2>1, SwitchMatch
<1>2. PICK n \in Nat : n = Len(Arms(x)) - 1
  <2>1. Len(Arms(x)) \in Nat /\ Len(Arms(x)) > 0
    BY ArmsAre DEF Same
  <2>2. Len(Arms(x)) - 1 \in Nat
    BY <2>1
  <2> QED
    BY <2>2
<1>3. SameArms(x, y) => /\ f = [i \in 1..n |-> f[i]]
                        /\ \A i \in 1..n : f[i] = match[<<Arms(x)[i], Arms(y)[i]>>]
  BY <1>2, CasesMatch
<1> HIDE DEF f, d, e
<1>4. SameArms(x, y) => (AndAll(f) = "true" <=> \A i \in 1..n : f[i] = "true")
  BY <1>2, <1>3, AndAllOf
<1>5. match[<<x, y>>] = "true" <=> e = "true" /\ SameArms(x, y) /\ AndAll(f) = "true" /\ d = "false"
  BY <1>1 DEF And, Negated
<1>6. SameArms(x, y) => (AndAll(f) = "true" <=>
        \A i \in 1..n : match[<<Arms(x)[i], Arms(y)[i]>>] = "true")
  BY <1>3, <1>4
<1> QED
  BY <1>2, <1>5, <1>6 DEF d, e

LEMMA NodeLike ==
  ASSUME NEW A, Likeness(A), NEW x \in Trees, NEW y \in Trees, x.type \in Classes, x.type = y.type
  PROVE  A[<<x, y>>] <=> /\ Len(x.parts) = Len(y.parts)
                         /\ x.data = y.data \/ x.type \in Accessing \union {"ForStatement"}
                         /\ \A i \in 1..Len(x.parts) : A[<<x.parts[i], y.parts[i]>>]
<1>1. x.type # "ClausesList"
  BY MembersAreNoClasses
<1>2. SameNode(x, y) <=> /\ Len(x.parts) = Len(y.parts)
                         /\ x.data = y.data \/ x.type \in Accessing \union {"ForStatement"}
  BY DEF SameNode, Accessing
<1> QED
  BY <1>1, <1>2 DEF Likeness

LEMMA SingleLike ==
  ASSUME NEW A, NEW x, NEW y, Len(x.parts) = 1
  PROVE  (\A i \in 1..Len(x.parts) : A[<<x.parts[i], y.parts[i]>>])
           <=> A[<<x.parts[1], y.parts[1]>>]
<1>1. \A i \in 1..1 : i = 1
  OBVIOUS
<1> QED
  BY <1>1, Indices

LEMMA DoubleLike ==
  ASSUME NEW A, NEW x, NEW y, Len(x.parts) = 2
  PROVE  (\A i \in 1..Len(x.parts) : A[<<x.parts[i], y.parts[i]>>])
           <=> A[<<x.parts[1], y.parts[1]>>] /\ A[<<x.parts[2], y.parts[2]>>]
<1>1. \A i \in 1..2 : i = 1 \/ i = 2
  OBVIOUS
<1> QED
  BY <1>1, Indices

LikeKids(A, x, y) == \A i \in 1..Len(Kids(x)) : A[<<Kids(x)[i], Kids(y)[i]>>]

LEMMA ListedLike ==
  ASSUME NEW A, Likeness(A), NEW x \in Trees, NEW y \in Trees, Regular(x), Regular(y),
         x.type = y.type, x.type \in Listing \union {"ArrayLiteral"}
  PROVE  A[<<x, y>>] <=> Agree(x, y) /\ LikeKids(A, x, y)
<1>1. Kids(x) = x.parts[1].parts /\ Own(x) = x.data /\ Kids(y) = y.parts[1].parts /\ Own(y) = y.data
  BY KidsOf
<1>2. /\ Len(x.parts) = 1 /\ x.data = "" /\ x.parts[1] \in Trees
      /\ Len(y.parts) = 1 /\ y.data = "" /\ y.parts[1] \in Trees
  <2>1. CASE x.type = "ArrayLiteral"
    BY <2>1, ArrayIs
  <2>2. CASE x.type \in Listing
    BY <2>2, ListingIs
  <2> QED
    BY <2>1, <2>2
<1>3. /\ x.parts[1].type = y.parts[1].type /\ x.parts[1].type \in {"vector", "ExpressionList"}
      /\ x.parts[1].data = "" /\ y.parts[1].data = ""
  <2>1. CASE x.type = "ArrayLiteral"
    BY <2>1, ArrayIs
  <2>2. CASE x.type \in Listing
    <3>1. x.parts[1].type = "ExpressionList" /\ y.parts[1].type = "ExpressionList"
      BY <2>2, ListingIs DEF Regular
    <3> QED
      BY <1>2, <3>1, ExpressionIs
  <2> QED
    BY <2>1, <2>2
<1>4. x.type \in Classes
  BY DEF Regular
<1>5. A[<<x, y>>] <=> A[<<x.parts[1], y.parts[1]>>]
  <2>1. A[<<x, y>>] <=> \A i \in 1..Len(x.parts) : A[<<x.parts[i], y.parts[i]>>]
    BY <1>2, <1>4, NodeLike
  <2> QED
    BY <1>2, <2>1, SingleLike
<1>6. PICK v, w : v = x.parts[1] /\ w = y.parts[1]
  OBVIOUS
<1>7. A[<<v, w>>] <=> Len(v.parts) = Len(w.parts) /\ \A i \in 1..Len(v.parts) : A[<<v.parts[i], w.parts[i]>>]
  <2>1. v \in Trees /\ w \in Trees /\ v.type = w.type /\ v.data = w.data
        /\ v.type \in {"vector", "ExpressionList"}
    BY <1>2, <1>3, <1>6
  <2> QED
    BY <2>1, ListLike
<1>8. Agree(x, y) <=> Len(v.parts) = Len(w.parts)
  BY <1>1, <1>2, <1>6 DEF Agree
<1>9. LikeKids(A, x, y) <=> \A i \in 1..Len(v.parts) : A[<<v.parts[i], w.parts[i]>>]
  BY <1>1, <1>6 DEF LikeKids
<1> QED
  BY <1>5, <1>6, <1>7, <1>8, <1>9

LEMMA RegularLike ==
  ASSUME NEW A, Likeness(A), NEW x \in Trees, NEW y \in Trees, Regular(x), Regular(y),
         x.type = y.type
  PROVE  A[<<x, y>>] <=> Agree(x, y) /\ LikeKids(A, x, y)
<1>0. x.type \in Classes
  BY DEF Regular
<1>n. A[<<x, y>>] <=> /\ Len(x.parts) = Len(y.parts)
                      /\ x.data = y.data \/ x.type \in Accessing \union {"ForStatement"}
                      /\ \A i \in 1..Len(x.parts) : A[<<x.parts[i], y.parts[i]>>]
  BY <1>0, NodeLike
<1>1. CASE x.type \in Constants \union Valued \union Named \union Plain
  <2>1. Kids(x) = x.parts /\ Kids(y) = y.parts
    BY <1>1, KidsOf
  <2>2. Agree(x, y) <=> /\ Len(x.parts) = Len(y.parts)
                        /\ x.data = y.data \/ x.type \in Accessing \union {"ForStatement"}
    <3>1. x.type \notin Accessing
      BY <1>1, KindsDiffer
    <3>2. CASE x.type = "ForStatement"
      <4>1. Own(x) = "" /\ Own(y) = ""
        BY <3>2, KidsOf
      <4> QED
        BY <2>1, <3>2, <4>1 DEF Agree
    <3>3. CASE x.type # "ForStatement"
      <4>1. Own(x) = x.data /\ Own(y) = y.data
        BY <1>1, <3>3, KidsOf
      <4> QED
        BY <2>1, <3>1, <3>3, <4>1 DEF Agree
    <3> QED
      BY <3>2, <3>3
  <2>3. LikeKids(A, x, y) <=> \A i \in 1..Len(x.parts) : A[<<x.parts[i], y.parts[i]>>]
    BY <2>1 DEF LikeKids
  <2> QED
    BY <1>n, <2>2, <2>3
<1>2. CASE x.type \in Accessing
  <2>1. PICK s, t, u, v : s = x.parts[1] /\ t = x.parts[2] /\ u = y.parts[1] /\ v = y.parts[2]
    OBVIOUS
  <2>2. /\ Kids(x) = <<t, s>> /\ Own(x) = "" /\ Len(x.parts) = 2
        /\ Kids(y) = <<v, u>> /\ Own(y) = "" /\ Len(y.parts) = 2
    BY <1>2, <2>1, KidsOf, SimpleIs
  <2>3. /\ Len(Kids(x)) = 2 /\ Kids(x)[1] = t /\ Kids(x)[2] = s
        /\ Len(Kids(y)) = 2 /\ Kids(y)[1] = v /\ Kids(y)[2] = u
    <3>1. PICK k, l : k = Kids(x) /\ l = Kids(y)
      OBVIOUS
    <3>2. k = <<t, s>> /\ l = <<v, u>>
      BY <2>2, <3>1
    <3>3. Len(k) = 2 /\ k[1] = t /\ k[2] = s /\ Len(l) = 2 /\ l[1] = v /\ l[2] = u
      BY <3>2
    <3> QED
      BY <3>1, <3>3
  <2>4. Agree(x, y)
    BY <2>2, <2>3 DEF Agree
  <2>5. LikeKids(A, x, y) <=> A[<<t, v>>] /\ A[<<s, u>>]
    <3>1. \A i \in 1..2 : i = 1 \/ i = 2
      OBVIOUS
    <3> QED
      BY <2>3, <3>1, Indices DEF LikeKids
  <2>6. A[<<x, y>>] <=> A[<<s, u>>] /\ A[<<t, v>>]
    <3>1. A[<<x, y>>] <=> \A i \in 1..Len(x.parts) : A[<<x.parts[i], y.parts[i]>>]
      BY <1>2, <1>n, <2>2
    <3>2. (\A i \in 1..Len(x.parts) : A[<<x.parts[i], y.parts[i]>>])
            <=> A[<<x.parts[1], y.parts[1]>>] /\ A[<<x.parts[2], y.parts[2]>>]
      BY <2>2, DoubleLike
    <3> QED
      BY <2>1, <3>1, <3>2
  <2> QED
    BY <2>4, <2>5, <2>6
<1>3. CASE x.type \in Listing \union {"ArrayLiteral"}
  BY <1>3, ListedLike
<1>4. CASE x.type = "FunctionPrototype"
  <2>1. Kids(x) = <<>> /\ Own(x) = <<x.data, x.parts>> /\ Kids(y) = <<>> /\ Own(y) = <<y.data, y.parts>>
    BY <1>4, KidsOf
  <2>2. Agree(x, y) <=> x.data = y.data /\ x.parts = y.parts
    BY <2>1 DEF Agree
  <2>3. LikeKids(A, x, y)
    BY <2>1 DEF LikeKids
  <2>4. A[<<x, y>>] <=> x.data = y.data /\ x.parts = y.parts
    <3>1. Same(x, y, "FunctionPrototype")
      BY <1>4 DEF Same
    <3> QED
      BY <3>1, PrototypeLike
  <2> QED
    BY <2>2, <2>3, <2>4
<1>5. CASE x.type = "FunctionStatement"
  <2>1. PICK s, t, u, v : s = x.parts[1] /\ t = x.parts[2] /\ u = y.parts[1] /\ v = y.parts[2]
    OBVIOUS
  <2>2. Kids(x) = <<t>> /\ Own(x) = s /\ Kids(y) = <<v>> /\ Own(y) = u
    BY <1>5, <2>1, KidsOf
  <2>3. /\ Len(x.parts) = 2 /\ x.data = "" /\ s \in Trees /\ s.type = "FunctionPrototype"
        /\ Len(y.parts) = 2 /\ y.data = "" /\ u \in Trees /\ u.type = "FunctionPrototype"
    BY <1>5, <2>1, FunctionIs
  <2>4. Len(Kids(x)) = 1 /\ Kids(x)[1] = t /\ Len(Kids(y)) = 1 /\ Kids(y)[1] = v
    BY <2>2
  <2>5. Agree(x, y) <=> s = u
    BY <2>2, <2>4 DEF Agree
  <2>6. LikeKids(A, x, y) <=> A[<<t, v>>]
    <3>1. \A i \in 1..1 : i = 1
      OBVIOUS
    <3> QED
      BY <2>4, <3>1, Indices DEF LikeKids
  <2>7. A[<<x, y>>] <=> A[<<s, u>>] /\ A[<<t, v>>]
    <3>1. A[<<x, y>>] <=> \A i \in 1..Len(x.parts) : A[<<x.parts[i], y.parts[i]>>]
      BY <1>5, <1>n, <2>3
    <3>2. (\A i \in 1..Len(x.parts) : A[<<x.parts[i], y.parts[i]>>])
            <=> A[<<x.parts[1], y.parts[1]>>] /\ A[<<x.parts[2], y.parts[2]>>]
      BY <2>3, DoubleLike
    <3> QED
      BY <2>1, <3>1, <3>2
  <2>8. A[<<s, u>>] <=> s = u
    <3>0. Same(s, u, "FunctionPrototype") /\ s \in Trees /\ u \in Trees
      BY <2>3 DEF Same
    <3>1. A[<<s, u>>] <=> s.data = u.data /\ s.parts = u.parts
      BY <3>0, PrototypeLike
    <3>2. s = Node("FunctionPrototype", s.data, s.parts) /\ u = Node("FunctionPrototype", u.data, u.parts)
      BY <2>3, TreeFacts
    <3> QED
      BY <3>1, <3>2
  <2> QED
    BY <2>5, <2>6, <2>7, <2>8
<1> QED
  BY <1>1, <1>2, <1>3, <1>4, <1>5, RegularKinds

LEMMA ObjectLike ==
  ASSUME NEW A, Likeness(A), NEW x \in Trees, NEW y \in Trees, Same(x, y, "ObjectLiteral")
  PROVE  A[<<x, y>>] <=>
           /\ SameNames(x, y)
           /\ \A i \in 1..Len(Properties(x)) :
                A[<<Properties(x)[i].parts[1], Properties(y)[i].parts[1]>>]
<1> DEFINE v == x.parts[1]
           w == y.parts[1]
<1>1. /\ Len(x.parts) = 1 /\ x.data = "" /\ v \in Trees /\ v.type = "vector" /\ v.data = ""
      /\ Len(y.parts) = 1 /\ y.data = "" /\ w \in Trees /\ w.type = "vector" /\ w.data = ""
  BY ObjectIs DEF Same
<1>2. Properties(x) = v.parts /\ Properties(y) = w.parts
  BY DEF Properties
<1>3. A[<<x, y>>] <=> A[<<v, w>>]
  <2>1. x.type \in Classes /\ x.type = y.type
    BY DEF Same, Classes, Others
  <2>2. A[<<x, y>>] <=> \A i \in 1..Len(x.parts) : A[<<x.parts[i], y.parts[i]>>]
    BY <1>1, <2>1, NodeLike
  <2>3. (\A i \in 1..Len(x.parts) : A[<<x.parts[i], y.parts[i]>>]) <=> A[<<x.parts[1], y.parts[1]>>]
    BY <1>1, SingleLike
  <2> QED
    BY <2>2, <2>3
<1> HIDE DEF v, w
<1>4. A[<<v, w>>] <=> Len(v.parts) = Len(w.parts) /\ \A i \in 1..Len(v.parts) : A[<<v.parts[i], w.parts[i]>>]
  BY <1>1, ListLike
<1>5. ASSUME NEW p \in Trees, NEW q \in Trees, p.type = "property", q.type = "property",
             Len(p.parts) = 1, Len(q.parts) = 1
      PROVE  A[<<p, q>>] <=> p.data = q.data /\ A[<<p.parts[1], q.parts[1]>>]
  <2>1. A[<<p, q>>] <=> SameNode(p, q) /\ \A i \in 1..Len(p.parts) : A[<<p.parts[i], q.parts[i]>>]
    BY <1>5 DEF Likeness
  <2>2. SameNode(p, q) <=> p.data = q.data
    BY <1>5 DEF SameNode
  <2>3. (\A i \in 1..Len(p.parts) : A[<<p.parts[i], q.parts[i]>>]) <=> A[<<p.parts[1], q.parts[1]>>]
    BY <1>5, SingleLike
  <2> QED
    BY <2>1, <2>2, <2>3
<1>6. ASSUME Len(v.parts) = Len(w.parts), NEW i \in 1..Len(v.parts)
      PROVE  A[<<v.parts[i], w.parts[i]>>] <=>
               /\ v.parts[i].data = w.parts[i].data
               /\ A[<<v.parts[i].parts[1], w.parts[i].parts[1]>>]
  <2>1. v.parts[i] \in Trees /\ v.parts[i].type = "property" /\ Len(v.parts[i].parts) = 1
    BY <1>2, PropertiesAre DEF Same
  <2>2. w.parts[i] \in Trees /\ w.parts[i].type = "property" /\ Len(w.parts[i].parts) = 1
    BY <1>2, <1>6, PropertiesAre DEF Same
  <2> QED
    BY <1>5, <2>1, <2>2
<1>7. SameNames(x, y) <=> /\ Len(v.parts) = Len(w.parts)
                          /\ \A i \in 1..Len(v.parts) : v.parts[i].data = w.parts[i].data
  BY <1>2 DEF SameNames
<1> QED
  BY <1>2, <1>3, <1>4, <1>6, <1>7

(* Only the default clauses of switch statements are left out.             *)
LEMMA SwitchLike ==
  ASSUME NEW x \in Trees, NEW y \in Trees, Same(x, y, "SwitchStatement"),
         AlikeButDefaults[<<x.parts[1], y.parts[1]>>], Len(Arms(x)) = Len(Arms(y)),
         \A i \in 1..Len(Arms(x)) - 1 : AlikeButDefaults[<<Arms(x)[i], Arms(y)[i]>>]
  PROVE  AlikeButDefaults[<<x, y>>]
<1> DEFINE v == x.parts[2]
           w == y.parts[2]
<1>1. /\ Len(x.parts) = 2 /\ x.data = "" /\ v \in Trees /\ v.type = "ClausesList" /\ v.data = ""
      /\ Len(y.parts) = 2 /\ y.data = "" /\ w \in Trees /\ w.type = "ClausesList" /\ w.data = ""
  BY SwitchIs DEF Same
<1>2. Arms(x) = v.parts /\ Arms(y) = w.parts
  BY DEF Arms
<1>3. PICK A : A = AlikeButDefaults
  OBVIOUS
<1>4. A[<<x, y>>] <=> A[<<x.parts[1], y.parts[1]>>] /\ A[<<x.parts[2], y.parts[2]>>]
  <2>1. x.type \in Classes /\ x.type = y.type
    BY DEF Same, Classes, Others
  <2>2. Likeness(A)
    BY <1>3, Likenesses
  <2>3. A[<<x, y>>] <=> \A i \in 1..Len(x.parts) : A[<<x.parts[i], y.parts[i]>>]
    <3>1. A[<<x, y>>] <=> /\ Len(x.parts) = Len(y.parts)
                          /\ x.data = y.data \/ x.type \in Accessing \union {"ForStatement"}
                          /\ \A i \in 1..Len(x.parts) : A[<<x.parts[i], y.parts[i]>>]
      BY <2>1, <2>2, NodeLike
    <3> QED
      BY <1>1, <3>1
  <2> QED
    BY <1>1, <2>3, DoubleLike
<1> HIDE DEF v, w
<1>5. A[<<v, w>>]
  <2>1. SameNode(v, w)
    BY <1>1, <1>2 DEF SameNode
  <2>2. PICK n \in Nat : n = Len(v.parts)
    BY <1>1, TreeFacts
  <2>3. \A i \in 1..n : i = n \/ i \in 1..n - 1
    BY <2>2
  <2>4. \A i \in 1..n : IsDefault(v, i) \/ A[<<v.parts[i], w.parts[i]>>]
    BY <1>1, <1>2, <1>3, <2>2, <2>3 DEF IsDefault
  <2>5. A[<<v, w>>] <=>
          SameNode(v, w)
            /\ \A i \in 1..Len(v.parts) : IsDefault(v, i) \/ A[<<v.parts[i], w.parts[i]>>]
    BY <1>1, <1>3, AlikeButDefaultsIs
  <2> QED
    BY <2>1, <2>2, <2>4, <2>5
<1> QED
  BY <1>3, <1>4, <1>5 DEF v, w

LEMMA ApartLike ==
  ASSUME NEW A, Likeness(A), NEW x \in Expressions, NEW y \in Expressions, Apart(x, y)
  PROVE  A[<<x, y>>] <=> x = y
<1>0. x \in Trees /\ y \in Trees /\ (x = Null \/ x.type \in Classes) /\ (y = Null \/ y.type \in Classes)
  BY ExpressionIs DEF Expressions
<1>1. ASSUME x # y PROVE ~A[<<x, y>>]
  <2>1. x.type # y.type
    BY <1>0, <1>1, NullIs DEF Apart
  <2>2. x.type # "ClausesList"
    BY <1>0, NullIs, MembersAreNoClasses
  <2> QED
    BY <1>0, <2>1, <2>2 DEF Likeness, SameNode
<1>2. ASSUME x = y PROVE A[<<x, y>>]
  <2>1. x = Null /\ y = Null
    BY <1>2 DEF Apart
  <2>2. x.type # "ClausesList" /\ Len(x.parts) = 0 /\ SameNode(x, y)
    BY <2>1 DEF Null, Node, SameNode
  <2> QED
    BY <1>0, <2>2 DEF Likeness
<1> QED
  BY <1>1, <1>2

-----------------------------------------------------------------------------
(* Ordinary trees match exactly if they are alike.                         *)

LEMMA BelowContains ==
  ASSUME NEW x, NEW u \in Below(x), NEW types
  PROVE  /\ Contains(u, types) => Contains(x, types)
         /\ Ordinary(x) => Ordinary(u)
  BY DEF Below, Contains, Ordinary

(* Pairs of nodes that never match, whichever comes first.                 *)
Hopeless(x, y) == Crashing(x, y) \/ Same(x, y, "RegExpLiteral") \/ Unmatched(x, y)

LEMMA HopelessMatch ==
  ASSUME NEW x \in Trees, NEW y \in Trees, Hopeless(x, y)
  PROVE  match[<<x, y>>] # "true" /\ match[<<y, x>>] = match[<<x, y>>]
<1>1. match[<<x, y>>] = MatchExpression(x, y, match) /\ match[<<y, x>>] = MatchExpression(y, x, match)
  BY MatchIs
<1>2. CASE Crashing(x, y)
  <2>1. Crashing(y, x)
    BY <1>2 DEF Crashing, Same
  <2> QED
    BY <1>1, <1>2, <2>1, CrashMatch
<1>3. CASE Same(x, y, "RegExpLiteral")
  <2>1. Same(y, x, "RegExpLiteral")
    BY <1>3 DEF Same
  <2> QED
    BY <1>1, <1>3, <2>1, RegExpMatch
<1>4. CASE Unmatched(x, y)
  <2>1. Unmatched(y, x)
    BY <1>4 DEF Unmatched
  <2> QED
    BY <1>1, <1>4, <2>1, ThrowMatch
<1> QED
  BY <1>2, <1>3, <1>4 DEF Hopeless

LEMMA ApartVerdicts ==
  ASSUME NEW x \in Trees, NEW y \in Trees, Apart(x, y)
  PROVE  /\ match[<<x, y>>] = Is(x = y) /\ match[<<y, x>>] = Is(x = y)
         /\ match[<<x, y>>] = "true" <=> x = y
         /\ Apart(y, x)
<1>1. match[<<x, y>>] = MatchExpression(x, y, match) /\ match[<<y, x>>] = MatchExpression(y, x, match)
  BY MatchIs
<1>2. Apart(y, x)
  BY DEF Apart
<1>3. MatchExpression(x, y, match) = Is(x = y)
  BY ApartMatch
<1>4. MatchExpression(y, x, match) = Is(y = x)
  BY <1>2, ApartMatch
<1>5. Is(y = x) = Is(x = y) /\ (Is(x = y) = "true" <=> x = y)
  BY DEF Is
<1> QED
  BY <1>1, <1>2, <1>3, <1>4, <1>5

LEMMA OrdinaryKinds ==
  ASSUME NEW x \in Expressions, NEW y \in Expressions, Ordinary(x), Ordinary(y)
  PROVE  \/ Apart(x, y)
         \/ Regular(x) /\ Regular(y) /\ x.type = y.type
         \/ Same(x, y, "ObjectLiteral")
<1>1. x \in Nodes[x] /\ y \in Nodes[y] /\ x \in Trees /\ y \in Trees
  BY PartsInside DEF Expressions
<1>2. x.type \notin {"RegExpLiteral", "TemplateLiteral", "SwitchStatement", "DeclarationList"}
      /\ x # NullArguments /\ y # NullArguments
  BY <1>1 DEF Ordinary, Contains
<1>3. ~Crashing(x, y)
  BY <1>1, <1>2, NullArgumentsAre DEF Crashing, Same
<1>4. ~Unmatched(x, y)
  BY <1>1, <1>2, ExpressionIs DEF Unmatched, Expressions
<1> QED
  BY <1>2, <1>3, <1>4, PairKinds DEF Same

AlikeBothWays(x, y) ==
  Ordinary(x) /\ Ordinary(y) =>
    /\ match[<<x, y>>] = "true" <=> Alike[<<x, y>>]
    /\ match[<<x, y>>] = "true" <=> Alike[<<y, x>>]

(* By induction over pairs: ordinary trees match exactly if they are       *)
(* alike.                                                                  *)
LEMMA OrdinaryAlike == \A x, y \in Expressions : AlikeBothWays(x, y)
<1> DEFINE S == {pair \in Expressions \X Expressions : AlikeBothWays(pair[1], pair[2])}
<1>1. \A x, y \in Expressions : <<x, y>> \in S <=> AlikeBothWays(x, y)
  OBVIOUS
<1> HIDE DEF S
<1>2. ASSUME NEW x \in Expressions, NEW y \in Expressions,
             \A u, v \in Expressions : Rank(u, v) < Rank(x, y) => <<u, v>> \in S
      PROVE  <<x, y>> \in S
  <2> SUFFICES ASSUME Ordinary(x), Ordinary(y)
               PROVE  /\ match[<<x, y>>] = "true" <=> Alike[<<x, y>>]
                      /\ match[<<x, y>>] = "true" <=> Alike[<<y, x>>]
    BY <1>1 DEF AlikeBothWays
  <2>0. x \in Trees /\ y \in Trees
    BY DEF Expressions
  <2>l. Likeness(Alike)
    BY Likenesses
  <2>b. ASSUME NEW u \in Below(x), NEW v \in Below(y)
        PROVE  /\ match[<<u, v>>] = "true" <=> Alike[<<u, v>>]
               /\ match[<<u, v>>] = "true" <=> Alike[<<v, u>>]
               /\ match[<<v, u>>] = "true" <=> Alike[<<u, v>>]
               /\ match[<<v, u>>] = "true" <=> Alike[<<v, u>>]
    <3>1. u \in Expressions /\ v \in Expressions /\ Rank(u, v) < Rank(x, y) /\ Rank(v, u) < Rank(x, y)
      BY BelowRank
    <3>2. AlikeBothWays(u, v) /\ AlikeBothWays(v, u)
      BY <1>1, <1>2, <3>1
    <3>3. Ordinary(u) /\ Ordinary(v)
      BY BelowContains
    <3> QED
      BY <3>2, <3>3 DEF AlikeBothWays
  <2>1. CASE Apart(x, y)
    <3>1. (match[<<x, y>>] = "true" <=> x = y) /\ Apart(y, x)
      BY <2>0, <2>1, ApartVerdicts
    <3>2. Alike[<<x, y>>] <=> x = y
      BY <2>1, <2>l, ApartLike
    <3>3. Alike[<<y, x>>] <=> y = x
      BY <2>l, <3>1, ApartLike
    <3> QED
      BY <3>1, <3>2, <3>3
  <2>2. CASE Regular(x) /\ Regular(y) /\ x.type = y.type
    <3>1. match[<<x, y>>] = "true" <=>
            Agree(x, y) /\ \A i \in 1..Len(Kids(x)) : match[<<Kids(x)[i], Kids(y)[i]>>] = "true"
      BY <2>0, <2>2, RegularTrue
    <3>2. Alike[<<x, y>>] <=> Agree(x, y) /\ LikeKids(Alike, x, y)
      BY <2>0, <2>2, <2>l, RegularLike
    <3>3. Alike[<<y, x>>] <=> Agree(y, x) /\ LikeKids(Alike, y, x)
      BY <2>0, <2>2, <2>l, RegularLike
    <3>4. Agree(x, y) <=> Agree(y, x)
      BY DEF Agree
    <3>5. ASSUME Agree(x, y)
          PROVE  /\ (\A i \in 1..Len(Kids(x)) : match[<<Kids(x)[i], Kids(y)[i]>>] = "true")
                      <=> LikeKids(Alike, x, y)
                 /\ (\A i \in 1..Len(Kids(x)) : match[<<Kids(x)[i], Kids(y)[i]>>] = "true")
                      <=> LikeKids(Alike, y, x)
      <4>1. PICK n : n = Len(Kids(x)) /\ n = Len(Kids(y))
        BY <3>5 DEF Agree
      <4>2. \A i \in 1..n : Kids(x)[i] \in Below(x) /\ Kids(y)[i] \in Below(y)
        BY <2>0, <2>2, <4>1, KidsBelow
      <4>3. \A i \in 1..n :
              /\ match[<<Kids(x)[i], Kids(y)[i]>>] = "true" <=> Alike[<<Kids(x)[i], Kids(y)[i]>>]
              /\ match[<<Kids(x)[i], Kids(y)[i]>>] = "true" <=> Alike[<<Kids(y)[i], Kids(x)[i]>>]
        BY <2>b, <4>2
      <4> QED
        BY <4>1, <4>3 DEF LikeKids
    <3> QED
      BY <3>1, <3>2, <3>3, <3>4, <3>5
  <2>3. CASE Same(x, y, "ObjectLiteral")
    <3>1. match[<<x, y>>] = "true" <=>
           /\ SameNames(x, y)
           /\ \A i \in 1..Len(Properties(x)) :
                match[<<Properties(y)[i].parts[1], Properties(x)[i].parts[1]>>] = "true"
      BY <2>0, <2>3, ObjectTrue
    <3>2. Alike[<<x, y>>] <=>
           /\ SameNames(x, y)
           /\ \A i \in 1..Len(Properties(x)) :
                Alike[<<Properties(x)[i].parts[1], Properties(y)[i].parts[1]>>]
      BY <2>0, <2>3, <2>l, ObjectLike
    <3>3. Same(y, x, "ObjectLiteral")
      BY <2>3 DEF Same
    <3>4. Alike[<<y, x>>] <=>
           /\ SameNames(y, x)
           /\ \A i \in 1..Len(Properties(y)) :
                Alike[<<Properties(y)[i].parts[1], Properties(x)[i].parts[1]>>]
      BY <2>0, <2>l, <3>3, ObjectLike
    <3>5. SameNames(x, y) <=> SameNames(y, x)
      BY DEF SameNames
    <3>6. \A i \in 1..Len(Properties(x)) : Properties(x)[i].parts[1] \in Below(x)
      BY <2>0, <2>3, ValuesBelow DEF Same
    <3>7. \A i \in 1..Len(Properties(y)) : Properties(y)[i].parts[1] \in Below(y)
      BY <2>0, <2>3, ValuesBelow DEF Same
    <3>8. SameNames(x, y) => Len(Properties(x)) = Len(Properties(y))
      BY DEF SameNames
    <3>9. SameNames(x, y) => \A i \in 1..Len(Properties(x)) :
            /\ match[<<Properties(y)[i].parts[1], Properties(x)[i].parts[1]>>] = "true"
                 <=> Alike[<<Properties(x)[i].parts[1], Properties(y)[i].parts[1]>>]
            /\ match[<<Properties(y)[i].parts[1], Properties(x)[i].parts[1]>>] = "true"
                 <=> Alike[<<Properties(y)[i].parts[1], Properties(x)[i].parts[1]>>]
      BY <2>b, <3>6, <3>7, <3>8
    <3> QED
      BY <3>1, <3>2, <3>4, <3>5, <3>8, <3>9
  <2> QED
    BY <2>1, <2>2, <2>3, OrdinaryKinds
<1> QED
  BY <1>1, <1>2, PairInduction

LEMMA OrdinaryVerdict ==
  ASSUME NEW x \in Expressions, NEW y \in Expressions, Ordinary(x), Ordinary(y)
  PROVE  match[<<x, y>>] = Is(Alike[<<x, y>>])
<1>1. match[<<x, y>>] = "true" <=> Alike[<<x, y>>]
  BY OrdinaryAlike DEF AlikeBothWays
<1>2. match[<<x, y>>] \in Verdicts
  BY MatchIs DEF Expressions
<1>3. PICK w : w = match[<<x, y>>]
  OBVIOUS
<1>4. FailsFor(x, y, w)
  BY <1>3, FailuresAre
<1>5. w # "throw" /\ w # "crash"
  BY <1>4 DEF FailsFor, Ordinary, Contains
<1>6. w # "undefined"
  BY <1>4 DEF FailsFor, Ordinary, Contains
<1> QED
  BY <1>1, <1>2, <1>3, <1>5, <1>6 DEF Verdicts, Is

-----------------------------------------------------------------------------
(* Without declaration lists, trees that match are alike but for defaults. *)

Bare(t) == ~Contains(t, {"DeclarationList"})

LEMMA BareKinds ==
  ASSUME NEW x \in Expressions, NEW y \in Expressions, Bare(x) \/ Bare(y)
  PROVE  \/ Apart(x, y)
         \/ Regular(x) /\ Regular(y) /\ x.type = y.type
         \/ Same(x, y, "ObjectLiteral")
         \/ Same(x, y, "SwitchStatement")
         \/ Hopeless(x, y)
<1>1. x \in Nodes[x] /\ y \in Nodes[y]
  BY PartsInside DEF Expressions
<1>2. ~Same(x, y, "DeclarationList")
  BY <1>1 DEF Bare, Contains, Same
<1> QED
  BY <1>2, PairKinds DEF Hopeless

LikeBothWays(x, y) ==
  match[<<x, y>>] = "true" /\ (Bare(x) \/ Bare(y)) =>
    AlikeButDefaults[<<x, y>>] /\ AlikeButDefaults[<<y, x>>]

(* By induction over pairs: bare trees that match are alike but for        *)
(* defaults.                                                               *)
LEMMA TrueAlike == \A x, y \in Expressions : LikeBothWays(x, y)
<1> DEFINE S == {pair \in Expressions \X Expressions : LikeBothWays(pair[1], pair[2])}
<1>1. \A x, y \in Expressions : <<x, y>> \in S <=> LikeBothWays(x, y)
  OBVIOUS
<1> HIDE DEF S
<1>2. ASSUME NEW x \in Expressions, NEW y \in Expressions,
             \A u, v \in Expressions : Rank(u, v) < Rank(x, y) => <<u, v>> \in S
      PROVE  <<x, y>> \in S
  <2> SUFFICES ASSUME match[<<x, y>>] = "true", Bare(x) \/ Bare(y)
               PROVE  AlikeButDefaults[<<x, y>>] /\ AlikeButDefaults[<<y, x>>]
    BY <1>1 DEF LikeBothWays
  <2>0. x \in Trees /\ y \in Trees
    BY DEF Expressions
  <2>l. Likeness(AlikeButDefaults)
    BY Likenesses
  <2>b. ASSUME NEW u \in Below(x), NEW v \in Below(y),
               match[<<u, v>>] = "true" \/ match[<<v, u>>] = "true"
        PROVE  AlikeButDefaults[<<u, v>>] /\ AlikeButDefaults[<<v, u>>]
    <3>1. u \in Expressions /\ v \in Expressions /\ Rank(u, v) < Rank(x, y) /\ Rank(v, u) < Rank(x, y)
      BY BelowRank
    <3>2. LikeBothWays(u, v) /\ LikeBothWays(v, u)
      BY <1>1, <1>2, <3>1
    <3>3. Bare(u) \/ Bare(v)
      BY BelowContains DEF Bare
    <3> QED
      BY <2>b, <3>2, <3>3 DEF LikeBothWays
  <2>1. CASE Apart(x, y)
    <3>1. x = y /\ Apart(y, x)
      BY <2>0, <2>1, ApartVerdicts
    <3>2. AlikeButDefaults[<<x, y>>] <=> x = y
      BY <2>1, <2>l, ApartLike
    <3> QED
      BY <3>1, <3>2
  <2>2. CASE Regular(x) /\ Regular(y) /\ x.type = y.type
    <3>1. Agree(x, y) /\ \A i \in 1..Len(Kids(x)) : match[<<Kids(x)[i], Kids(y)[i]>>] = "true"
      BY <2>0, <2>2, RegularTrue
    <3>2. AlikeButDefaults[<<x, y>>] <=> Agree(x, y) /\ LikeKids(AlikeButDefaults, x, y)
      BY <2>0, <2>2, <2>l, RegularLike
    <3>3. AlikeButDefaults[<<y, x>>] <=> Agree(y, x) /\ LikeKids(AlikeButDefaults, y, x)
      BY <2>0, <2>2, <2>l, RegularLike
    <3>4. PICK n : n = Len(Kids(x)) /\ n = Len(Kids(y))
      BY <3>1 DEF Agree
    <3>5. \A i \in 1..n : Kids(x)[i] \in Below(x) /\ Kids(y)[i] \in Below(y)
      BY <2>0, <2>2, <3>4, KidsBelow
    <3>6. \A i \in 1..n : /\ AlikeButDefaults[<<Kids(x)[i], Kids(y)[i]>>]
                          /\ AlikeButDefaults[<<Kids(y)[i], Kids(x)[i]>>]
      BY <2>b, <3>1, <3>4, <3>5
    <3>7. LikeKids(AlikeButDefaults, x, y) /\ LikeKids(AlikeButDefaults, y, x)
      BY <3>4, <3>6 DEF LikeKids
    <3> QED
      BY <3>1, <3>2, <3>3, <3>7 DEF Agree
  <2>3. CASE Same(x, y, "ObjectLiteral")
    <3>1. /\ SameNames(x, y)
          /\ \A i \in 1..Len(Properties(x)) :
               match[<<Properties(y)[i].parts[1], Properties(x)[i].parts[1]>>] = "true"
      BY <2>0, <2>3, ObjectTrue
    <3>2. AlikeButDefaults[<<x, y>>] <=>
           /\ SameNames(x, y)
           /\ \A i \in 1..Len(Properties(x)) :
                AlikeButDefaults[<<Properties(x)[i].parts[1], Properties(y)[i].parts[1]>>]
      BY <2>0, <2>3, <2>l, ObjectLike
    <3>3. Same(y, x, "ObjectLiteral")
      BY <2>3 DEF Same
    <3>4. AlikeButDefaults[<<y, x>>] <=>
           /\ SameNames(y, x)
           /\ \A i \in 1..Len(Properties(y)) :
                AlikeButDefaults[<<Properties(y)[i].parts[1], Properties(x)[i].parts[1]>>]
      BY <2>0, <2>l, <3>3, ObjectLike
    <3>5. SameNames(y, x) /\ Len(Properties(x)) = Len(Properties(y))
      BY <3>1 DEF SameNames
    <3>6. \A i \in 1..Len(Properties(x)) : Properties(x)[i].parts[1] \in Below(x)
      BY <2>0, <2>3, ValuesBelow DEF Same
    <3>7. \A i \in 1..Len(Properties(y)) : Properties(y)[i].parts[1] \in Below(y)
      BY <2>0, <2>3, ValuesBelow DEF Same
    <3>8. \A i \in 1..Len(Properties(x)) :
            /\ AlikeButDefaults[<<Properties(x)[i].parts[1], Properties(y)[i].parts[1]>>]
            /\ AlikeButDefaults[<<Properties(y)[i].parts[1], Properties(x)[i].parts[1]>>]
      BY <2>b, <3>1, <3>5, <3>6, <3>7
    <3> QED
      BY <3>1, <3>2, <3>4, <3>5, <3>8
  <2>4. CASE Same(x, y, "SwitchStatement")
    <3>1. /\ match[<<x.parts[1], y.parts[1]>>] = "true" /\ SameArms(x, y)
          /\ \A i \in 1..Len(Arms(x)) - 1 : match[<<Arms(x)[i], Arms(y)[i]>>] = "true"
      <4>1. match[<<x, y>>] = "true" <=>
              /\ match[<<x.parts[1], y.parts[1]>>] = "true" /\ SameArms(x, y)
              /\ \A i \in 1..Len(Arms(x)) - 1 : match[<<Arms(x)[i], Arms(y)[i]>>] = "true"
              /\ match[<<Default(x), Default(y)>>] = "false"
        BY <2>0, <2>4, SwitchTrue
      <4> QED
        BY <4>1
    <3>2. PICK n : n = Len(Arms(x)) /\ n = Len(Arms(y))
      BY <3>1 DEF SameArms
    <3>3. x.parts[1] \in Below(x) /\ \A i \in 1..n - 1 : Arms(x)[i] \in Below(x)
      BY <2>0, <2>4, <3>2, ArmsBelow DEF Same
    <3>4. y.parts[1] \in Below(y) /\ \A i \in 1..n - 1 : Arms(y)[i] \in Below(y)
      BY <2>0, <2>4, <3>2, ArmsBelow DEF Same
    <3>5. AlikeButDefaults[<<x.parts[1], y.parts[1]>>] /\ AlikeButDefaults[<<y.parts[1], x.parts[1]>>]
      BY <2>b, <3>1, <3>3, <3>4
    <3>6. \A i \in 1..n - 1 : /\ AlikeButDefaults[<<Arms(x)[i], Arms(y)[i]>>]
                              /\ AlikeButDefaults[<<Arms(y)[i], Arms(x)[i]>>]
      BY <2>b, <3>1, <3>2, <3>3, <3>4
    <3>7. AlikeButDefaults[<<x, y>>]
      BY <2>0, <2>4, <3>2, <3>5, <3>6, SwitchLike
    <3>8. Same(y, x, "SwitchStatement")
      BY <2>4 DEF Same
    <3>9. AlikeButDefaults[<<y, x>>]
      BY <2>0, <3>2, <3>5, <3>6, <3>8, SwitchLike
    <3> QED
      BY <3>7, <3>9
  <2>5. CASE Hopeless(x, y)
    BY <2>0, <2>5, HopelessMatch
  <2> QED
    BY <2>1, <2>2, <2>3, <2>4, <2>5, BareKinds
<1> QED
  BY <1>1, <1>2, PairInduction

-----------------------------------------------------------------------------
(* No tree with a switch or a regular expression matches itself, but for   *)
(* an odd default clause.                                                  *)

Odd == {"SwitchStatement", "RegExpLiteral"}

LEMMA OddIsInside ==
  ASSUME NEW x \in Trees, NEW node \in Nodes[x], node.type \in Odd, x.type \notin Odd
  PROVE  \E i \in 1..Len(x.parts) : node \in Nodes[x.parts[i]]
<1>1. Nodes[x] = {x} \union UNION {Nodes[x.parts[i]] : i \in 1..Len(x.parts)}
  BY NodesAre
<1> QED
  BY <1>1

LEMMA OddIsInKid ==
  ASSUME NEW x \in Trees, Regular(x), NEW node \in Nodes[x], node.type \in Odd
  PROVE  \E i \in 1..Len(Kids(x)) : node \in Nodes[Kids(x)[i]]
<1>0. x.type \notin Odd
  BY DEF Regular, Odd
<1>1. PICK k \in 1..Len(x.parts) : node \in Nodes[x.parts[k]]
  BY <1>0, OddIsInside
<1>n. \A t \in {"vector", "ExpressionList", "name", "FunctionPrototype"} : t \notin Odd
  BY DEF Odd
<1>p. ASSUME NEW t \in Trees, t.type = "FunctionPrototype" PROVE node \notin Nodes[t]
  <2> SUFFICES ASSUME node \in Nodes[t] PROVE FALSE
    OBVIOUS
  <2>1. /\ Len(t.parts) = 1 /\ t.parts[1] \in Trees /\ t.parts[1].type = "vector"
        /\ \A i \in 1..Len(t.parts[1].parts) :
             LET p == t.parts[1].parts[i] IN p \in Trees /\ p.type = "name" /\ p.parts = <<>>
    BY <1>p, PrototypeIs
  <2>2. node \in Nodes[t.parts[1]]
    <3>1. \E i \in 1..Len(t.parts) : node \in Nodes[t.parts[i]]
      BY <1>n, <1>p, OddIsInside
    <3>2. \A i \in 1..1 : i = 1
      OBVIOUS
    <3> QED
      BY <2>1, <3>1, <3>2
  <2>3. PICK i \in 1..Len(t.parts[1].parts) : node \in Nodes[t.parts[1].parts[i]]
    BY <1>n, <2>1, <2>2, OddIsInside
  <2>4. PICK p : p = t.parts[1].parts[i]
    OBVIOUS
  <2>5. p \in Trees /\ p.type = "name" /\ Len(p.parts) = 0
    BY <2>1, <2>4
  <2>6. \E j \in 1..Len(p.parts) : node \in Nodes[p.parts[j]]
    BY <1>n, <2>3, <2>4, <2>5, OddIsInside
  <2> QED
    BY <2>5, <2>6
<1>2. CASE x.type \in Constants \union Valued \union Named \union Plain
  <2>1. Kids(x) = x.parts
    BY <1>2, KidsOf
  <2> QED
    BY <1>1, <2>1
<1>3. CASE x.type \in Accessing
  <2>1. PICK s, t, kids : s = x.parts[1] /\ t = x.parts[2] /\ kids = Kids(x)
    OBVIOUS
  <2>2. kids = <<t, s>> /\ Len(x.parts) = 2
    BY <1>3, <2>1, KidsOf, SimpleIs
  <2>3. Len(kids) = 2 /\ kids[1] = t /\ kids[2] = s
    BY <2>2
  <2>4. \A i \in 1..2 : i = 1 \/ i = 2
    OBVIOUS
  <2>5. node \in Nodes[s] \/ node \in Nodes[t]
    BY <1>1, <2>1, <2>2, <2>4
  <2> QED
    BY <2>1, <2>3, <2>5, Indices
<1>4. CASE x.type \in Listing \union {"ArrayLiteral"}
  <2>1. Kids(x) = x.parts[1].parts
    BY <1>4, KidsOf
  <2>2. Len(x.parts) = 1 /\ x.parts[1] \in Trees
    BY <1>4, ListingIs, ArrayIs
  <2>3. x.parts[1].type \in {"vector", "ExpressionList"}
    BY <1>4, ListingIs, ArrayIs DEF Regular
  <2>4. node \in Nodes[x.parts[1]]
    <3>1. \A i \in 1..1 : i = 1
      OBVIOUS
    <3> QED
      BY <1>1, <2>2, <3>1
  <2>5. \E i \in 1..Len(x.parts[1].parts) : node \in Nodes[x.parts[1].parts[i]]
    BY <1>n, <2>2, <2>3, <2>4, OddIsInside
  <2> QED
    BY <2>1, <2>5
<1>5. CASE x.type = "FunctionPrototype"
  BY <1>5, <1>p
<1>6. CASE x.type = "FunctionStatement"
  <2>1. PICK s, t, kids : s = x.parts[1] /\ t = x.parts[2] /\ kids = Kids(x)
    OBVIOUS
  <2>2. kids = <<t>> /\ Len(x.parts) = 2 /\ s \in Trees /\ s.type = "FunctionPrototype"
    BY <1>6, <2>1, KidsOf, FunctionIs
  <2>3. Len(kids) = 1 /\ kids[1] = t
    BY <2>2
  <2>4. \A i \in 1..2 : i = 1 \/ i = 2
    OBVIOUS
  <2>5. node \in Nodes[s] \/ node \in Nodes[t]
    BY <1>1, <2>1, <2>2, <2>4
  <2>6. node \in Nodes[t]
    BY <1>p, <2>2, <2>5
  <2> QED
    BY <2>1, <2>3, <2>6, Indices
<1> QED
  BY <1>2, <1>3, <1>4, <1>5, <1>6, RegularKinds

LEMMA OddIsInValue ==
  ASSUME NEW x \in Trees, x.type = "ObjectLiteral", NEW node \in Nodes[x], node.type \in Odd
  PROVE  \E i \in 1..Len(Properties(x)) : node \in Nodes[Properties(x)[i].parts[1]]
<1>1. Len(x.parts) = 1 /\ x.parts[1] \in Trees /\ x.parts[1].type = "vector"
  BY ObjectIs
<1>2. \A t \in {"ObjectLiteral", "vector", "property"} : t \notin Odd
  BY DEF Odd
<1>3. \A i \in 1..1 : i = 1
  OBVIOUS
<1>4. node \in Nodes[x.parts[1]]
  BY <1>1, <1>2, <1>3, OddIsInside
<1>5. PICK i \in 1..Len(Properties(x)) : node \in Nodes[Properties(x)[i]]
  BY <1>1, <1>2, <1>4, OddIsInside DEF Properties
<1>6. PICK p : p = Properties(x)[i]
  OBVIOUS
<1>7. p \in Trees /\ p.type = "property" /\ Len(p.parts) = 1
  BY <1>6, PropertiesAre
<1>8. node \in Nodes[p.parts[1]]
  BY <1>2, <1>3, <1>5, <1>6, <1>7, OddIsInside
<1> QED
  BY <1>6, <1>8

LEMMA AlikeItself == \A t \in Trees : Alike[<<t, t>>]
<1> DEFINE S == {t \in Trees : Alike[<<t, t>>]}
<1>1. \A t \in Trees : (\A e \in Trees : Height[e] < Height[t] => e \in S) => t \in S
  <2> TAKE t \in Trees
  <2> HAVE \A e \in Trees : Height[e] < Height[t] => e \in S
  <2>1. \A i \in 1..Len(t.parts) : Alike[<<t.parts[i], t.parts[i]>>]
    BY TreeFacts
  <2>2. SameNode(t, t)
    BY DEF SameNode
  <2>3. Alike[<<t, t>>]
    BY <2>1, <2>2, AlikeIs
  <2> QED
    BY <2>3
<1>2. Height \in [Trees -> Nat]
  BY TreesAreTrees
<1>3. \A t \in Trees : t \in S
  <2> HIDE DEF S
  <2> QED
    BY <1>1, <1>2, RankInduction
<1> QED
  BY <1>3

OddMatch(x) ==
  Bare(x) /\ match[<<x, x>>] = "true" /\ Contains(x, Odd) => OddDefault(x)

(* By induction over heights: a tree with an odd node does not match       *)
(* itself.                                                                 *)
LEMMA OddMatches == \A x \in Expressions : OddMatch(x)
<1> DEFINE S == {x \in Expressions : OddMatch(x)}
           rank == [x \in Expressions |-> Height[x]]
<1>1. \A x \in Expressions : x \in S <=> OddMatch(x)
  OBVIOUS
<1>2. rank \in [Expressions -> Nat] /\ \A x \in Expressions : rank[x] = Height[x]
  BY TreeFacts DEF Expressions
<1> HIDE DEF S, rank
<1>3. ASSUME NEW x \in Expressions, \A u \in Expressions : rank[u] < rank[x] => u \in S
      PROVE  x \in S
  <2> SUFFICES ASSUME Bare(x), match[<<x, x>>] = "true", Contains(x, Odd)
               PROVE  OddDefault(x)
    BY <1>1 DEF OddMatch
  <2>0. x \in Trees
    BY DEF Expressions
  <2>b. ASSUME NEW u \in Below(x), match[<<u, u>>] = "true", Contains(u, Odd)
        PROVE  OddDefault(x)
    <3>1. u \in Expressions /\ Height[u] < Height[x] /\ Nodes[u] \subseteq Nodes[x]
      BY DEF Below
    <3>2. OddMatch(u)
      BY <1>1, <1>2, <1>3, <3>1
    <3>3. Bare(u)
      BY BelowContains DEF Bare
    <3>4. OddDefault(u)
      BY <2>b, <3>2, <3>3 DEF OddMatch
    <3> QED
      BY <3>1, <3>4 DEF OddDefault
  <2>n. PICK node \in Nodes[x] : node.type \in Odd
    BY DEF Contains
  <2>1. CASE Apart(x, x)
    <3>1. x = Null /\ Len(x.parts) = 0 /\ x.type \notin Odd
      <4>1. x = Null
        BY <2>1 DEF Apart
      <4>2. Null.parts = <<>> /\ Null.type = "nullptr"
        BY DEF Null, Node
      <4> QED
        BY <4>1, <4>2 DEF Odd
    <3>2. \E i \in 1..Len(x.parts) : node \in Nodes[x.parts[i]]
      BY <2>0, <2>n, <3>1, OddIsInside
    <3> QED
      BY <3>1, <3>2
  <2>2. CASE Regular(x)
    <3>1. PICK i \in 1..Len(Kids(x)) : node \in Nodes[Kids(x)[i]]
      BY <2>0, <2>2, <2>n, OddIsInKid
    <3>2. match[<<Kids(x)[i], Kids(x)[i]>>] = "true"
      BY <2>0, <2>2, RegularTrue
    <3>3. Kids(x)[i] \in Below(x)
      BY <2>0, <2>2, KidsBelow
    <3>4. Contains(Kids(x)[i], Odd)
      BY <2>n, <3>1 DEF Contains
    <3> QED
      BY <2>b, <3>2, <3>3, <3>4
  <2>3. CASE Same(x, x, "ObjectLiteral")
    <3>0. x.type = "ObjectLiteral"
      BY <2>3 DEF Same
    <3>1. PICK i \in 1..Len(Properties(x)) : node \in Nodes[Properties(x)[i].parts[1]]
      BY <2>0, <2>n, <3>0, OddIsInValue
    <3>2. match[<<Properties(x)[i].parts[1], Properties(x)[i].parts[1]>>] = "true"
      BY <2>0, <2>3, ObjectTrue
    <3>3. Properties(x)[i].parts[1] \in Below(x)
      BY <2>0, <3>0, ValuesBelow
    <3>4. Contains(Properties(x)[i].parts[1], Odd)
      BY <2>n, <3>1 DEF Contains
    <3> QED
      BY <2>b, <3>2, <3>3, <3>4
  <2>4. CASE Same(x, x, "SwitchStatement")
    <3>1. match[<<Default(x), Default(x)>>] = "false"
      BY <2>0, <2>4, SwitchTrue
    <3>2. Default(x) \in Expressions /\ Default(x) \in Trees
      BY <2>0, <2>4, ArmsAre DEF Same, Expressions
    <3>3. ~Ordinary(Default(x))
      <4> SUFFICES ASSUME Ordinary(Default(x)) PROVE FALSE
        OBVIOUS
      <4>1. match[<<Default(x), Default(x)>>] = Is(Alike[<<Default(x), Default(x)>>])
        BY <3>2, OrdinaryVerdict
      <4>2. Alike[<<Default(x), Default(x)>>]
        BY <3>2, AlikeItself
      <4> QED
        BY <3>1, <4>1, <4>2 DEF Is
    <3>4. x.parts[2] \in Nodes[x] /\ x.parts[2].type = "ClausesList"
      BY <2>0, <2>4, ArmsBelow, SwitchIs DEF Same
    <3> QED
      BY <3>3, <3>4 DEF OddDefault, Default, Arms
  <2>5. CASE Hopeless(x, x)
    BY <2>0, <2>5, HopelessMatch
  <2> QED
    BY <2>1, <2>2, <2>3, <2>4, <2>5, BareKinds
<1>4. \A x \in Expressions : x \in S
  BY <1>2, <1>3, RankInduction
<1> QED
  BY <1>1, <1>4

-----------------------------------------------------------------------------
(* The order of the two trees.                                             *)

SameEitherWay(x, y) ==
  Bare(x) /\ ~Contains(x, {"ObjectLiteral"}) => match[<<y, x>>] = match[<<x, y>>]

(* By induction over pairs: the verdict is the same both ways.             *)
LEMMA VerdictsSymmetric == \A x, y \in Expressions : SameEitherWay(x, y)
<1> DEFINE S == {pair \in Expressions \X Expressions : SameEitherWay(pair[1], pair[2])}
<1>1. \A x, y \in Expressions : <<x, y>> \in S <=> SameEitherWay(x, y)
  OBVIOUS
<1> HIDE DEF S
<1>2. ASSUME NEW x \in Expressions, NEW y \in Expressions,
             \A u, v \in Expressions : Rank(u, v) < Rank(x, y) => <<u, v>> \in S
      PROVE  <<x, y>> \in S
  <2> SUFFICES ASSUME Bare(x), ~Contains(x, {"ObjectLiteral"})
               PROVE  match[<<y, x>>] = match[<<x, y>>]
    BY <1>1 DEF SameEitherWay
  <2>0. x \in Trees /\ y \in Trees
    BY DEF Expressions
  <2>m. match[<<x, y>>] = MatchExpression(x, y, match) /\ match[<<y, x>>] = MatchExpression(y, x, match)
    BY <2>0, MatchIs
  <2>b. ASSUME NEW u \in Below(x), NEW v \in Below(y)
        PROVE  match[<<v, u>>] = match[<<u, v>>]
    <3>1. u \in Expressions /\ v \in Expressions /\ Rank(u, v) < Rank(x, y)
      BY BelowRank
    <3>2. SameEitherWay(u, v)
      BY <1>1, <1>2, <3>1
    <3>3. Bare(u) /\ ~Contains(u, {"ObjectLiteral"})
      BY BelowContains DEF Bare
    <3> QED
      BY <3>2, <3>3 DEF SameEitherWay
  <2>1. CASE Apart(x, y)
    BY <2>0, <2>1, ApartVerdicts
  <2>2. CASE Regular(x) /\ Regular(y) /\ x.type = y.type
    <3>1. match[<<x, y>>] = And(Is(Agree(x, y)), AndAll(Each(x, y, match)))
      BY <2>0, <2>2, <2>m, RegularMatch
    <3>2. match[<<y, x>>] = And(Is(Agree(y, x)), AndAll(Each(y, x, match)))
      BY <2>0, <2>2, <2>m, RegularMatch
    <3>3. CASE Agree(x, y)
      <4>1. PICK n : n = Len(Kids(x)) /\ n = Len(Kids(y))
        BY <3>3 DEF Agree
      <4>2. \A i \in 1..n : Kids(x)[i] \in Below(x) /\ Kids(y)[i] \in Below(y)
        BY <2>0, <2>2, <4>1, KidsBelow
      <4>3. \A i \in 1..n : match[<<Kids(y)[i], Kids(x)[i]>>] = match[<<Kids(x)[i], Kids(y)[i]>>]
        BY <2>b, <4>2
      <4>4. Each(x, y, match) = Each(y, x, match)
        BY <4>1, <4>3 DEF Each
      <4>5. Agree(y, x)
        BY <3>3 DEF Agree
      <4> QED
        BY <3>1, <3>2, <3>3, <4>4, <4>5 DEF Is
    <3>4. CASE ~Agree(x, y)
      <4>1. ~Agree(y, x)
        BY <3>4 DEF Agree
      <4> QED
        BY <3>1, <3>2, <3>4, <4>1 DEF And, Is
    <3> QED
      BY <3>3, <3>4
  <2>3. CASE Same(x, y, "ObjectLiteral")
    <3>1. x \in Nodes[x]
      BY <2>0, PartsInside
    <3> QED
      BY <2>3, <3>1 DEF Contains, Same
  <2>4. CASE Same(x, y, "SwitchStatement")
    <3>0. Same(y, x, "SwitchStatement")
      BY <2>4 DEF Same
    <3>1. match[<<x, y>>] =
            And(match[<<x.parts[1], y.parts[1]>>],
                IF SameArms(x, y)
                THEN And(AndAll(CaseVerdicts(x, y, match)), Negated(match[<<Default(x), Default(y)>>]))
                ELSE "false")
      BY <2>4, <2>m, SwitchMatch
    <3>2. match[<<y, x>>] =
            And(match[<<y.parts[1], x.parts[1]>>],
                IF SameArms(y, x)
                THEN And(AndAll(CaseVerdicts(y, x, match)), Negated(match[<<Default(y), Default(x)>>]))
                ELSE "false")
      BY <2>m, <3>0, SwitchMatch
    <3>3. /\ x.parts[1] \in Below(x) /\ Default(x) \in Below(x)
          /\ \A i \in 1..Len(Arms(x)) - 1 : Arms(x)[i] \in Below(x)
      BY <2>0, <2>4, ArmsBelow DEF Same
    <3>4. /\ y.parts[1] \in Below(y) /\ Default(y) \in Below(y)
          /\ \A i \in 1..Len(Arms(y)) - 1 : Arms(y)[i] \in Below(y)
      BY <2>0, <2>4, ArmsBelow DEF Same
    <3>5. /\ match[<<y.parts[1], x.parts[1]>>] = match[<<x.parts[1], y.parts[1]>>]
          /\ match[<<Default(y), Default(x)>>] = match[<<Default(x), Default(y)>>]
      BY <2>b, <3>3, <3>4
    <3>6. SameArms(x, y) <=> SameArms(y, x)
      BY DEF SameArms
    <3>7. ASSUME SameArms(x, y) PROVE CaseVerdicts(x, y, match) = CaseVerdicts(y, x, match)
      <4>1. PICK n : n = Len(Arms(x)) /\ n = Len(Arms(y))
        BY <3>7 DEF SameArms
      <4>2. CaseVerdicts(x, y, match) = [i \in 1..n - 1 |-> match[<<Arms(x)[i], Arms(y)[i]>>]]
        BY <2>0, <2>4, <3>7, <4>1, CasesMatch
      <4>3. CaseVerdicts(y, x, match) = [i \in 1..n - 1 |-> match[<<Arms(y)[i], Arms(x)[i]>>]]
        BY <2>0, <3>0, <3>6, <3>7, <4>1, CasesMatch
      <4>4. \A i \in 1..n - 1 : match[<<Arms(y)[i], Arms(x)[i]>>] = match[<<Arms(x)[i], Arms(y)[i]>>]
        BY <2>b, <3>3, <3>4, <4>1
      <4> QED
        BY <4>2, <4>3, <4>4
    <3> QED
      BY <3>1, <3>2, <3>5, <3>6, <3>7
  <2>5. CASE Hopeless(x, y)
    BY <2>0, <2>5, HopelessMatch
  <2> QED
    BY <2>1, <2>2, <2>3, <2>4, <2>5, BareKinds
<1> QED
  BY <1>1, <1>2, PairInduction

TrueEitherWay(x, y) ==
  Bare(x) /\ ~Contains(x, {"SwitchStatement"}) =>
    (match[<<y, x>>] = "true" <=> match[<<x, y>>] = "true")

(* By induction over pairs: a match is one both ways.                      *)
LEMMA TruthSymmetric == \A x, y \in Expressions : TrueEitherWay(x, y)
<1> DEFINE S == {pair \in Expressions \X Expressions : TrueEitherWay(pair[1], pair[2])}
<1>1. \A x, y \in Expressions : <<x, y>> \in S <=> TrueEitherWay(x, y)
  OBVIOUS
<1> HIDE DEF S
<1>2. ASSUME NEW x \in Expressions, NEW y \in Expressions,
             \A u, v \in Expressions : Rank(u, v) < Rank(x, y) => <<u, v>> \in S
      PROVE  <<x, y>> \in S
  <2> SUFFICES ASSUME Bare(x), ~Contains(x, {"SwitchStatement"})
               PROVE  match[<<y, x>>] = "true" <=> match[<<x, y>>] = "true"
    BY <1>1 DEF TrueEitherWay
  <2>0. x \in Trees /\ y \in Trees
    BY DEF Expressions
  <2>b. ASSUME NEW u \in Below(x), NEW v \in Below(y)
        PROVE  match[<<v, u>>] = "true" <=> match[<<u, v>>] = "true"
    <3>1. u \in Expressions /\ v \in Expressions /\ Rank(u, v) < Rank(x, y)
      BY BelowRank
    <3>2. TrueEitherWay(u, v)
      BY <1>1, <1>2, <3>1
    <3>3. Bare(u) /\ ~Contains(u, {"SwitchStatement"})
      BY BelowContains DEF Bare
    <3> QED
      BY <3>2, <3>3 DEF TrueEitherWay
  <2>1. CASE Apart(x, y)
    BY <2>0, <2>1, ApartVerdicts
  <2>2. CASE Regular(x) /\ Regular(y) /\ x.type = y.type
    <3>1. match[<<x, y>>] = "true" <=>
            Agree(x, y) /\ \A i \in 1..Len(Kids(x)) : match[<<Kids(x)[i], Kids(y)[i]>>] = "true"
      BY <2>0, <2>2, RegularTrue
    <3>2. match[<<y, x>>] = "true" <=>
            Agree(y, x) /\ \A i \in 1..Len(Kids(y)) : match[<<Kids(y)[i], Kids(x)[i]>>] = "true"
      BY <2>0, <2>2, RegularTrue
    <3>3. Agree(x, y) <=> Agree(y, x)
      BY DEF Agree
    <3>4. ASSUME Agree(x, y)
          PROVE  (\A i \in 1..Len(Kids(x)) : match[<<Kids(x)[i], Kids(y)[i]>>] = "true")
                   <=> \A i \in 1..Len(Kids(y)) : match[<<Kids(y)[i], Kids(x)[i]>>] = "true"
      <4>1. PICK n : n = Len(Kids(x)) /\ n = Len(Kids(y))
        BY <3>4 DEF Agree
      <4>2. \A i \in 1..n : Kids(x)[i] \in Below(x) /\ Kids(y)[i] \in Below(y)
        BY <2>0, <2>2, <4>1, KidsBelow
      <4>3. \A i \in 1..n : match[<<Kids(y)[i], Kids(x)[i]>>] = "true"
                              <=> match[<<Kids(x)[i], Kids(y)[i]>>] = "true"
        BY <2>b, <4>2
      <4> QED
        BY <4>1, <4>3
    <3> QED
      BY <3>1, <3>2, <3>3, <3>4
  <2>3. CASE Same(x, y, "ObjectLiteral")
    <3>0. Same(y, x, "ObjectLiteral")
      BY <2>3 DEF Same
    <3>1. match[<<x, y>>] = "true" <=>
           /\ SameNames(x, y)
           /\ \A i \in 1..Len(Properties(x)) :
                match[<<Properties(y)[i].parts[1], Properties(x)[i].parts[1]>>] = "true"
      BY <2>0, <2>3, ObjectTrue
    <3>2. match[<<y, x>>] = "true" <=>
           /\ SameNames(y, x)
           /\ \A i \in 1..Len(Properties(y)) :
                match[<<Properties(x)[i].parts[1], Properties(y)[i].parts[1]>>] = "true"
      BY <2>0, <3>0, ObjectTrue
    <3>3. /\ SameNames(x, y) <=> SameNames(y, x)
          /\ SameNames(x, y) => Len(Properties(x)) = Len(Properties(y))
      BY DEF SameNames
    <3>4. \A i \in 1..Len(Properties(x)) : Properties(x)[i].parts[1] \in Below(x)
      BY <2>0, <2>3, ValuesBelow DEF Same
    <3>5. \A i \in 1..Len(Properties(y)) : Properties(y)[i].parts[1] \in Below(y)
      BY <2>0, <2>3, ValuesBelow DEF Same
    <3>6. SameNames(x, y) => \A i \in 1..Len(Properties(x)) :
            match[<<Properties(y)[i].parts[1], Properties(x)[i].parts[1]>>] = "true"
              <=> match[<<Properties(x)[i].parts[1], Properties(y)[i].parts[1]>>] = "true"
      BY <2>b, <3>3, <3>4, <3>5
    <3> QED
      BY <3>1, <3>2, <3>3, <3>6
  <2>4. CASE Same(x, y, "SwitchStatement")
    <3>1. x \in Nodes[x]
      BY <2>0, PartsInside
    <3> QED
      BY <2>4, <3>1 DEF Contains, Same
  <2>5. CASE Hopeless(x, y)
    BY <2>0, <2>5, HopelessMatch
  <2> QED
    BY <2>1, <2>2, <2>3, <2>4, <2>5, BareKinds
<1> QED
  BY <1>1, <1>2, PairInduction

-----------------------------------------------------------------------------
(* What the matcher answers.                                               *)

(* FastASTMatcher answers true for two ordinary trees, of whatever height, *)
(* exactly when they are equal but for the kinds of accesses and loops,    *)
(* and false for all others; it never fails on them. MatchObjectLiteral,   *)
(* which looks names up in the other map, is equality as well.             *)
THEOREM MatcherComparesOrdinaryTrees == Spec => []MatchIffEqual
<1>1. Inv => MatchIffEqual
  BY OrdinaryVerdict DEF Inv, MatchIffEqual
<1> QED
  BY <1>1, MatchInvariant, PTL

(* Without declaration lists an answer of true is right: the trees are     *)
(* alike but for the default clauses that MatchClausesList compares the    *)
(* wrong way round. And a tree with a switch or a regular expression       *)
(* anywhere in it does not match itself, but for a default clause that is  *)
(* no ordinary tree.                                                       *)
THEOREM MatcherTrueMeansAlike == Spec => []TrueMeansAlike
<1>1. Inv => TrueMeansAlike
  <2> SUFFICES ASSUME Inv, verdict = "true", Bare(a)
               PROVE  /\ AlikeButDefaults[<<a, b>>]
                      /\ Contains(a, {"SwitchStatement", "RegExpLiteral"}) => a # b \/ OddDefault(a)
    BY DEF TrueMeansAlike, Bare
  <2>1. a \in Expressions /\ b \in Expressions /\ match[<<a, b>>] = "true"
    BY DEF Inv
  <2>2. AlikeButDefaults[<<a, b>>]
    BY <2>1, TrueAlike DEF LikeBothWays
  <2>3. Contains(a, {"SwitchStatement", "RegExpLiteral"}) /\ a = b => OddDefault(a)
    BY <2>1, OddMatches DEF OddMatch, Odd
  <2> QED
    BY <2>2, <2>3
<1> QED
  BY <1>1, MatchInvariant, PTL

(* FastASTMatcher answers the same for (a, b) and (b, a), failures         *)
(* included, in trees without declaration lists and object literals; and   *)
(* true for both or for neither in trees without declaration lists and     *)
(* switches.                                                               *)
THEOREM MatcherSymmetric == Spec => []Symmetric
<1>1. Inv => Symmetric
  <2> SUFFICES ASSUME Inv, verdict # "none", Bare(a)
               PROVE  /\ ~Contains(a, {"ObjectLiteral"}) => match[<<b, a>>] = verdict
                      /\ ~Contains(a, {"SwitchStatement"}) =>
                           (match[<<b, a>>] = "true" <=> verdict = "true")
    BY DEF Symmetric, Bare
  <2>1. a \in Expressions /\ b \in Expressions /\ verdict = match[<<a, b>>]
    BY DEF Inv
  <2>2. SameEitherWay(a, b) /\ TrueEitherWay(a, b)
    BY <2>1, VerdictsSymmetric, TruthSymmetric
  <2> QED
    BY <2>1, <2>2 DEF SameEitherWay, TrueEitherWay
<1> QED
  BY <1>1, MatchInvariant, PTL

=============================================================================
