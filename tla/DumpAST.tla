------------------------------ MODULE DumpAST ------------------------------
(***************************************************************************)
(* The tree printer of samples/dump-ast.cc.  A Visit is the sequence of    *)
(* what it does: write to the line, move the indentation, visit a child.   *)
(* Of the text printed the model keeps the lines that open and close a     *)
(* brace, with their indentation, and the tokens shown.                    *)
(***************************************************************************)
EXTENDS Parser

VARIABLES
  visits,  \* the Visits in progress, the innermost last
  tab,     \* DumpAST::tab_
  line,    \* the indentation of the line being written, Fresh before its first character
  opened,  \* history: the indentations of the lines whose brace is still open
  shown,   \* history: the tokens printed so far, by their index in the text
  fate     \* "parsing", "printing", "printed", "reported", "crash" or "abort"

printer == <<visits, tab, line, opened, shown, fate>>

Fresh == -1

-----------------------------------------------------------------------------
(* What a Visit is made of.                                                *)

Do(what) == << [do |-> what, of |-> Null] >>
Show(leaf) == << [do |-> "show", of |-> leaf] >>
ShowName(node) == << [do |-> "name", of |-> node] >>
Accept(node) == << [do |-> "accept", of |-> node] >>

Line == Do("line")

(* Mutant of Braced: the closing brace is indented before tab goes back.   *)
BracedLate(body) == Do("open") \o Do("tab++") \o body \o Do("tabbed") \o Do("tab--") \o Do("close")

Braced(body) == Do("open") \o Do("tab++") \o body \o Do("tab--") \o Do("tabbed") \o Do("close")
Child(node) == Do("tabbed") \o Accept(node)
Section(node) == Do("tabbed") \o Braced(Child(node))

(* Sequences one after the other.                                          *)
Joined(parts) ==
  LET upTo[n \in 0..Len(parts)] == IF n = 0 THEN <<>> ELSE upTo[n - 1] \o parts[n]
  IN  upTo[Len(parts)]

ForEach(nodes, Part(_)) == Joined([i \in 1..Len(nodes) |-> Part(nodes[i])])
Unless(missing, part) == IF missing THEN <<>> ELSE part

-----------------------------------------------------------------------------
(* Expressions.                                                            *)

(* The ten literals, names and `this`: one line.                           *)
VisitLiteral(node) == Unless(node.kind # "leaf", Show(node)) \o Line

VisitArrayLiteral(node) == Braced(ForEach(node.kids, Child))

VisitObjectLiteral(node) ==
  LET Property(p) == Do("tabbed") \o Braced(Section(p.kids[1]))
  IN  Braced(ForEach(node.kids, Property))

VisitArgumentList(node) == Braced(ForEach(node.kids, Child))

(* A call's arguments are an ArgumentList, of a null list if there are     *)
(* none; the other two kinds have their one member.                        *)
MemberOf(node) ==
  IF node.kind # "call" THEN node.kids[2]
  ELSE Node("arguments", "", Unless(node.kids[2] = Null, Tail(node.kids)))

VisitMemberExpression(node) ==
  Braced(Child(node.kids[1]) \o
         Do("tabbed") \o Braced(Do("tabbed") \o Line \o Child(MemberOf(node))))

VisitNewExpression(node) == Braced(Child(node.kids[1]))

VisitPrefixExpression(node) == Braced(Do("tabbed") \o Line \o Section(node.kids[1]))

VisitPostfixExpression(node) == Braced(Child(node.kids[1]) \o Do("tabbed") \o Line)

(* Mutant of VisitBinaryExpression: the right operand comes first.         *)
VisitBinaryBackwards(node) ==
  LET right == IF node.kind = "binary" THEN Accept(node.kids[2]) ELSE Line
  IN  Braced(Do("tabbed") \o right \o Do("tabbed") \o Line \o Child(node.kids[1]))

(* +x and -x are the multiplication of x by a literal that is no token.    *)
VisitBinaryExpression(node) ==
  LET right == IF node.kind = "binary" THEN Accept(node.kids[2]) ELSE Line
  IN  Braced(Child(node.kids[1]) \o Do("tabbed") \o Line \o Do("tabbed") \o right)

VisitAssignExpression(node) == Braced(Child(node.kids[1]) \o Child(node.kids[2]))

VisitTernaryExpression(node) == Braced(ForEach(node.kids, Child))

VisitCommaExpression(node) == Braced(ForEach(node.kids, Child))

-----------------------------------------------------------------------------
(* Declarations and statements.                                            *)

VisitDeclaration(node) ==
  Show(node.kids[1]) \o Do("open") \o
  Unless(Len(node.kids) = 1, Do("tab++") \o Child(node.kids[2]) \o Do("tab--")) \o
  Do("tabbed") \o Do("close")

VisitDeclarationList(node) == Braced(ForEach(node.kids, Child))

VisitBlockStatement(node) == Braced(ForEach(node.kids, Child))

(* Mutant of VisitForStatement: the parts a for-in leaves out are visited. *)
VisitForUnchecked(node) == Braced(ForEach(node.kids, Section))

VisitForStatement(node) ==
  LET Optional(part) == Unless(part = Null, Section(part))
  IN  Braced(ForEach(SubSeq(node.kids, 1, 3), Optional) \o Section(node.kids[4]))

(* Mutant of VisitWhileStatement: tab is not taken back after the body.    *)
VisitWhileForgetting(node) ==
  Braced(Section(node.kids[1]) \o Do("tabbed") \o Do("open") \o Do("tab++") \o
         Child(node.kids[2]) \o Do("tabbed") \o Do("close"))

VisitWhileStatement(node) == Braced(Section(node.kids[1]) \o Section(node.kids[2]))

(* kids: condition and body, as in the constructor; the body is printed    *)
(* first, as in the text.                                                  *)
VisitDoWhileStatement(node) == Braced(Section(node.kids[2]) \o Section(node.kids[1]))

VisitBreakStatement(node) == ForEach(node.kids, Accept) \o Line

VisitThrowStatement(node) == Braced(Child(node.kids[1]))

(* kids: block, catch expression, catch block, finally                     *)
VisitTryCatchStatement(node) ==
  LET e == node.kids[2] IN
  Braced(Section(node.kids[1]) \o
         Unless(e = Null, Do("tabbed") \o ShowName(e) \o Braced(Child(node.kids[3]))) \o
         Unless(node.kids[4] = Null, Section(node.kids[4])))

VisitLabelledStatement(node) == Show(node.kids[1]) \o Line

VisitCaseClauseStatement(node) == Braced(Section(node.kids[1]) \o Section(node.kids[2]))

(* The expression is the one child that is visited without os_tabbed.      *)
VisitSwitchStatement(node) ==
  LET last == Len(node.kids) IN
  Braced(Do("tabbed") \o Braced(Accept(node.kids[1])) \o
         Do("tabbed") \o
           Braced(ForEach(SubSeq(node.kids, 2, last - 1), Child) \o
                  Unless(node.kids[last] = Null, Section(node.kids[last]))))

(* kids: the name, if there is one, and the parameters                     *)
VisitFunctionPrototype(node) ==
  LET named == Len(node.kids) = 2
      arguments == node.kids[Len(node.kids)].kids
  IN  Unless(~named, Show(node.kids[1])) \o
      Braced(Do("tabbed") \o ForEach(arguments, Show) \o Line)

VisitFunctionStatement(node) ==
  LET last == Len(node.kids)
  IN  Braced(Child(Node("prototype", "", SubSeq(node.kids, 1, last - 1))) \o
             Section(node.kids[last]))

(* Mutant of VisitIfStatement: the brace of the body stays open.           *)
VisitIfOpen(node) ==
  Braced(Section(node.kids[1]) \o Do("tabbed") \o Do("open") \o Do("tab++") \o
         Child(node.kids[2]) \o Do("tab--"))

VisitIfStatement(node) == Braced(Section(node.kids[1]) \o Section(node.kids[2]))

(* Nothing closes the brace of the true body.                              *)
VisitIfElseStatement(node) ==
  LET TrueBody == Do("tabbed") \o Do("open") \o Do("tab++") \o Child(node.kids[2]) \o Do("tab--")
  IN  Braced(Section(node.kids[1]) \o TrueBody \o Section(node.kids[3]))

VisitReturnStatement(node) ==
  IF node.kids = <<>> THEN Line ELSE Braced(Child(node.kids[1]))

(* DECLARE_VISITOR_METHOD and the nodes' Accept: the Visit of the type.    *)
Visit(node) ==
  CASE node.kind \in {"leaf", "undefined", "true"} -> VisitLiteral(node)
    [] node.kind = "array" -> VisitArrayLiteral(node)
    [] node.kind = "object" -> VisitObjectLiteral(node)
    [] node.kind = "arguments" -> VisitArgumentList(node)
    [] node.kind \in {"call", "dot", "index"} -> VisitMemberExpression(node)
    [] node.kind = "new" -> VisitNewExpression(node)
    [] node.kind = "prefix" -> VisitPrefixExpression(node)
    [] node.kind = "postfix" -> VisitPostfixExpression(node)
    [] node.kind \in {"binary", "times"} -> VisitBinaryExpression(node)
    [] node.kind = "assign" -> VisitAssignExpression(node)
    [] node.kind = "ternary" -> VisitTernaryExpression(node)
    [] node.kind = "comma" -> VisitCommaExpression(node)
    [] node.kind = "declaration" -> VisitDeclaration(node)
    [] node.kind = "var" -> VisitDeclarationList(node)
    [] node.kind = "block" -> VisitBlockStatement(node)
    [] node.kind = "for" -> VisitForStatement(node)
    [] node.kind = "while" -> VisitWhileStatement(node)
    [] node.kind = "do" -> VisitDoWhileStatement(node)
    [] node.kind = "break" -> VisitBreakStatement(node)
    [] node.kind = "throw" -> VisitThrowStatement(node)
    [] node.kind = "try" -> VisitTryCatchStatement(node)
    [] node.kind = "label" -> VisitLabelledStatement(node)
    [] node.kind = "case" -> VisitCaseClauseStatement(node)
    [] node.kind = "switch" -> VisitSwitchStatement(node)
    [] node.kind = "prototype" -> VisitFunctionPrototype(node)
    [] node.kind = "function" -> VisitFunctionStatement(node)
    [] node.kind = "if" /\ Len(node.kids) = 2 -> VisitIfStatement(node)
    [] node.kind = "if" /\ Len(node.kids) = 3 -> VisitIfElseStatement(node)
    [] node.kind = "return" -> VisitReturnStatement(node)

=============================================================================
