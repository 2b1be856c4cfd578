------------------------------- MODULE Parser -------------------------------
(***************************************************************************)
(* The parser of src/jast/parser.cc from ParseProgram to its end: a tree,  *)
(* or a SyntaxError that unwinds every call in progress.                   *)
(***************************************************************************)
EXTENDS ParseStatement, FiniteSets

Init ==
  /\ text \in Alphabets
  /\ \E t \in {"END_OF_FILE"} \union
                IF text.start = <<>> THEN text.tokens ELSE {text.start[1]} : input = <<t>>
  /\ division = <<FALSE>>
  /\ braces = {}
  /\ stack = <<Frame("Program", <<>>, 1)>>
  /\ ret = Null
  /\ ended = {}
  /\ forIn = FALSE
  /\ status = "running"

(* locals: the statements so far.  Init has peeked the first token.        *)
ParseProgram ==
  \/ /\ At("Program") /\ peek # "END_OF_FILE"
     /\ Keep /\ Call("Statement", "Program.statement", mem)
  \/ At("Program.statement") /\ Keep /\ Goto("Program", Append(mem, ret))
  \/ /\ At("Program") /\ peek = "END_OF_FILE" /\ Keep
     /\ stack' = Callers
     /\ ret' = Node("block", "", mem)
     /\ status' = "done"
     /\ EndHere({"block"}) /\ UNCHANGED forIn

InLoop(k) == stack[k].at \in ForLabels

Loops == {k \in 1..Len(stack) : InLoop(k)}

Innermost == CHOOSE k \in Loops : \A j \in Loops : j <= k

(* Mutant of UnwindLoop: the flag stays as the loop has set it.            *)
UnwindKeepingFlag ==
  /\ status = "throwing" /\ Loops # {}
  /\ stack' = SubSeq(stack, 1, Innermost - 1)
  /\ Keep /\ UNCHANGED <<ret, ended, status, forIn>>

(* A SyntaxError leaves the calls in progress up to the innermost for      *)
(* statement, whose destructor runs,                                       *)
UnwindLoop ==
  /\ status = "throwing" /\ Loops # {}
  /\ stack' = SubSeq(stack, 1, Innermost - 1)
  /\ forIn' = stack[Innermost].mem[1]
  /\ Keep /\ UNCHANGED <<ret, ended, status>>

(* Mutant of UnwindRest: an error outside of any loop leaves the calls.    *)
UnwindNothing ==
  /\ status = "throwing" /\ Loops = {}
  /\ status' = "error"
  /\ Keep /\ UNCHANGED <<stack, ret, ended, forIn>>

(* and at last ParseProgram, which reports the error and throws it on.     *)
UnwindRest ==
  /\ status = "throwing" /\ Loops = {}
  /\ stack' = <<>>
  /\ status' = "error"
  /\ Keep /\ UNCHANGED <<ret, ended, forIn>>

Step == ParseProgram \/ Expressions \/ Statements \/ UnwindLoop \/ UnwindRest

Finished == status \in {"done", "error"} /\ UNCHANGED vars

Next == Step \/ Finished

Spec == Init /\ [][Next]_vars

(* A parse, once begun, runs on its thread.                                *)
FairSpec == Spec /\ WF_vars(Step)

-----------------------------------------------------------------------------

Labels ==
  {"Program", "Program.statement", "Comma", "Comma.next", "Assign", "Assign.left",
   "Assign.right", "Ternary", "Ternary.first", "Ternary.second", "Ternary.third",
   "Binary", "Binary.left", "Rhs", "Rhs.operand", "Rhs.merge", "Unary", "Unary.operand",
   "Unary.postfix", "LeftHandSide", "New.target", "Member", "Member.first",
   "Member.next", "Dot", "Index", "Arguments", "Arguments.next", "Primary", "Paren",
   "Array", "Array.next", "Object", "Object.name", "Object.value", "Object.assign",
   "Object.next", "Method", "Method.body", "Method.end", "Statement", "Expression.end",
   "If", "If.open", "If.close", "If.body", "If.else", "For", "For.open", "While",
   "While.open", "While.close", "While.body", "Do", "Do.while", "Do.open", "Do.close",
   "Do.end", "Parameters", "Parameters.first", "Parameters.name", "Parameters.next",
   "Function", "Function.name", "Function.body", "Function.end", "Block", "Block.next",
   "Block.statement", "Return", "Return.value", "Return.end", "Declaration",
   "Declaration.name", "Declaration.value", "Variable", "Variable.next", "Case",
   "Case.first", "Case.do", "Case.colon", "Case.statement", "Case.while", "Default",
   "Default.colon", "Default.while", "Switch", "Switch.open", "Switch.close",
   "Switch.brace", "Switch.clause", "Switch.case", "Switch.default", "Break",
   "Break.label", "Try", "Try.catch", "Try.open", "Try.close", "Try.handler",
   "Try.finally", "Try.end", "Throw", "Throw.end"} \union ForLabels

TypeOK ==
  /\ input # <<>>
  /\ \A i \in 1..Len(input) : input[i] = "END_OF_FILE" \/ input[i] \in text.tokens
                                \/ \E n \in 1..Len(text.start) : input[i] = text.start[n]
  /\ division \in [1..Len(input) -> BOOLEAN]
  /\ braces \subseteq 1..Len(input)
  /\ \A k \in 1..Len(stack) : stack[k].at \in Labels /\ stack[k].from \in 1..Len(input)
  /\ forIn \in BOOLEAN
  /\ status \in {"running", "throwing", "done", "error"}
  /\ stack = <<>> <=> status \in {"done", "error"}

(* ParserFlags says for-in exactly while a for statement is being parsed,  *)
(* and each for statement remembers what to restore: nesting, functions in *)
(* loop bodies and a SyntaxError anywhere leave no flag behind.            *)
FlagFollowsLoops ==
  /\ forIn = (Loops # {})
  /\ \A k \in 1..Len(stack) :
       InLoop(k) => stack[k].mem[1] = (\E j \in 1..k - 1 : InLoop(j))

Has(type) == \E i \in 1..here : TypeOf(input[i]) = type

(* Where an operand is due the current token was read with regular         *)
(* expressions on, where a binary operator is due with them off.  The code *)
(* breaks this at the token right after three things: a throw statement,   *)
(* which stops at the end of its operand, a function expression and a      *)
(* postfix operator, which both read on with regular expressions on.       *)
SlashReadRightly ==
  /\ At("Primary") => ~division[here] \/ "throw" \in ended
  /\ At("Rhs") => division[here] \/ ended \intersect {"function", "postfix"} # {}

(* The same without the exception for postfix operators.                   *)
DivisionExpected == At("Rhs") => division[here] \/ "function" \in ended

Opening == {"LPAREN", "LBRACK", "LBRACE"}
Partner(t) ==
  CASE t = "RPAREN" -> "LPAREN" [] t = "RBRACK" -> "LBRACK" [] t = "RBRACE" -> "LBRACE"
    [] OTHER -> "none"

(* A brace that neither a block nor, after its ')', a switch has taken.    *)
IsObject(i) == input[i] = "LBRACE" /\ i \notin braces /\ input[i - 1] # "RPAREN"

(* The brackets open after a token; none can close the last of a text      *)
(* whose token closed another one.                                         *)
Nest(open, t) ==
  IF t \in Opening THEN Append(open, t)
  ELSE IF Partner(t) = "none" THEN open
  ELSE IF open # <<>> /\ open[Len(open)] = Partner(t) THEN SubSeq(open, 1, Len(open) - 1)
  ELSE <<"bad">>

(* The brackets open after the first i tokens.                             *)
Unclosed[i \in 0..here] ==
  IF i = 0 THEN <<>> ELSE Nest(Unclosed[i - 1], TypeOf(input[i]))

(* The brackets of a text nest: scanning it leaves no open one.            *)
Nested == Unclosed[here] = <<>>

(* ParseBlockStatement eats its first token unseen (parser.cc:885).        *)
BlocksHaveBraces == \A i \in braces : TypeOf(input[i]) = "LBRACE"

(* An accepted text whose blocks all begin with a brace has its brackets   *)
(* paired and nested, whatever mix of calls, indices, literals, blocks,    *)
(* loops and functions it is made of.                                      *)
BracketsNest == status = "done" /\ BlocksHaveBraces => Nested

(* What an accepted text has where a block begins is the '{' that the      *)
(* comment at parser.cc:885 says is eaten there.                           *)
BlocksBegin == status = "done" => BlocksHaveBraces

(* A name after the '.' of an access, which may be a keyword.              *)
AfterDot(k) == k > 1 /\ TypeOf(input[k - 1]) = "PERIOD" /\ k - 1 \notin braces

(* The nodes of a tree, which is not deeper than its text is long.         *)
Nodes(node) ==
  LET down[n \in 0..here] ==
        IF n = 0 THEN {node}
        ELSE down[n - 1] \union UNION {{m.kids[k] : k \in 1..Len(m.kids)} : m \in down[n - 1]}
  IN  down[here]

(* The part a statement ends in, and so on: is it an `if` that an `else`   *)
(* could still belong to?  Functions are left out, for the tree does not   *)
(* tell a function statement, which can end in one, from an expression.    *)
Ending(node) ==
  IF node.kind \in {"if", "while", "for"} THEN node.kids[Len(node.kids)] ELSE node

EndsOpen(node) ==
  LET last[n \in 0..here] == IF n = 0 THEN node ELSE Ending(last[n - 1])
  IN  \E n \in 0..here : last[n].kind = "if" /\ Len(last[n].kids) = 2

ElsesNearest ==
  \A node \in Nodes(ret) : node.kind = "if" /\ Len(node.kids) = 3 => ~EndsOpen(node.kids[2])

(* A ';' after a jump is a statement of its own, which ends the ifs before, *)
(* unless it ends the expression that a function ending in the jump is in. *)
JumpTypes == {"RETURN", "BREAK", "CONTINUE"}

Jumps(i) == TypeOf(input[i]) \in JumpTypes /\ ~AfterDot(i)

CutOff(i) ==
  Jumps(i) /\ TypeOf(input[i + 1]) = "SEMICOLON" /\ TypeOf(input[i + 2]) = "ELSE"

JumpsEndIfs == ~Has("FUNCTION") => \A i \in 1..here - 2 : ~CutOff(i)

(* An else belongs to the nearest if that can take it, through the loops   *)
(* in between; an if whose body is a jump with its ';' takes none, and     *)
(* such a text is rejected.                                                *)
NearestElse == status = "done" => ElsesNearest /\ JumpsEndIfs

(* Every parse comes to its end, however the text breaks off.              *)
Finishes == <>(status \in {"done", "error"})

(* "new foo()() means (new foo())()" (parser.cc:291): new takes the first  *)
(* argument list, so its operand is no access to the result of a call.     *)
NewTakesFirstArguments ==
  At("New.target") /\ ret.kind \in {"dot", "index", "call"} => ret.kids[1].kind # "call"

=============================================================================
