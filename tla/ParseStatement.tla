--------------------------- MODULE ParseStatement ---------------------------
(***************************************************************************)
(* The statement functions of src/jast/parser.cc.  A statement's node has  *)
(* its parts in the order of the builder's arguments; the for statement's  *)
(* locals begin with the flag ForInLoopParsingEnvironment restores.        *)
(***************************************************************************)
EXTENDS ParseExpression

DeclaratorTypes == {"VAR", "LET", "CONST"}

(* The cases of ParseStatement's switch.                                   *)
StatementOf(t) ==
  CASE t = "IF" -> "If" [] t = "FOR" -> "For" [] t = "FUNCTION" -> "Function"
    [] t = "LBRACE" -> "Block" [] t = "RETURN" -> "Return" [] t = "WHILE" -> "While"
    [] t = "DO" -> "Do" [] t \in DeclaratorTypes -> "Variable" [] t = "SWITCH" -> "Switch"
    [] t \in {"BREAK", "CONTINUE"} -> "Break" [] t = "TRY" -> "Try" [] t = "THROW" -> "Throw"
    [] OTHER -> "Expression"

(* Its default branch is an expression statement, an empty one or a label. *)
ParseStatement ==
  \/ /\ At("Statement")
     /\ LET function == StatementOf(peek) IN function # "Expression" /\ Become(function)
  \/ At("Statement") /\ peek = "SEMICOLON" /\ advance(FALSE) /\ Return(Undefined)
  \/ /\ At("Statement") /\ peek # "SEMICOLON" /\ StatementOf(peek) = "Expression"
     /\ Keep /\ Call("Comma", "Expression.end", <<>>)
  \/ /\ At("Expression.end") /\ peek = "COLON" /\ IsIdentifier(ret)
     /\ advance(FALSE) /\ Return(Node("label", "", <<ret>>))
  \/ /\ At("Expression.end") /\ ~(peek = "COLON" /\ IsIdentifier(ret))
     /\ Eat("SEMICOLON", Return(ret))

(* Mutant of ParseIfStatement: what follows `else` is dropped.             *)
ParseIfDroppingElse ==
  \/ At("If") /\ advance(FALSE) /\ Goto("If.open", <<>>)
  \/ At("If.open") /\ Eat("LPAREN", Call("Comma", "If.close", <<>>))
  \/ At("If.close") /\ Eat("RPAREN", Call("Statement", "If.body", <<ret>>))
  \/ /\ At("If.body") /\ peek = "ELSE"
     /\ advance(FALSE) /\ Call("Statement", "If.else", Append(mem, ret))
  \/ At("If.body") /\ peek # "ELSE" /\ Keep /\ Return(Node("if", "", Append(mem, ret)))
  \/ At("If.else") /\ Keep /\ Return(Node("if", "", mem))

(* Mutant of ParseIfStatement: an if inside of another leaves the else.    *)
ParseIfElseOutermost ==
  LET inner == \E k \in 1..Len(Callers) : stack[k].at = "If.body"
  IN  \/ At("If") /\ advance(FALSE) /\ Goto("If.open", <<>>)
      \/ At("If.open") /\ Eat("LPAREN", Call("Comma", "If.close", <<>>))
      \/ At("If.close") /\ Eat("RPAREN", Call("Statement", "If.body", <<ret>>))
      \/ /\ At("If.body") /\ peek = "ELSE" /\ ~inner
         /\ advance(FALSE) /\ Call("Statement", "If.else", Append(mem, ret))
      \/ /\ At("If.body") /\ (peek # "ELSE" \/ inner)
         /\ Keep /\ Return(Node("if", "", Append(mem, ret)))
      \/ At("If.else") /\ Keep /\ Return(Node("if", "", Append(mem, ret)))

(* locals: condition and body                                              *)
ParseIfStatement ==
  \/ At("If") /\ advance(FALSE) /\ Goto("If.open", <<>>)
  \/ At("If.open") /\ Eat("LPAREN", Call("Comma", "If.close", <<>>))
  \/ At("If.close") /\ Eat("RPAREN", Call("Statement", "If.body", <<ret>>))
  \/ /\ At("If.body") /\ peek = "ELSE"
     /\ advance(FALSE) /\ Call("Statement", "If.else", Append(mem, ret))
  \/ At("If.body") /\ peek # "ELSE" /\ Keep /\ Return(Node("if", "", Append(mem, ret)))
  \/ At("If.else") /\ Keep /\ Return(Node("if", "", Append(mem, ret)))

ForLabels ==
  {"For.init", "For.head", "For.in", "For.condition", "For.second", "For.update",
   "For.third", "For.body"}

IsIn(node) == node.kind = "binary" /\ node.op = "IN"

(* The end of ForInLoopParsingEnvironment.                                 *)
ReturnRestoring(value) ==
  /\ stack' = Callers
  /\ ret' = value
  /\ EndHere({value.kind})
  /\ forIn' = mem[1]
  /\ UNCHANGED status

(* ParseForInStatement, its caller still on the stack.                     *)
ParseForInStatement(inexpr) ==
  Eat("RPAREN", Call("Statement", "For.body", <<mem[1], inexpr, Null, Null>>))

(* locals: the flag, init, condition and update                            *)
ParseForStatement ==
  \/ At("For") /\ advance(FALSE) /\ Goto("For.open", <<>>)
  \/ /\ At("For.open") /\ peek = "LPAREN" /\ advance(FALSE)
     /\ forIn' = TRUE
     /\ stack' = Append(Callers, Frame("For.init", <<forIn>>, Top.from))
     /\ EndHere({}) /\ UNCHANGED <<ret, status>>
  \/ At("For.open") /\ peek # "LPAREN" /\ Throw
  \/ /\ At("For.init") /\ peek \in DeclaratorTypes
     /\ Keep /\ Call("Variable", "For.head", mem)
  \/ /\ At("For.init") /\ peek = "SEMICOLON"
     /\ advance(FALSE) /\ Goto("For.condition", Append(mem, Undefined))
  \/ /\ At("For.init") /\ peek \notin DeclaratorTypes \union {"SEMICOLON"}
     /\ Keep /\ Call("Comma", "For.head", mem)
  \/ At("For.head") /\ peek = "IN" /\ advance(FALSE) /\ Call("Assign", "For.in", Append(mem, ret))
  \/ At("For.in") /\ ParseForInStatement(Node("binary", "IN", <<mem[2], ret>>))
  \/ At("For.head") /\ peek # "IN" /\ IsIn(ret) /\ ParseForInStatement(ret)
  \/ /\ At("For.head") /\ peek # "IN" /\ ret.kind = "var"
     /\ Keep /\ Goto("For.condition", Append(mem, ret))
  \/ /\ At("For.head") /\ peek # "IN" /\ ~IsIn(ret) /\ ret.kind # "var"
     /\ Eat("SEMICOLON", Goto("For.condition", Append(mem, ret)))
  \/ /\ At("For.condition") /\ peek = "SEMICOLON"
     /\ advance(FALSE) /\ Goto("For.update", Append(mem, Node("true", "", <<>>)))
  \/ At("For.condition") /\ peek # "SEMICOLON" /\ Keep /\ Call("Comma", "For.second", mem)
  \/ At("For.second") /\ Eat("SEMICOLON", Goto("For.update", Append(mem, ret)))
  \/ /\ At("For.update") /\ peek = "RPAREN"
     /\ advance(FALSE) /\ Call("Statement", "For.body", Append(mem, Undefined))
  \/ At("For.update") /\ peek # "RPAREN" /\ Keep /\ Call("Comma", "For.third", mem)
  \/ At("For.third") /\ Eat("RPAREN", Call("Statement", "For.body", Append(mem, ret)))
  \/ /\ At("For.body") /\ Keep
     /\ ReturnRestoring(Node("for", "", <<mem[2], mem[3], mem[4], ret>>))

(* locals: the condition                                                   *)
ParseWhileStatement ==
  \/ At("While") /\ advance(FALSE) /\ Goto("While.open", <<>>)
  \/ At("While.open") /\ Eat("LPAREN", Call("Comma", "While.close", <<>>))
  \/ At("While.close") /\ Eat("RPAREN", Call("Statement", "While.body", <<ret>>))
  \/ At("While.body") /\ Keep /\ Return(Node("while", "", Append(mem, ret)))

(* locals: body and condition                                              *)
ParseDoWhileStatement ==
  \/ At("Do") /\ advance(FALSE) /\ Call("Statement", "Do.while", <<>>)
  \/ At("Do.while") /\ Eat("WHILE", Goto("Do.open", <<ret>>))
  \/ At("Do.open") /\ Eat("LPAREN", Call("Comma", "Do.close", mem))
  \/ At("Do.close") /\ Eat("RPAREN", Goto("Do.end", Append(mem, ret)))
  \/ At("Do.end") /\ Eat("SEMICOLON", Return(Node("do", "", <<mem[2], mem[1]>>)))

(* locals: the names so far                                                *)
ParseParameterList ==
  \/ At("Parameters") /\ Eat("LPAREN", Goto("Parameters.first", <<>>))
  \/ /\ At("Parameters.first") /\ peek = "RPAREN"
     /\ advance(FALSE) /\ Return(Node("parameters", "", <<>>))
  \/ /\ \/ At("Parameters.first") /\ peek # "RPAREN"
        \/ At("Parameters.name")
     /\ Eat("IDENTIFIER", Goto("Parameters.next", Append(mem, Leaf(here))))
  \/ /\ At("Parameters.next") /\ peek = "RPAREN"
     /\ advance(FALSE) /\ Return(Node("parameters", "", mem))
  \/ At("Parameters.next") /\ peek # "RPAREN" /\ Eat("COMMA", Goto("Parameters.name", mem))

(* With ParseFunctionPrototype.  locals: the prototype                     *)
ParseFunctionStatement ==
  \/ At("Function") /\ advance(FALSE) /\ Goto("Function.name", <<>>)
  \/ /\ At("Function.name") /\ peek = "IDENTIFIER"
     /\ advance(FALSE) /\ Call("Parameters", "Function.body", <<Leaf(here)>>)
  \/ /\ At("Function.name") /\ peek # "IDENTIFIER"
     /\ Keep /\ Call("Parameters", "Function.body", <<>>)
  \/ At("Function.body") /\ Keep /\ Call("Statement", "Function.end", Append(mem, ret))
  \/ At("Function.end") /\ Keep /\ Return(Node("function", "", Append(mem, ret)))

(* The first token of a block is eaten whatever it is.                     *)
Open ==
  /\ \E t \in Deliverable(FALSE) : input' = Append(input, t)
  /\ division' = Append(division, FALSE)
  /\ braces' = braces \union {here}
  /\ UNCHANGED text
  /\ Goto("Block.next", <<>>)

(* Mutant of ParseBlockStatement: the end of the text ends a block too.    *)
ParseBlockTillEnd ==
  \/ At("Block") /\ Open
  \/ /\ At("Block.next") /\ peek \in {"RBRACE", "END_OF_FILE"}
     /\ advance(FALSE) /\ Return(Node("block", "", mem))
  \/ /\ At("Block.next") /\ peek \notin {"RBRACE", "END_OF_FILE"}
     /\ Keep /\ Call("Statement", "Block.statement", mem)
  \/ At("Block.statement") /\ Keep /\ Goto("Block.next", Append(mem, ret))

(* locals: the statements so far                                           *)
ParseBlockStatement ==
  \/ At("Block") /\ Open
  \/ /\ At("Block.next") /\ peek = "RBRACE"
     /\ advance(FALSE) /\ Return(Node("block", "", mem))
  \/ /\ At("Block.next") /\ peek # "RBRACE"
     /\ Keep /\ Call("Statement", "Block.statement", mem)
  \/ At("Block.statement") /\ Keep /\ Goto("Block.next", Append(mem, ret))

(* The ';' after a value is eaten, the one after a bare `return` is not.   *)
ParseReturnStatement ==
  \/ At("Return") /\ advance(FALSE) /\ Goto("Return.value", <<>>)
  \/ At("Return.value") /\ peek = "SEMICOLON" /\ Keep /\ Return(Node("return", "", <<>>))
  \/ At("Return.value") /\ peek # "SEMICOLON" /\ Keep /\ Call("Comma", "Return.end", <<>>)
  \/ At("Return.end") /\ Eat("SEMICOLON", Return(Node("return", "", <<ret>>)))

(* locals: the name                                                        *)
ParseDeclaration ==
  \/ At("Declaration") /\ Eat("IDENTIFIER", Goto("Declaration.name", <<Leaf(here)>>))
  \/ /\ At("Declaration.name")
     /\ peek \in {"SEMICOLON", "COMMA"} \/ (forIn /\ peek = "IN")
     /\ Keep /\ Return(Node("declaration", "", mem))
  \/ /\ At("Declaration.name")
     /\ ~(peek \in {"SEMICOLON", "COMMA"} \/ (forIn /\ peek = "IN"))
     /\ Eat("ASSIGN", Call("Assign", "Declaration.value", mem))
  \/ At("Declaration.value") /\ Keep /\ Return(Node("declaration", "", Append(mem, ret)))

(* locals: the declarations so far                                         *)
ParseVariableStatement ==
  \/ At("Variable") /\ advance(FALSE) /\ Call("Declaration", "Variable.next", <<>>)
  \/ /\ At("Variable.next") /\ peek = "SEMICOLON"
     /\ advance(FALSE) /\ Return(Node("var", "", Append(mem, ret)))
  \/ At("Variable.next") /\ peek = "IN" /\ Keep /\ Return(Node("var", "", Append(mem, ret)))
  \/ /\ At("Variable.next") /\ peek \notin {"SEMICOLON", "IN"}
     /\ Eat("COMMA", Call("Declaration", "Variable.next", Append(mem, ret)))

ClauseEnds == {"CASE", "DEFAULT", "RBRACE"}

(* locals: the expressions and the statements so far.  `continue` goes on  *)
(* with the loop's condition, which the next `case` ends.                  *)
ParseCaseBlock ==
  \/ At("Case") /\ advance(FALSE) /\ Call("Assign", "Case.first", << <<>>, <<>> >>)
  \/ At("Case.first") /\ Eat("COLON", Goto("Case.do", <<Append(mem[1], ret), mem[2]>>))
  \/ At("Case.do") /\ peek = "CASE" /\ advance(FALSE) /\ Call("Assign", "Case.colon", mem)
  \/ At("Case.colon") /\ Eat("COLON", Goto("Case.while", <<Append(mem[1], ret), mem[2]>>))
  \/ At("Case.do") /\ peek # "CASE" /\ Keep /\ Call("Statement", "Case.statement", mem)
  \/ At("Case.statement") /\ Keep /\ Goto("Case.while", <<mem[1], Append(mem[2], ret)>>)
  \/ At("Case.while") /\ peek \notin ClauseEnds /\ Keep /\ Goto("Case.do", mem)
  \/ /\ At("Case.while") /\ peek \in ClauseEnds /\ Keep
     /\ LET block == Node("block", "", mem[2])
            clause(expr) == Node("case", "", <<expr, block>>)
        IN  Return(Node("clauses", "", [i \in 1..Len(mem[1]) |-> clause(mem[1][i])]))

(* locals: the statements so far                                           *)
ParseDefaultClause ==
  \/ At("Default") /\ advance(FALSE) /\ Goto("Default.colon", <<>>)
  \/ At("Default.colon") /\ Eat("COLON", Call("Statement", "Default.while", <<>>))
  \/ /\ At("Default.while") /\ peek \notin ClauseEnds
     /\ Keep /\ Call("Statement", "Default.while", Append(mem, ret))
  \/ /\ At("Default.while") /\ peek \in ClauseEnds
     /\ Keep /\ Return(Node("block", "", Append(mem, ret)))

(* Mutant of ParseSwitchStatement: the loop goes on at any other token.    *)
ParseSwitchWaiting ==
  \/ At("Switch") /\ advance(FALSE) /\ Goto("Switch.open", <<>>)
  \/ At("Switch.open") /\ Eat("LPAREN", Call("Assign", "Switch.close", <<>>))
  \/ At("Switch.close") /\ Eat("RPAREN", Goto("Switch.brace", <<ret>>))
  \/ At("Switch.brace") /\ Eat("LBRACE", Goto("Switch.clause", mem \o << <<>>, Null >>))
  \/ At("Switch.clause") /\ peek # "RBRACE" /\ Keep /\ Goto("Switch.clause", mem)
  \/ /\ At("Switch.clause") /\ peek = "RBRACE"
     /\ advance(FALSE) /\ Return(Node("switch", "", <<mem[1]>> \o mem[2] \o <<mem[3]>>))

(* locals: expression, clauses and default clause                          *)
ParseSwitchStatement ==
  \/ At("Switch") /\ advance(FALSE) /\ Goto("Switch.open", <<>>)
  \/ At("Switch.open") /\ Eat("LPAREN", Call("Assign", "Switch.close", <<>>))
  \/ At("Switch.close") /\ Eat("RPAREN", Goto("Switch.brace", <<ret>>))
  \/ At("Switch.brace") /\ Eat("LBRACE", Goto("Switch.clause", mem \o << <<>>, Null >>))
  \/ At("Switch.clause") /\ peek = "CASE" /\ Keep /\ Call("Case", "Switch.case", mem)
  \/ At("Switch.case") /\ Keep /\ Goto("Switch.clause", <<mem[1], mem[2] \o ret.kids, mem[3]>>)
  \/ /\ At("Switch.clause") /\ peek = "DEFAULT" /\ mem[3] = Null
     /\ Keep /\ Call("Default", "Switch.default", mem)
  \/ At("Switch.default") /\ Keep /\ Goto("Switch.clause", <<mem[1], mem[2], ret>>)
  \/ At("Switch.clause") /\ peek = "DEFAULT" /\ mem[3] # Null /\ Throw
  \/ /\ At("Switch.clause") /\ peek \notin {"CASE", "DEFAULT"}
     /\ Eat("RBRACE", Return(Node("switch", "", <<mem[1]>> \o mem[2] \o <<mem[3]>>)))

(* ParseBreakStatement and ParseContinueStatement: neither the label nor a *)
(* ';' is eaten.                                                           *)
ParseBreakStatement ==
  \/ At("Break") /\ advance(FALSE) /\ Goto("Break.label", <<>>)
  \/ /\ At("Break.label") /\ Keep
     /\ Return(Node("break", "", IF peek = "IDENTIFIER" THEN <<Leaf(here)>> ELSE <<>>))

(* locals: try block, catch expression and catch block                     *)
ParseTryCatchStatement ==
  \/ At("Try") /\ advance(FALSE) /\ Call("Block", "Try.catch", <<>>)
  \/ At("Try.catch") /\ peek = "CATCH" /\ advance(FALSE) /\ Goto("Try.open", <<ret>>)
  \/ At("Try.open") /\ Eat("LPAREN", Call("Comma", "Try.close", mem))
  \/ At("Try.close") /\ Eat("RPAREN", Call("Block", "Try.handler", Append(mem, ret)))
  \/ At("Try.handler") /\ Keep /\ Goto("Try.finally", Append(mem, ret))
  \/ At("Try.catch") /\ peek # "CATCH" /\ Keep /\ Goto("Try.finally", <<ret, Null, Null>>)
  \/ At("Try.finally") /\ peek = "FINALLY" /\ advance(FALSE) /\ Call("Block", "Try.end", mem)
  \/ At("Try.finally") /\ peek # "FINALLY" /\ Keep /\ Return(Node("try", "", Append(mem, Null)))
  \/ At("Try.end") /\ Keep /\ Return(Node("try", "", Append(mem, ret)))

ParseThrowStatement ==
  \/ At("Throw") /\ advance(FALSE) /\ Call("Comma", "Throw.end", <<>>)
  \/ At("Throw.end") /\ Keep /\ Return(Node("throw", "", <<ret>>))

Statements ==
  \/ ParseStatement \/ ParseIfStatement \/ ParseForStatement \/ ParseWhileStatement
  \/ ParseDoWhileStatement \/ ParseParameterList \/ ParseFunctionStatement
  \/ ParseBlockStatement \/ ParseReturnStatement \/ ParseDeclaration
  \/ ParseVariableStatement \/ ParseCaseBlock \/ ParseDefaultClause
  \/ ParseSwitchStatement \/ ParseBreakStatement \/ ParseTryCatchStatement
  \/ ParseThrowStatement

=============================================================================
