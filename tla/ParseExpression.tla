--------------------------- MODULE ParseExpression ---------------------------
(***************************************************************************)
(* The expression functions of src/jast/parser.cc, from ParsePrimary to    *)
(* ParseCommaExpression.  They call ParseFunctionStatement, for function   *)
(* expressions, and ParseParameterList and ParseBlockStatement, for the    *)
(* methods of object literals; the module ParseStatement has these.        *)
(***************************************************************************)
EXTENDS ParseMachine

PrefixTypes == {"INC", "DEC", "NOT", "BIT_NOT", "TYPEOF", "DELETE", "VOID"}

LiteralTypes ==
  {"NULL_LITERAL", "NUMBER", "TEMPLATE", "REGEX", "STRING", "IDENTIFIER",
   "TRUE_LITERAL", "FALSE_LITERAL", "THIS"}

(* locals: the expressions so far                                          *)
ParseCommaExpression ==
  \/ At("Comma") /\ Keep /\ Call("Assign", "Comma.next", <<>>)
  \/ /\ At("Comma.next") /\ peek = "COMMA"
     /\ advance(FALSE) /\ Call("Assign", "Comma.next", Append(mem, ret))
  \/ /\ At("Comma.next") /\ peek # "COMMA" /\ Keep
     /\ Return(IF mem = <<>> THEN ret ELSE Node("comma", "", Append(mem, ret)))

(* locals: the left hand side                                              *)
ParseAssignExpression ==
  \/ At("Assign") /\ Keep /\ Call("Ternary", "Assign.left", <<>>)
  \/ /\ At("Assign.left") /\ peek \in AssignTypes
     /\ advance(FALSE) /\ Call("Assign", "Assign.right", <<ret>>)
  \/ At("Assign.left") /\ peek \notin AssignTypes /\ Keep /\ Return(ret)
  \/ At("Assign.right") /\ Keep /\ Return(Node("assign", "", <<mem[1], ret>>))

(* locals: condition and second operand                                    *)
ParseTernaryExpression ==
  \/ At("Ternary") /\ Keep /\ Call("Binary", "Ternary.first", <<>>)
  \/ At("Ternary.first") /\ peek # "CONDITIONAL" /\ Keep /\ Return(ret)
  \/ /\ At("Ternary.first") /\ peek = "CONDITIONAL"
     /\ advance(FALSE) /\ Call("Assign", "Ternary.second", <<ret>>)
  \/ At("Ternary.second") /\ Eat("COLON", Call("Assign", "Ternary.third", Append(mem, ret)))
  \/ At("Ternary.third") /\ Keep /\ Return(Node("ternary", "", Append(mem, ret)))

ParseBinaryExpression ==
  \/ At("Binary") /\ Keep /\ Call("Unary", "Binary.left", <<>>)
  \/ At("Binary.left") /\ Keep /\ Goto("Rhs", <<3, ret>>)

(* Mutant of ParseBinaryExpressionRhs: operators of one level group to the *)
(* right.                                                                  *)
ParseRhsRightAssoc ==
  \/ At("Rhs") /\ Precedence(peek) < mem[1] /\ Keep /\ Return(mem[2])
  \/ /\ At("Rhs") /\ Precedence(peek) >= mem[1]
     /\ advance(FALSE) /\ Call("Unary", "Rhs.operand", Append(mem, peek))
  \/ /\ At("Rhs.operand") /\ Precedence(mem[3]) <= Precedence(peek) /\ Keep
     /\ stack' = Callers \o << Frame("Rhs.operand", mem, Top.from),
                               Frame("Rhs", <<Precedence(mem[3]), ret>>, here) >>
     /\ EndHere({}) /\ UNCHANGED <<ret, forIn, status>>
  \/ /\ At("Rhs.operand") /\ Precedence(mem[3]) > Precedence(peek) /\ Keep
     /\ Goto("Rhs", <<mem[1], Node("binary", mem[3], <<mem[2], ret>>)>>)

(* locals: prec, lhs and the operator                                      *)
ParseBinaryExpressionRhs ==
  \/ At("Rhs") /\ Precedence(peek) < mem[1] /\ Keep /\ Return(mem[2])
  \/ /\ At("Rhs") /\ Precedence(peek) >= mem[1]
     /\ advance(FALSE) /\ Call("Unary", "Rhs.operand", Append(mem, peek))
  \/ /\ At("Rhs.operand") /\ Precedence(mem[3]) < Precedence(peek) /\ Keep
     /\ stack' = Callers \o << Frame("Rhs.merge", mem, Top.from),
                               Frame("Rhs", <<Precedence(mem[3]) + 1, ret>>, here) >>
     /\ EndHere({}) /\ UNCHANGED <<ret, forIn, status>>
  \/ /\ \/ At("Rhs.operand") /\ Precedence(mem[3]) >= Precedence(peek)
        \/ At("Rhs.merge")
     /\ Keep
     /\ Goto("Rhs", <<mem[1], Node("binary", mem[3], <<mem[2], ret>>)>>)

(* locals: the operator before the operand.  + and - become a              *)
(* multiplication by 1 and -1.                                             *)
ParseUnaryExpression ==
  \/ /\ At("Unary") /\ peek \in PrefixTypes \union {"ADD", "SUB"}
     /\ advance(FALSE) /\ Call("Unary", "Unary.operand", <<peek>>)
  \/ /\ At("Unary.operand") /\ Keep
     /\ Return(Node(IF mem[1] \in PrefixTypes THEN "prefix" ELSE "times", mem[1], <<ret>>))
  \/ /\ At("Unary") /\ peek \notin PrefixTypes \union {"ADD", "SUB"} /\ Keep
     /\ Call("LeftHandSide", "Unary.postfix", <<>>)
  \/ /\ At("Unary.postfix") /\ peek \in {"INC", "DEC"}
     /\ advance(FALSE) /\ Return(Node("postfix", peek, <<ret>>))
  \/ At("Unary.postfix") /\ peek \notin {"INC", "DEC"} /\ Keep /\ Return(ret)

(* ParseLeftHandSideExpression with ParseNewExpression.                    *)
ParseNewExpression ==
  \/ /\ At("LeftHandSide") /\ peek = "NEW"
     /\ advance(FALSE) /\ Call("LeftHandSide", "New.target", <<>>)
  \/ At("LeftHandSide") /\ peek # "NEW" /\ Become("Member")
  \/ At("New.target") /\ Keep /\ Return(Node("new", "", <<ret>>))

(* locals: the expression so far.  ParseCallExpression adds nothing to it: *)
(* its loop starts where this one has stopped, at none of the three tokens *)
(* both go on with.  Neither is reached with `new` as its first token.     *)
ParseMemberExpression ==
  \/ At("Member") /\ Keep /\ Call("Primary", "Member.first", <<>>)
  \/ At("Member.first") /\ Keep /\ Goto("Member.next", <<ret>>)
  \/ At("Member.next") /\ peek = "PERIOD" /\ advance(FALSE) /\ Goto("Dot", mem)
  \/ /\ At("Member.next") /\ peek = "LBRACK"
     /\ advance(FALSE) /\ Call("Assign", "Index", mem)
  \/ At("Member.next") /\ peek = "LPAREN" /\ advance(FALSE) /\ Goto("Arguments", mem)
  \/ /\ At("Member.next") /\ peek \notin {"PERIOD", "LBRACK", "LPAREN"}
     /\ Keep /\ Return(mem[1])

ParseDotExpression ==
  \/ /\ At("Dot") /\ (peek = "IDENTIFIER" \/ IsKeyword(peek))
     /\ advance(TRUE)
     /\ Goto("Member.next", <<Node("dot", "", <<mem[1], Leaf(here)>>)>>)
  \/ At("Dot") /\ ~(peek = "IDENTIFIER" \/ IsKeyword(peek)) /\ Throw

ParseIndexExpression ==
  /\ At("Index")
  /\ EatAs(TRUE, "RBRACK", Goto("Member.next", <<Node("index", "", <<mem[1], ret>>)>>))

(* locals: the callee, then the arguments so far; without arguments the    *)
(* list is a null handle                                                   *)
ParseArgumentList ==
  \/ /\ At("Arguments") /\ peek = "RPAREN"
     /\ advance(TRUE) /\ Goto("Member.next", <<Node("call", "", <<mem[1], Null>>)>>)
  \/ At("Arguments") /\ peek # "RPAREN" /\ Keep /\ Call("Assign", "Arguments.next", mem)
  \/ /\ At("Arguments.next") /\ peek = "COMMA"
     /\ advance(FALSE) /\ Call("Assign", "Arguments.next", Append(mem, ret))
  \/ /\ At("Arguments.next") /\ peek # "COMMA"
     /\ EatAs(TRUE, "RPAREN", Goto("Member.next", <<Node("call", "", Append(mem, ret))>>))

(* Mutant of ParsePrimary: a slash after ')' starts a regular expression.  *)
ParsePrimaryRegexAfterParen ==
  \/ /\ At("Primary") /\ peek \in LiteralTypes
     /\ advance(TRUE) /\ Return(Leaf(here))
  \/ At("Primary") /\ peek = "NUMBER" /\ Throw
  \/ At("Primary") /\ peek = "LPAREN" /\ advance(FALSE) /\ Call("Comma", "Paren", <<>>)
  \/ At("Paren") /\ Eat("RPAREN", Return(ret))
  \/ At("Primary") /\ peek = "LBRACK" /\ advance(FALSE) /\ Goto("Array", <<>>)
  \/ At("Primary") /\ peek = "LBRACE" /\ advance(FALSE) /\ Goto("Object", <<>>)
  \/ At("Primary") /\ peek = "FUNCTION" /\ Become("Function")
  \/ /\ At("Primary")
     /\ peek \notin LiteralTypes \union {"LPAREN", "LBRACK", "LBRACE", "FUNCTION"}
     /\ Throw

(* stod throws out_of_range for some numbers.  The function expression is  *)
(* the one branch that does not end in advance(true).                      *)
ParsePrimary ==
  \/ /\ At("Primary") /\ peek \in LiteralTypes
     /\ advance(TRUE) /\ Return(Leaf(here))
  \/ At("Primary") /\ peek = "NUMBER" /\ Throw
  \/ At("Primary") /\ peek = "LPAREN" /\ advance(FALSE) /\ Call("Comma", "Paren", <<>>)
  \/ At("Paren") /\ EatAs(TRUE, "RPAREN", Return(ret))
  \/ At("Primary") /\ peek = "LBRACK" /\ advance(FALSE) /\ Goto("Array", <<>>)
  \/ At("Primary") /\ peek = "LBRACE" /\ advance(FALSE) /\ Goto("Object", <<>>)
  \/ At("Primary") /\ peek = "FUNCTION" /\ Become("Function")
  \/ /\ At("Primary")
     /\ peek \notin LiteralTypes \union {"LPAREN", "LBRACK", "LBRACE", "FUNCTION"}
     /\ Throw

(* locals: the elements so far                                             *)
ParseArrayLiteral ==
  \/ /\ At("Array") /\ peek = "RBRACK"
     /\ advance(TRUE) /\ Return(Node("array", "", <<>>))
  \/ At("Array") /\ peek # "RBRACK" /\ Keep /\ Call("Assign", "Array.next", <<>>)
  \/ /\ At("Array.next") /\ peek = "RBRACK"
     /\ advance(TRUE) /\ Return(Node("array", "", Append(mem, ret)))
  \/ /\ At("Array.next") /\ peek # "RBRACK"
     /\ Eat("COMMA", Call("Assign", "Array.next", Append(mem, ret)))

IsPropertyName == peek \in {"STRING", "IDENTIFIER", "NUMBER"} \/ IsKeyword(peek)

(* How a property's name is spelled, by which alone it is compared: a      *)
(* number or a string in one of two ways, a string also as a name or a     *)
(* keyword of the text.                                                    *)
Spellings(t) ==
  IF t \notin {"NUMBER", "STRING"} THEN {t}
  ELSE {"NUMBER", "STRING"} \union
         IF t = "STRING" THEN Names \union (KeywordTypes \intersect text.tokens) ELSE {}

(* proxy[name] = prop, the proxy a sequence of properties                  *)
Assigned(proxy, name, prop) ==
  LET property == Node("property", name, <<prop>>) IN
  IF \E i \in 1..Len(proxy) : proxy[i].op = name
  THEN [i \in 1..Len(proxy) |-> IF proxy[i].op = name THEN property ELSE proxy[i]]
  ELSE Append(proxy, property)

(* locals: proxy, prop and name.  prop is declared outside of the loop: a  *)
(* name that nothing follows gets the previous property's value, or null.  *)
ParseObjectLiteral ==
  \/ /\ At("Object") /\ peek = "RBRACE"
     /\ advance(TRUE) /\ Return(Node("object", "", <<>>))
  \/ At("Object") /\ peek # "RBRACE" /\ Keep /\ Goto("Object.name", <<<<>>, Null>>)
  \/ /\ At("Object.name") /\ IsPropertyName
     /\ advance(FALSE)
     /\ \E name \in Spellings(input[here]) : Goto("Object.value", Append(mem, name))
  \/ At("Object.name") /\ ~IsPropertyName /\ Throw
  \/ /\ At("Object.value") /\ peek = "COLON"
     /\ advance(FALSE) /\ Call("Assign", "Object.assign", mem)
  \/ At("Object.value") /\ peek = "LPAREN" /\ Keep /\ Call("Method", "Object.assign", mem)
  \/ /\ At("Object.value") /\ peek = "IDENTIFIER" /\ mem[3] \in {"get", "set"}
     /\ advance(FALSE)
     /\ Call("Method", "Object.assign", <<mem[1], mem[2], input[here]>>)
  \/ /\ At("Object.value") /\ peek \notin {"COLON", "LPAREN"}
     /\ ~(peek = "IDENTIFIER" /\ mem[3] \in {"get", "set"})
     /\ Keep /\ Goto("Object.next", <<Assigned(mem[1], mem[3], mem[2]), mem[2]>>)
  \/ /\ At("Object.assign")
     /\ Keep /\ Goto("Object.next", <<Assigned(mem[1], mem[3], ret), ret>>)
  \/ /\ At("Object.next") /\ peek = "RBRACE"
     /\ advance(TRUE) /\ Return(Node("object", "", mem[1]))
  \/ At("Object.next") /\ peek # "RBRACE" /\ Eat("COMMA", Goto("Object.name", mem))

ParseObjectMethod ==
  \/ At("Method") /\ Keep /\ Call("Parameters", "Method.body", <<>>)
  \/ At("Method.body") /\ Keep /\ Call("Block", "Method.end", <<ret>>)
  \/ At("Method.end") /\ Keep /\ Return(Node("function", "", Append(mem, ret)))

Expressions ==
  \/ ParseCommaExpression \/ ParseAssignExpression \/ ParseTernaryExpression
  \/ ParseBinaryExpression \/ ParseBinaryExpressionRhs \/ ParseUnaryExpression
  \/ ParseNewExpression \/ ParseMemberExpression \/ ParseDotExpression
  \/ ParseIndexExpression \/ ParseArgumentList \/ ParsePrimary
  \/ ParseArrayLiteral \/ ParseObjectLiteral \/ ParseObjectMethod

=============================================================================
