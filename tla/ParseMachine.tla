---------------------------- MODULE ParseMachine ----------------------------
(***************************************************************************)
(* What the functions of src/jast/parser.cc run on: the token the          *)
(* tokenizer delivered last, the C++ call stack, the value a call returned *)
(* and the parser's flags.                                                 *)
(*                                                                         *)
(* A parse function is a set of labels: its name where it begins, and      *)
(* "name.place" where a call it made returns or a token it asked for has   *)
(* come.  One action goes from one label to the next and moves at most one *)
(* token forward.  A frame holds its label, the locals still needed there  *)
(* and, as history, the index of the token its call began at.              *)
(***************************************************************************)
EXTENDS Integers, Sequences

CONSTANTS
  Names,     \* the spellings of identifiers
  Alphabets  \* what texts there are: how one begins, the tokens that may follow
             \* and how long it gets (the length bounds model checking only)

ASSUME NamesAreNoTypes == "END_OF_FILE" \notin Names /\ "SEMICOLON" \notin Names
ASSUME AlphabetsAreTexts ==
  \A choice \in Alphabets : choice.start \in Seq(STRING) /\ choice.max \in Nat

VARIABLES
  text,      \* one of Alphabets
  input,     \* the tokens delivered, the current one last
  division,  \* with which not_regex each of them was asked for
  braces,    \* history: the tokens ParseBlockStatement took for its '{'
  stack,     \* the calls in progress, the innermost last
  ret,       \* the handle the last call returned
  ended,     \* history: the kinds of the nodes that end right before the current token
  forIn,     \* ParserFlags::kForInLoopParsing
  status     \* "running", "throwing", "done" or "error"

reading == <<text, input, division, braces>>
vars == <<reading, stack, ret, ended, forIn, status>>

-----------------------------------------------------------------------------
(* Tokens: a type of tokens.inc, or an identifier as it is spelled.        *)

TypeOf(t) == IF t \in Names THEN "IDENTIFIER" ELSE t

KeywordTypes ==
  {"INSTANCEOF", "IN", "DELETE", "TYPEOF", "VOID", "BREAK", "CASE", "CATCH", "CONTINUE",
   "DEBUGGER", "DEFAULT", "DO", "ELSE", "FINALLY", "FOR", "FUNCTION", "IF", "NEW", "RETURN",
   "SWITCH", "THIS", "THROW", "TRY", "VAR", "WHILE", "WITH", "NULL_LITERAL",
   "TRUE_LITERAL", "FALSE_LITERAL", "ASYNC", "AWAIT", "CLASS", "CONST", "ENUM", "EXPORT",
   "EXTENDS", "IMPORT", "LET", "STATIC", "YIELD", "SUPER"}

IsKeyword(t) == t \in KeywordTypes

(* IsAssign: the types from ASSIGN to ASSIGN_MOD.                          *)
AssignTypes ==
  {"ASSIGN", "ASSIGN_BIT_OR", "ASSIGN_BIT_XOR", "ASSIGN_BIT_AND", "ASSIGN_SHL",
   "ASSIGN_SAR", "ASSIGN_SHR", "ASSIGN_ADD", "ASSIGN_SUB", "ASSIGN_MUL",
   "ASSIGN_DIV", "ASSIGN_MOD"}

(* Token::precedence, the third column of tokens.inc; all others have 0.   *)
Levels ==
  << {"COMMA"}, {"CONDITIONAL"} \union AssignTypes, {}, {"OR"}, {"AND"}, {"BIT_OR"},
     {"BIT_XOR"}, {"BIT_AND"}, {"EQ", "NE", "EQ_STRICT", "NE_STRICT"},
     {"LT", "GT", "LTE", "GTE", "INSTANCEOF", "IN"}, {"SHL", "SAR", "SHR"},
     {"ADD", "SUB"}, {"MUL", "DIV", "MOD"} >>

Precedence(t) ==
  IF \E p \in 1..13 : t \in Levels[p] THEN CHOOSE p \in 1..13 : t \in Levels[p] ELSE 0

(* The tree nodes the builder makes.  A leaf stands for a token by its     *)
(* index in the text, so that trees tell equal names apart.                *)
Node(kind, op, kids) == [kind |-> kind, op |-> op, at |-> 0, kids |-> kids]
Leaf(i) == [kind |-> "leaf", op |-> "", at |-> i, kids |-> <<>>]
Null == Node("null", "", <<>>)
Undefined == Node("undefined", "", <<>>)

IsIdentifier(node) == node.kind = "leaf" /\ TypeOf(input[node.at]) = "IDENTIFIER"

-----------------------------------------------------------------------------
(* The tokenizer, as the parser sees it: peek() is the type of the current *)
(* token, advance() delivers any next one of the text.  A regular          *)
(* expression comes only when not_regex is off, and after the end of the   *)
(* text END_OF_FILE comes again and again.                                 *)

here == Len(input)
peek == TypeOf(input[here])

Deliverable(not_regex) ==
  {"END_OF_FILE"} \union
    IF peek = "END_OF_FILE" \/ here >= text.max THEN {}
    ELSE IF here < Len(text.start) THEN {text.start[here + 1]}
    ELSE text.tokens \ (IF not_regex THEN {"REGEX"} ELSE {})

advance(not_regex) ==
  /\ \E t \in Deliverable(not_regex) : input' = Append(input, t)
  /\ division' = Append(division, not_regex)
  /\ UNCHANGED <<text, braces>>

Keep == UNCHANGED reading

-----------------------------------------------------------------------------
(* Control.                                                                *)

Top == stack[Len(stack)]
Callers == SubSeq(stack, 1, Len(stack) - 1)
mem == Top.mem

At(label) == status = "running" /\ Top.at = label

Frame(label, locals, first) == [at |-> label, mem |-> locals, from |-> first]

(* The nodes of these kinds end at the token a step stops at, as do those  *)
(* that have ended there before.                                           *)
EndHere(kinds) == ended' = kinds \union IF input' = input THEN ended ELSE {}

Goto(label, locals) ==
  /\ stack' = Append(Callers, Frame(label, locals, Top.from))
  /\ EndHere({})
  /\ UNCHANGED <<ret, forIn, status>>

(* A call whose value the caller goes on with at `label`.                  *)
Call(function, label, locals) ==
  /\ stack' = Callers \o << Frame(label, locals, Top.from),
                            Frame(function, <<>>, Len(input')) >>
  /\ EndHere({})
  /\ UNCHANGED <<ret, forIn, status>>

(* A call in tail position.                                                *)
Become(function) == Keep /\ Goto(function, <<>>)

Return(value) ==
  /\ stack' = Callers
  /\ ret' = value
  /\ EndHere({value.kind})
  /\ UNCHANGED <<forIn, status>>

Throw ==
  /\ status' = "throwing"
  /\ Keep
  /\ UNCHANGED <<stack, ret, ended, forIn>>

(* EXPECT and its written-out forms.                                       *)
EatAs(not_regex, tok, continuation) ==
  \/ peek = tok /\ advance(not_regex) /\ continuation
  \/ peek # tok /\ Throw

Eat(tok, continuation) == EatAs(FALSE, tok, continuation)

=============================================================================
