------------------------------ MODULE MCParser ------------------------------
(***************************************************************************)
(* Texts for the parser: each is made of a few tokens that bear on one     *)
(* another, so that short texts meet every rule of the grammar.            *)
(***************************************************************************)
EXTENDS ParserTrees

MCNames == {"a", "get"}

(* Texts of `start` and up to `more` tokens.                               *)
Texts(start, more, tokens) ==
  [start |-> start, max |-> Len(start) + more, tokens |-> tokens]

UpTo(max, tokens) == Texts(<<>>, max, {"a", "SEMICOLON"} \union tokens)

MCExpressions ==
  { UpTo(8, {"OR", "LT", "MUL"}),
    UpTo(5, {"SUB", "NOT", "MUL", "LT"}),
    UpTo(8, {"ASSIGN", "CONDITIONAL", "COLON"}),
    UpTo(5, {"INC", "SUB", "REGEX"}),
    UpTo(6, {"LPAREN", "RPAREN", "COMMA", "MUL"}),
    Texts(<<"a", "MUL", "LPAREN">>, 5, {"a", "LPAREN", "RPAREN", "MUL", "SEMICOLON"}),
    UpTo(6, {"LBRACK", "RBRACK", "PERIOD", "IN"}),
    Texts(<<"NEW">>, 5, {"a", "SEMICOLON", "NEW", "LPAREN", "RPAREN", "PERIOD"}),
    UpTo(6, {"LBRACK", "RBRACK", "COMMA"}) }

InParens == <<"LPAREN", "a", "RPAREN">>

MCStatements ==
  { Texts(<<"IF">> \o InParens \o <<"IF">> \o InParens, 5,
          {"a", "SEMICOLON", "IF", "ELSE", "LPAREN", "RPAREN"}),
    Texts(<<"IF">> \o InParens \o <<"SEMICOLON", "ELSE">>, 6,
          {"a", "SEMICOLON", "IF", "ELSE", "LPAREN", "RPAREN"}),
    Texts(<<"IF">> \o InParens \o <<"WHILE">> \o InParens \o <<"IF">> \o InParens, 4,
          {"SEMICOLON", "ELSE", "BREAK", "RETURN", "LBRACE", "RBRACE"}),
    Texts(<<"IF">> \o InParens, 6, {"a", "SEMICOLON", "ELSE", "PERIOD", "RETURN"}),
    Texts(<<"IF">> \o InParens \o <<"TRY", "PERIOD">>, 4, {"SEMICOLON", "ELSE", "RBRACE", "BREAK"}),
    Texts(<<"IF">> \o InParens \o <<"LPAREN", "FUNCTION", "LPAREN", "RPAREN", "IF">> \o InParens, 5,
          {"SEMICOLON", "ELSE", "RETURN", "RPAREN"}),
    Texts(<<"FOR", "LPAREN">>, 7, {"a", "SEMICOLON", "VAR", "IN", "RPAREN"}),
    Texts(<<"FOR", "LPAREN", "VAR", "a">>, 6, {"a", "SEMICOLON", "COMMA", "ASSIGN", "RPAREN"}),
    Texts(<<"FOR", "LPAREN", "SEMICOLON", "SEMICOLON", "RPAREN", "FOR", "LPAREN">>, 6,
          {"a", "SEMICOLON", "VAR", "IN", "RPAREN"}),
    Texts(<<"FOR", "LPAREN", "a", "IN", "FUNCTION", "LPAREN", "RPAREN", "LBRACE">>, 7,
          {"FOR", "LPAREN", "SEMICOLON", "RPAREN", "RBRACE"}),
    Texts(<<"DO">>, 7, {"a", "SEMICOLON", "WHILE", "LPAREN", "RPAREN", "BREAK"}),
    Texts(<<"FUNCTION", "a", "LPAREN">>, 6,
          {"a", "SEMICOLON", "COMMA", "RPAREN", "RETURN", "LBRACE", "RBRACE"}),
    Texts(<<"TRY">>, 5, {"SEMICOLON", "CATCH", "FINALLY", "LBRACE", "RBRACE"}),
    Texts(<<"TRY", "LBRACE", "RBRACE", "CATCH">>, 6, {"a", "LPAREN", "RPAREN", "LBRACE", "RBRACE"}),
    Texts(<<"TRY", "LBRACE", "RBRACE", "CATCH">> \o InParens, 5,
          {"SEMICOLON", "FINALLY", "LBRACE", "RBRACE"}),
    Texts(<<"SWITCH">> \o InParens \o <<"LBRACE">>, 8,
          {"a", "SEMICOLON", "CASE", "DEFAULT", "COLON", "RBRACE"}),
    Texts(<<"LBRACE">>, 4, {"a", "SEMICOLON", "THROW", "LBRACE", "RBRACE"}),
    Texts(<<"a", "ASSIGN", "LBRACE">>, 6,
          {"a", "get", "SEMICOLON", "COLON", "COMMA", "RBRACE"}),
    Texts(<<"a", "ASSIGN", "LBRACE", "get", "LPAREN">>, 5,
          {"a", "SEMICOLON", "RPAREN", "LBRACE", "RBRACE"}),
    Texts(<<"a", "ASSIGN", "LBRACE", "get", "a">>, 6,
          {"SEMICOLON", "COMMA", "LPAREN", "RPAREN", "LBRACE", "RBRACE"}),
    Texts(<<"a", "ASSIGN", "LBRACE", "STRING", "a">>, 6,
          {"SEMICOLON", "COMMA", "LPAREN", "RPAREN", "LBRACE", "RBRACE"}),
    Texts(<<"a", "ASSIGN", "LBRACE", "STRING">>, 5,
          {"NUMBER", "IF", "SEMICOLON", "COLON", "COMMA", "RBRACE"}) }

MCTexts == MCExpressions \union MCStatements

=============================================================================
