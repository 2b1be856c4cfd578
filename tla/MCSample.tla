------------------------------ MODULE MCSample ------------------------------
(***************************************************************************)
(* Texts for the parse program: every kind of node, inside of others.      *)
(***************************************************************************)
EXTENDS SampleTrees

MCNames == {"a", "get"}

Texts(start, more, tokens) ==
  [start |-> start, max |-> Len(start) + more, tokens |-> tokens]

After(start, more, tokens) == Texts(start, more, tokens \union {"a", "SEMICOLON"})

InParens == <<"LPAREN", "a", "RPAREN">>
If == <<"IF">> \o InParens
While == <<"WHILE">> \o InParens

MCTexts ==
  { After(<<>>, 5, {"SUB", "NOT", "INC"}),
    After(<<"a">>, 4, {"ASSIGN", "CONDITIONAL", "COLON", "COMMA"}),
    After(<<"a">>, 5, {"LPAREN", "RPAREN", "COMMA", "PERIOD"}),
    After(<<"NEW", "a", "LBRACK">>, 4, {"LBRACK", "RBRACK", "NUMBER", "MUL", "THIS"}),
    After(<<"a", "ASSIGN", "LBRACE", "a">>, 5, {"get", "COLON", "COMMA", "RBRACE"}),
    After(<<"a", "ASSIGN", "LBRACE", "a", "LPAREN", "RPAREN">>, 4, {"LBRACE", "RBRACE"}),
    After(<<"IF", "LPAREN">>, 7, {"RPAREN", "ELSE"}),
    After(If \o While \o If, 4, {"ELSE", "RETURN"}),
    After(<<"FOR", "LPAREN">>, 6, {"VAR", "IN", "RPAREN"}),
    After(<<"FOR", "LPAREN", "VAR", "a">>, 5, {"COMMA", "ASSIGN", "RPAREN"}),
    After(<<"DO">>, 6, {"WHILE", "LPAREN", "RPAREN"}),
    After(<<"FUNCTION", "a", "LPAREN">>, 6, {"COMMA", "RPAREN", "RETURN", "LBRACE", "RBRACE"}),
    After(<<"a", "ASSIGN", "FUNCTION">>, 5, {"LPAREN", "RPAREN"}),
    After(<<"TRY", "LBRACE", "RBRACE", "CATCH">>, 7,
          {"LPAREN", "RPAREN", "FINALLY", "LBRACE", "RBRACE"}),
    After(<<"SWITCH">> \o InParens \o <<"LBRACE">>, 8, {"CASE", "DEFAULT", "COLON", "RBRACE"}),
    After(While, 4, {"COLON", "THROW", "BREAK", "LBRACE", "RBRACE"}) }

=============================================================================
