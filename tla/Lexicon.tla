------------------------------- MODULE Lexicon -------------------------------
(***************************************************************************)
(* The character classes and symbol tables of src/jast/tokenizer.cc, and   *)
(* the operator list of include/jast/tokens.inc they have to agree with.   *)
(* A character is a string, mostly of length one, and a text a sequence   *)
(* of them.                                                                *)
(***************************************************************************)
EXTENDS Sequences

CONSTANTS
  EOF,      \* what readchar() answers past the end of the text
  Keywords  \* the rows <<spelling, type>> of the K() section of tokens.inc

IsSpace(c) == c \in {" ", "\t", "\n", "\r"}

Digit == {"0", "1", "2", "3", "4", "5", "6", "7", "8", "9"}

HexDigit == Digit \union {"a", "b", "c", "d", "e", "f", "A", "B", "C", "D", "E", "F"}

IdentifierStart ==
  {"_", "$"} \union
  {"a", "b", "c", "d", "e", "f", "g", "h", "i", "j", "k", "l", "m",
   "n", "o", "p", "q", "r", "s", "t", "u", "v", "w", "x", "y", "z"} \union
  {"A", "B", "C", "D", "E", "F", "G", "H", "I", "J", "K", "L", "M",
   "N", "O", "P", "Q", "R", "S", "T", "U", "V", "W", "X", "Y", "Z"}

IdentifierChar == IdentifierStart \union Digit

RegexFlag == {"g", "i", "m", "u", "y"}

(* The quote characters go by their names.                                 *)
BackQuote == "back quote"
QuoteMark == {"double quote", "single quote", BackQuote}

(* Symbol tables: sets of rows <<spelling, token type>>.                   *)

OneCharacterSymbols ==
  { << <<"(">>, "LPAREN">>, << <<")">>, "RPAREN">>, << <<"{">>, "LBRACE">>,
    << <<"}">>, "RBRACE">>, << <<"[">>, "LBRACK">>, << <<"]">>, "RBRACK">>,
    << <<":">>, "COLON">>, << <<";">>, "SEMICOLON">>, << <<".">>, "PERIOD">>,
    << <<",">>, "COMMA">>, << <<"?">>, "CONDITIONAL">>, << <<"+">>, "ADD">>,
    << <<"-">>, "SUB">>, << <<"/">>, "DIV">>, << <<"*">>, "MUL">>,
    << <<"%">>, "MOD">>, << <<">">>, "GT">>, << <<"<">>, "LT">>,
    << <<"=">>, "ASSIGN">>, << <<"^">>, "BIT_XOR">>, << <<"|">>, "BIT_OR">>,
    << <<"&">>, "BIT_AND">>, << <<"!">>, "NOT">>, << <<"~">>, "BIT_NOT">> }

TwoCharacterSymbols ==
  { << <<"+", "=">>, "ASSIGN_ADD">>, << <<"-", "=">>, "ASSIGN_SUB">>,
    << <<"*", "=">>, "ASSIGN_MUL">>, << <<"/", "=">>, "ASSIGN_DIV">>,
    << <<"%", "=">>, "ASSIGN_MOD">>, << <<"^", "=">>, "ASSIGN_BIT_XOR">>,
    << <<"&", "=">>, "ASSIGN_BIT_AND">>, << <<"|", "=">>, "ASSIGN_BIT_OR">>,
    << <<">", "=">>, "GTE">>, << <<"<", "=">>, "LTE">>, << <<"=", "=">>, "EQ">>,
    << <<"!", "=">>, "NE">>, << <<"|", "|">>, "OR">>, << <<"&", "&">>, "AND">>,
    << <<"+", "+">>, "INC">>, << <<"-", "-">>, "DEC">>, << <<"<", "<">>, "SHL">>,
    << <<">", ">">>, "SAR">>, << <<"=", ">">>, "ARROW">> }

(* Mutant of ThreeCharacterSymbols: no row for <<=.                        *)
ThreeWithoutShl ==
  { << <<"=", "=", "=">>, "EQ_STRICT">>, << <<"!", "=", "=">>, "NE_STRICT">>,
    << <<">", ">", ">">>, "SHR">>, << <<">", ">", "=">>, "ASSIGN_SAR">>,
    << <<".", ".", ".">>, "ELLIPSIS">> }

ThreeCharacterSymbols ==
  { << <<"=", "=", "=">>, "EQ_STRICT">>, << <<"!", "=", "=">>, "NE_STRICT">>,
    << <<">", ">", ">">>, "SHR">>, << <<">", ">", "=">>, "ASSIGN_SAR">>,
    << <<"<", "<", "=">>, "ASSIGN_SHL">>, << <<".", ".", ".">>, "ELLIPSIS">> }

(* The type a table gives a spelling, "INVALID" when it has no such row.   *)
TypeIn(table, spelling) ==
  IF \E op \in table : op[1] = spelling
  THEN (CHOOSE op \in table : op[1] = spelling)[2]
  ELSE "INVALID"

IsKeyword(spelling) ==
  IF \E op \in Keywords : op[1] = spelling
  THEN TypeIn(Keywords, spelling)
  ELSE "IDENTIFIER"

(* The operators the language has: the O() rows of tokens.inc, which the   *)
(* tokenizer tests run through one by one.                                 *)
Operators ==
  { << <<"(">>, "LPAREN">>, << <<")">>, "RPAREN">>, << <<"[">>, "LBRACK">>,
    << <<"]">>, "RBRACK">>, << <<"{">>, "LBRACE">>, << <<"}">>, "RBRACE">>,
    << <<":">>, "COLON">>, << <<";">>, "SEMICOLON">>, << <<".">>, "PERIOD">>,
    << <<".", ".", ".">>, "ELLIPSIS">>, << <<"?">>, "CONDITIONAL">>,
    << <<"+", "+">>, "INC">>, << <<"-", "-">>, "DEC">>,
    << <<"=", ">">>, "ARROW">>, << <<"=">>, "ASSIGN">>,
    << <<"|", "=">>, "ASSIGN_BIT_OR">>, << <<"^", "=">>, "ASSIGN_BIT_XOR">>,
    << <<"&", "=">>, "ASSIGN_BIT_AND">>, << <<"<", "<", "=">>, "ASSIGN_SHL">>,
    << <<">", ">", "=">>, "ASSIGN_SAR">>,
    << <<">", ">", ">", "=">>, "ASSIGN_SHR">>, << <<"+", "=">>, "ASSIGN_ADD">>,
    << <<"-", "=">>, "ASSIGN_SUB">>, << <<"*", "=">>, "ASSIGN_MUL">>,
    << <<"/", "=">>, "ASSIGN_DIV">>, << <<"%", "=">>, "ASSIGN_MOD">>,
    << <<",">>, "COMMA">>, << <<"|", "|">>, "OR">>, << <<"&", "&">>, "AND">>,
    << <<"|">>, "BIT_OR">>, << <<"^">>, "BIT_XOR">>, << <<"&">>, "BIT_AND">>,
    << <<"<", "<">>, "SHL">>, << <<">", ">">>, "SAR">>,
    << <<">", ">", ">">>, "SHR">>, << <<"+">>, "ADD">>, << <<"-">>, "SUB">>,
    << <<"*">>, "MUL">>, << <<"/">>, "DIV">>, << <<"%">>, "MOD">>,
    << <<"=", "=">>, "EQ">>, << <<"!", "=">>, "NE">>,
    << <<"=", "=", "=">>, "EQ_STRICT">>, << <<"!", "=", "=">>, "NE_STRICT">>,
    << <<"<">>, "LT">>, << <<">">>, "GT">>, << <<"!">>, "NOT">>,
    << <<"~">>, "BIT_NOT">>, << <<"<", "=">>, "LTE">>,
    << <<">", "=">>, "GTE">> }

(* EOF is negative, and no character of a class or of an operator is.      *)
ASSUME EofIsNoSpelling ==
  EOF \notin IdentifierChar \union QuoteMark \union
    {" ", "\t", "\n", "\r", "\\", "(", ")", "[", "]", "{", "}", ":", ";", ".", ",", "?", "+",
     "-", "*", "/", "%", "<", ">", "=", "^", "|", "&", "!", "~"}

(* A token type is in one section of tokens.inc only.                      *)
ASSUME KeywordsAreTokens ==
  \A key \in Keywords :
    key[2] \notin {op[2] : op \in Operators} \union
      {"NUMBER", "STRING", "TEMPLATE", "IDENTIFIER", "REGEX", "END_OF_FILE", "ERROR", "INVALID"}

=============================================================================
