---- MODULE MCTokenizer ----
(* Tokenizer on all short texts over several small alphabets.              *)
EXTENDS Tokenizer

CONSTANTS Wide, Deep   \* lengths up to which the alphabets are exhausted

Strings(alphabet, n) == UNION {[1..k -> alphabet] : k \in 0..n}

CommentChars == {"/", "*", "a", "\n"}
RegexChars == {"/", "\\", "[", "]", "\n"}
FlagChars == {"/", "g", "n"}
NumberChars == {"1", ".", "e", "x", "\n"}
StringChars == {"double quote", BackQuote, "\\", "a", "\n"}
ShiftChars == {">", "<", "=", "+", "\n", "1"}
SymbolChars == {op[1][1] : op \in OneCharacterSymbols}
NameChars == {"i", "n", "1", " ", "#"}
OtherChars == {"0", "b", "o", "."}

MCChar == CommentChars \union RegexChars \union FlagChars \union NumberChars \union StringChars
          \union ShiftChars \union SymbolChars \union NameChars \union OtherChars

LongerTexts ==
  {<<"1", "b", "0", "1">>, <<"0", "o", "1", "\n">>, <<".", "1", ".", ".", ".">>,
   <<"/", "[", "\\", "]", "]", "/">>, <<"/", "[", "]", "[", "]", "\n">>}

MCTexts ==
  Strings(CommentChars, Deep) \union Strings(RegexChars, Wide)
    \union Strings(FlagChars, Wide) \union Strings(NumberChars, Wide)
    \union Strings(StringChars, Wide) \union Strings(ShiftChars, Wide)
    \union Strings(NameChars, Wide) \union Strings(SymbolChars, 2)
    \union LongerTexts

MCNextTexts == {<<"a", "\n", "\n">>}

MCKeywords == {<< <<"i", "n">>, "IN">>}

=============================================================================
