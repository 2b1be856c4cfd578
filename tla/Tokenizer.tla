------------------------------ MODULE Tokenizer ------------------------------
(***************************************************************************)
(* The tokenizer of src/jast/tokenizer.cc over its character stream.       *)
(*                                                                         *)
(* A call of advance() runs from pc "idle" back to "idle"; in between, one *)
(* action is one turn of a loop or one branch of the code, and reads or    *)
(* puts back at most one character.  acc stands for the local string a     *)
(* token is collected in, and for first, second, third in the symbol part. *)
(* Texts have no byte 0xFF, which readchar() answers as EOF (CharStream    *)
(* has it): where one ends a token the code takes the text for ended.      *)
(***************************************************************************)
EXTENDS Integers, Sequences, FiniteSets, Lexicon

CONSTANTS
  Char,       \* the characters texts are made of
  Texts,      \* the texts the tokenizer may be opened on
  NextTexts,  \* the texts reset() may switch to, once in a behaviour
  Modes,      \* the values of not_regex the caller passes: a subset of BOOLEAN
  MaxSize     \* the largest size_t: seek_ wraps around at it

ASSUME EofIsNoCharacter == EOF \notin Char
ASSUME TextsAreTexts == Texts \subseteq Seq(Char) /\ NextTexts \subseteq Seq(Char)
ASSUME ModesAreBooleans == Modes \subseteq BOOLEAN
ASSUME MaxSizeIsNat == MaxSize \in Nat \ {0}
ASSUME TextsFit == \A text \in Texts \union NextTexts : Len(text) <= MaxSize

VARIABLES
  source, pos, buffer,          \* the character stream
  seek, row, col, last_col,     \* seek_, position_ and last_col_length_
  token,                        \* token_
  pc, notRegex, ch, last, acc,  \* where advance() is, its parameter and locals
  mark,                         \* the local copies of seek and position
  from, start,                  \* history: cursor at the call, at the lexeme
  started, resets               \* history: a token was read, reset() was called

stream == <<pos, buffer>>
place == <<seek, row, col, last_col>>
call == <<source, notRegex, from, started, resets>>
vars == <<stream, place, call, token, pc, ch, last, acc, mark, start>>

Stream == INSTANCE CharStream WITH MaxBuffer <- MaxSize, got <- ch

(* How much of the source has been read and not put back.                  *)
Cursor == pos - Len(buffer)

Here == [seek |-> seek, row |-> row, col |-> col]

NoToken == [type |-> "NONE", view |-> <<>>, at |-> [seek |-> 0, row |-> 0, col |-> 0]]

Init ==
  /\ source \in Texts
  /\ pos = 0 /\ buffer = <<>>
  /\ seek = 0 /\ row = 0 /\ col = 0 /\ last_col = 0
  /\ token = NoToken
  /\ pc = "idle"
  /\ notRegex = FALSE
  /\ ch = EOF
  /\ last = EOF
  /\ acc = <<>>
  /\ mark = Here
  /\ from = 0
  /\ start = 0
  /\ started = FALSE
  /\ resets = FALSE

-----------------------------------------------------------------------------
(* TokenizerState: one character forth or back.                            *)

Up(n) == IF n = MaxSize THEN 0 ELSE n + 1
(* Mutant of Down: a signed counter.                                       *)
DownSigned(n) == n - 1

Down(n) == IF n = 0 THEN MaxSize ELSE n - 1

(* Mutant of ReadChar: the column of the line left is not remembered.      *)
ReadCharForgetting ==
  LET c == Stream!NextChar IN
  /\ ch' = c
  /\ Stream!Take
  /\ row' = IF c = "\n" THEN row + 1 ELSE row
  /\ col' = IF c = "\n" THEN 0 ELSE IF c = EOF THEN col ELSE col + 1
  /\ seek' = IF c = EOF THEN seek ELSE Up(seek)
  /\ UNCHANGED last_col

ReadChar ==
  LET c == Stream!NextChar IN
  /\ ch' = c
  /\ Stream!Take
  /\ IF c = "\n"
     THEN /\ row' = row + 1
          /\ last_col' = col
          /\ col' = 0
     ELSE /\ col' = IF c = EOF THEN col ELSE col + 1
          /\ UNCHANGED <<row, last_col>>
  /\ seek' = IF c = EOF THEN seek ELSE Up(seek)

(* The assertions of putback().                                            *)
MayPutback(c) ==
  \/ c = EOF
  \/ c = "\n" /\ row # 0
  \/ c \notin {EOF, "\n"} /\ col # 0

(* Mutants of Putback: seek_ is not lowered; the row is not.               *)
PutbackKeepingSeek(c) ==
  /\ IF c = EOF THEN UNCHANGED <<stream, row, col>>
     ELSE /\ Stream!Push(c)
          /\ col' = IF c = "\n" THEN last_col ELSE col - 1
          /\ row' = IF c = "\n" THEN row - 1 ELSE row
  /\ UNCHANGED <<seek, last_col>>

PutbackKeepingRow(c) ==
  /\ seek' = Down(seek)
  /\ IF c = EOF THEN UNCHANGED <<stream, col>>
     ELSE Stream!Push(c) /\ col' = IF c = "\n" THEN last_col ELSE col - 1
  /\ UNCHANGED <<row, last_col>>

Putback(c) ==
  /\ seek' = Down(seek)
  /\ IF c = EOF
     THEN UNCHANGED <<stream, row, col>>
     ELSE /\ Stream!Push(c)
          /\ IF c = "\n"
             THEN col' = last_col /\ row' = row - 1
             ELSE col' = col - 1 /\ UNCHANGED row
  /\ UNCHANGED last_col

(* A failed assertion ends the program.                                    *)
Abort ==
  /\ pc' = "abort"
  /\ UNCHANGED <<stream, place, call, token, ch, last, acc, mark, start>>

PutbackThen(c, continuation) ==
  IF MayPutback(c) THEN Putback(c) /\ continuation ELSE Abort

(* Read the next character into ch and continue at `to`.                   *)
Read(to) == ReadChar /\ pc' = to /\ UNCHANGED <<call, token>>

Goto(to) == pc' = to /\ UNCHANGED <<call, token>>

Return(type, view, where) ==
  /\ token' = [type |-> type, view |-> view, at |-> where]
  /\ pc' = "idle"
  /\ UNCHANGED <<call, ch, last, acc, mark, start>>

ReturnHere(type, view, where) == Return(type, view, where) /\ UNCHANGED <<stream, place>>

(* buffer.push_back(ch); ch = readchar().                                  *)
PushAndRead(to) == acc' = Append(acc, ch) /\ Read(to) /\ UNCHANGED <<last, mark, start>>

-----------------------------------------------------------------------------
(* advance_internal: blanks, comments and the question of the slash.       *)

SkipSpace ==
  /\ pc = "scan" /\ IsSpace(ch)
  /\ Read("scan")
  /\ UNCHANGED <<last, acc, mark, start>>

Slash ==
  /\ pc = "scan" /\ ch = "/"
  /\ Read("slash")
  /\ start' = Cursor
  /\ UNCHANGED <<last, acc, mark>>

LexemeStart ==
  /\ pc = "scan" /\ ~IsSpace(ch) /\ ch # "/"
  /\ Goto("token")
  /\ start' = Cursor
  /\ UNCHANGED <<stream, place, ch, last, acc, mark>>

SlashAtEnd ==
  /\ pc = "slash" /\ ch = EOF
  /\ ReturnHere("DIV", <<"/">>, Here)

LineCommentStart ==
  /\ pc = "slash" /\ ch = "/"
  /\ Goto("line")
  /\ UNCHANGED <<stream, place, ch, last, acc, mark, start>>

LineComment ==
  /\ pc = "line"
  /\ IF ch # "\n"
     THEN Read("line")
     ELSE Goto("scan") /\ UNCHANGED <<stream, place, ch>>
  /\ UNCHANGED <<last, acc, mark, start>>

BlockCommentStart ==
  /\ pc = "slash" /\ ch = "*"
  /\ Read("block")
  /\ last' = ch'
  /\ UNCHANGED <<acc, mark, start>>

(* Mutants of BlockComment: any slash closes it; the end of the text does  *)
(* not.                                                                    *)
BlockCommentAnySlash ==
  /\ pc = "block"
  /\ IF ch \in {EOF, "/"} THEN Read("blockEnd") /\ UNCHANGED last
     ELSE Read("block") /\ last' = ch
  /\ UNCHANGED <<acc, mark, start>>

BlockCommentNoEnd ==
  /\ pc = "block"
  /\ IF ch = "/" /\ last = "*" THEN Read("blockEnd") /\ UNCHANGED last
     ELSE Read("block") /\ last' = ch
  /\ UNCHANGED <<acc, mark, start>>

BlockComment ==
  /\ pc = "block"
  /\ IF ch = EOF \/ (ch = "/" /\ last = "*")
     THEN Read("blockEnd") /\ UNCHANGED last
     ELSE Read("block") /\ last' = ch
  /\ UNCHANGED <<acc, mark, start>>

BlockCommentEnd ==
  /\ pc = "blockEnd"
  /\ IF ch = EOF
     THEN ReturnHere("ERROR", <<>>, Here)
     ELSE Goto("scan") /\ UNCHANGED <<stream, place, ch, last, acc, mark, start>>

(* Mutant of SlashAlone: the caller is not asked.                          *)
SlashAlwaysRegex ==
  /\ pc = "slash" /\ ch \notin {EOF, "/", "*"}
  /\ PutbackThen(ch, Goto("regexStart")
                     /\ ch' = "/" /\ UNCHANGED <<last, acc, mark, start>>)

(* The slash is no comment: put its successor back, then try a regular     *)
(* expression unless the caller said not to.                               *)
SlashAlone ==
  /\ pc = "slash" /\ ch \notin {EOF, "/", "*"}
  /\ PutbackThen(ch, Goto(IF notRegex THEN "token" ELSE "regexStart")
                     /\ ch' = "/" /\ UNCHANGED <<last, acc, mark, start>>)

-----------------------------------------------------------------------------
(* parseRegex.                                                             *)

RegexStart ==
  /\ pc = "regexStart"
  /\ acc' = <<>>
  /\ mark' = Here
  /\ Read("regex")
  /\ UNCHANGED <<last, start>>

RegexBody ==
  /\ pc = "regex" /\ ch \notin {"/", "\n", "[", EOF}
  /\ PushAndRead(IF ch = "\\" THEN "regexEscaped" ELSE "regex")

RegexEscaped == pc = "regexEscaped" /\ PushAndRead("regex")

RegexClass ==
  /\ pc = "regex" /\ ch = "["
  /\ PushAndRead("class")

RegexClassBody ==
  /\ pc = "class" /\ ch \notin {"]", EOF}
  /\ PushAndRead(IF ch = "\\" THEN "classEscaped" ELSE "class")

RegexClassEscaped ==
  /\ pc = "classEscaped" /\ ch # EOF
  /\ PushAndRead("class")

RegexClassUnclosed ==
  /\ pc \in {"class", "classEscaped"} /\ ch = EOF
  /\ ReturnHere("ERROR", <<>>, mark)

(* The bracket is pushed after the inner loop and, still in ch, once more  *)
(* at the foot of the outer one.                                           *)
RegexClassEnd ==
  /\ pc = "class" /\ ch = "]"
  /\ acc' = acc \o <<ch, ch>>
  /\ Read("regex")
  /\ UNCHANGED <<last, mark, start>>

RegexEnd ==
  /\ pc = "regex" /\ ch = "/"
  /\ acc' = Append(acc, "marker")
  /\ Read("flags")
  /\ UNCHANGED <<last, mark, start>>

RegexFlags ==
  /\ pc = "flags" /\ ch \in RegexFlag
  /\ PushAndRead("flags")

RegexReturn ==
  /\ pc = "flags" /\ ch \notin RegexFlag
  /\ PutbackThen(ch, Return("REGEX",
                            IF acc[Len(acc)] = "marker" THEN Append(acc, "n") ELSE acc,
                            mark))

(* No closing slash before the end of the line: put everything back.       *)
RegexFail ==
  /\ pc = "regex" /\ ch \in {EOF, "\n"}
  /\ IF ch = EOF
     THEN Goto("unread") /\ UNCHANGED <<stream, place, ch, last, acc, mark, start>>
     ELSE PutbackThen(ch, Goto("unread") /\ UNCHANGED <<ch, last, acc, mark, start>>)

(* Mutant of RegexUnread: the string is put back from its front.           *)
RegexUnreadForward ==
  /\ pc = "unread" /\ acc # <<>>
  /\ PutbackThen(acc[1], /\ acc' = Tail(acc)
                         /\ Goto("unread")
                         /\ UNCHANGED <<ch, last, mark, start>>)

RegexUnread ==
  /\ pc = "unread" /\ acc # <<>>
  /\ PutbackThen(acc[Len(acc)], /\ acc' = SubSeq(acc, 1, Len(acc) - 1)
                                /\ Goto("unread")
                                /\ UNCHANGED <<ch, last, mark, start>>)

RegexUnreadDone ==
  /\ pc = "unread" /\ acc = <<>>
  /\ Goto("token")
  /\ ch' = "/"
  /\ UNCHANGED <<stream, place, last, acc, mark, start>>

-----------------------------------------------------------------------------
(* advance_internal: identifiers, the end of the text, symbols.            *)

Identifier ==
  /\ pc = "token" /\ ch \in IdentifierStart
  /\ acc' = <<ch>>
  /\ mark' = Here
  /\ Read("identifier")
  /\ UNCHANGED <<last, start>>

IdentifierBody ==
  /\ pc = "identifier" /\ ch \in IdentifierChar
  /\ PushAndRead("identifier")

(* Mutant of IdentifierReturn: the character after the name is not put     *)
(* back.                                                                   *)
IdentifierReturnKeeping ==
  /\ pc = "identifier" /\ ch \notin IdentifierChar
  /\ ReturnHere(IsKeyword(acc), acc, mark)

IdentifierReturn ==
  /\ pc = "identifier" /\ ch \notin IdentifierChar
  /\ PutbackThen(ch, Return(IsKeyword(acc), acc, mark))

EndOfFile ==
  /\ pc = "token" /\ ch = EOF
  /\ ReturnHere("END_OF_FILE", <<>>, Here)

First ==
  /\ pc = "token" /\ ch \notin IdentifierStart \union {EOF}
  /\ acc' = <<ch>>
  /\ mark' = Here
  /\ Read("second")
  /\ UNCHANGED <<last, start>>

Second == pc = "second" /\ PushAndRead("third")

(* The third character is in ch, the first two in acc.                     *)
ThreeType == TypeIn(ThreeCharacterSymbols, Append(acc, ch))

SecondIsEnd ==
  /\ pc = "third" /\ acc[2] = EOF
  /\ Goto("one")
  /\ last' = EOF
  /\ acc' = <<acc[1]>>
  /\ UNCHANGED <<stream, place, ch, mark, start>>

ThreeCharacters ==
  /\ pc = "third" /\ acc[2] # EOF
  /\ ThreeType \notin {"INVALID", "SHR"}
  /\ ReturnHere(ThreeType, Append(acc, ch), mark)

ShiftRight ==
  /\ pc = "third" /\ acc[2] # EOF
  /\ ThreeType = "SHR"
  /\ PushAndRead("fourth")

Fourth ==
  /\ pc = "fourth"
  /\ IF ch = "="
     THEN ReturnHere("ASSIGN_SHR", Append(acc, ch), Here)
     ELSE PutbackThen(ch, Return("SHR", acc, mark))

ThirdBack ==
  /\ pc = "third" /\ acc[2] # EOF
  /\ ThreeType = "INVALID"
  /\ PutbackThen(ch, Goto("two") /\ UNCHANGED <<ch, last, acc, mark, start>>)

TwoType == TypeIn(TwoCharacterSymbols, acc)

TwoCharacters ==
  /\ pc = "two" /\ TwoType # "INVALID"
  /\ ReturnHere(TwoType, acc, mark)

SecondBack ==
  /\ pc = "two" /\ TwoType = "INVALID"
  /\ PutbackThen(acc[2], /\ last' = acc[2]
                         /\ acc' = <<acc[1]>>
                         /\ Goto("one")
                         /\ UNCHANGED <<ch, mark, start>>)

OneType == TypeIn(OneCharacterSymbols, acc)

IsNumber == acc[1] \in Digit \/ (acc[1] = "." /\ last \in Digit)

IsQuote == acc[1] \in QuoteMark

OneCharacter ==
  /\ pc = "one" /\ OneType # "INVALID" /\ ~IsNumber
  /\ ReturnHere(OneType, acc, mark)

Illegal ==
  /\ pc = "one" /\ OneType = "INVALID" /\ ~IsNumber /\ ~IsQuote
  /\ ReturnHere("INVALID", <<>>, mark)

-----------------------------------------------------------------------------
(* parseString; the delimiter is kept in last.                             *)

StringStart ==
  /\ pc = "one" /\ IsQuote
  /\ last' = acc[1]
  /\ acc' = <<>>
  /\ mark' = Here
  /\ Read("string")
  /\ UNCHANGED start

StringBody ==
  /\ pc = "string" /\ ch \notin {EOF, last}
  /\ PushAndRead(IF ch = "\\" THEN "stringEscaped" ELSE "string")

StringEscaped ==
  /\ pc = "stringEscaped" /\ ch # EOF
  /\ PushAndRead("string")

(* Mutant of StringUnclosed: a string ends with its line.                  *)
StringUnclosedOnLine ==
  /\ pc \in {"string", "stringEscaped"} /\ ch \in {EOF, "\n"}
  /\ ReturnHere("ERROR", <<>>, mark)

StringUnclosed ==
  /\ pc \in {"string", "stringEscaped"} /\ ch = EOF
  /\ ReturnHere("ERROR", <<>>, mark)

StringReturn ==
  /\ pc = "string" /\ ch = last
  /\ ReturnHere(IF last = BackQuote THEN "TEMPLATE" ELSE "STRING", acc, mark)

-----------------------------------------------------------------------------
(* parseNumber.                                                            *)

NumberStart ==
  /\ pc = "one" /\ IsNumber
  /\ mark' = Here
  /\ Read("number")
  /\ UNCHANGED <<last, acc, start>>

RadixPrefix ==
  /\ pc = "number" /\ ch \in {"x", "X", "b", "B"}
  /\ PushAndRead(IF ch \in {"x", "X"} THEN "hex" ELSE "bin")

RadixDigits ==
  /\ \/ pc = "hex" /\ ch \in HexDigit
     \/ pc = "bin" /\ ch \in {"0", "1"}
  /\ PushAndRead(pc)

(* The character after the first is collected whatever it is.              *)
NumberFirst ==
  /\ pc = "number" /\ ch \notin {"x", "X", "b", "B", "o", "O"}
  /\ acc' = IF ch = EOF THEN acc ELSE Append(acc, ch)
  /\ Goto("decimal")
  /\ UNCHANGED <<stream, place, ch, last, mark, start>>

(* seen_dot and had_exp, told from the characters collected so far.        *)
SeenDot == \E i \in 1..Len(acc) : acc[i] = "."
HadExp == \E i \in 3..Len(acc) : acc[i] \in {"e", "E"}

NumberNext ==
  /\ pc = "decimal" /\ ch \in Digit \union {"e", "E", "."}
  /\ Read("digit")
  /\ UNCHANGED <<last, acc, mark, start>>

NumberPush ==
  /\ pc = "digit"
  /\ \/ ch \in Digit
     \/ ch = "." /\ ~SeenDot
     \/ ch \in {"e", "E"} /\ ~HadExp
  /\ acc' = Append(acc, ch)
  /\ Goto("decimal")
  /\ UNCHANGED <<stream, place, ch, last, mark, start>>

(* Every branch of parseNumber ends in putback(ch).                        *)
NumberEnds ==
  \/ pc = "hex" /\ ch \notin HexDigit
  \/ pc = "bin" /\ ch \notin {"0", "1"}
  \/ pc = "number" /\ ch \in {"o", "O"}
  \/ pc = "decimal" /\ ch \notin Digit \union {"e", "E", "."}
  \/ pc = "digit" /\ ~(\/ ch \in Digit
                       \/ ch = "." /\ ~SeenDot
                       \/ ch \in {"e", "E"} /\ ~HadExp)

NumberReturn ==
  /\ NumberEnds
  /\ PutbackThen(ch, Return("NUMBER", acc, mark))

-----------------------------------------------------------------------------
(* The interface: advance(), peek() and reset().                           *)

Call(mode) ==
  /\ pc = "idle"
  /\ notRegex' = mode
  /\ ReadChar
  /\ pc' = "scan"
  /\ from' = Cursor
  /\ started' = TRUE
  /\ UNCHANGED <<source, resets, token, last, acc, mark, start>>

Advance == \E mode \in Modes : Call(mode)

(* peek() answers token().type(), reading a token first while seek is 0.   *)
Peek == seek = 0 /\ Call(FALSE)

Reset ==
  /\ pc = "idle" /\ ~resets
  /\ resets' = TRUE
  /\ source' \in NextTexts
  /\ pos' = 0 /\ buffer' = <<>>
  /\ seek' = 0 /\ row' = 0 /\ col' = 0 /\ last_col' = 0
  /\ started' = FALSE
  /\ from' = 0
  /\ UNCHANGED <<token, pc, notRegex, ch, last, acc, mark, start>>

(* An aborted program stays so.                                            *)
Aborted == pc = "abort" /\ UNCHANGED vars

Blanks ==
  \/ SkipSpace \/ Slash \/ LexemeStart \/ SlashAtEnd \/ LineCommentStart
  \/ LineComment \/ BlockCommentStart \/ BlockComment \/ BlockCommentEnd \/ SlashAlone

ParseRegex ==
  \/ RegexStart \/ RegexBody \/ RegexEscaped \/ RegexClass \/ RegexClassBody
  \/ RegexClassEscaped \/ RegexClassUnclosed \/ RegexClassEnd \/ RegexEnd
  \/ RegexFlags \/ RegexReturn \/ RegexFail \/ RegexUnread \/ RegexUnreadDone

Symbols ==
  \/ Identifier \/ IdentifierBody \/ IdentifierReturn \/ EndOfFile
  \/ First \/ Second \/ SecondIsEnd \/ ThreeCharacters \/ ShiftRight \/ Fourth
  \/ ThirdBack \/ TwoCharacters \/ SecondBack \/ OneCharacter \/ Illegal

Literals ==
  \/ StringStart \/ StringBody \/ StringEscaped \/ StringUnclosed \/ StringReturn
  \/ NumberStart \/ RadixPrefix \/ RadixDigits \/ NumberFirst \/ NumberNext
  \/ NumberPush \/ NumberReturn

(* One step of a running advance().                                        *)
Step == Blanks \/ ParseRegex \/ Symbols \/ Literals

Next == Step \/ Advance \/ Peek \/ Reset \/ Aborted

Spec == Init /\ [][Next]_vars

(* A call, once made, runs on its thread until it returns.                 *)
FairSpec == Spec /\ WF_vars(Step)

-----------------------------------------------------------------------------
(* Invariants.                                                             *)

Labels ==
  {"idle", "abort", "scan", "slash", "line", "block", "blockEnd", "token",
   "regexStart", "regex", "regexEscaped", "class", "classEscaped", "flags", "unread",
   "identifier", "second", "third", "fourth", "two", "one",
   "string", "stringEscaped", "number", "hex", "bin", "decimal", "digit"}

Place == [seek : 0..MaxSize, row : Nat, col : Nat]

Marked == Char \union {EOF, "marker", "n"}

TypeOK ==
  /\ source \in Texts \union NextTexts
  /\ pos \in 0..Len(source)
  /\ buffer \in Seq(Char)
  /\ seek \in 0..MaxSize
  /\ row \in Nat /\ col \in Nat /\ last_col \in Nat
  /\ token.view \in Seq(Marked) /\ token.at \in Place
  /\ pc \in Labels
  /\ notRegex \in BOOLEAN /\ started \in BOOLEAN /\ resets \in BOOLEAN
  /\ ch \in Char \union {EOF} /\ last \in Char \union {EOF}
  /\ acc \in Seq(Marked)
  /\ mark \in Place

(* An abandoned regular expression is put back as collected, and a class   *)
(* in it is collected with one bracket too many: most of what follows is   *)
(* claimed for texts without one.                                          *)
ClassFree == \A i \in 1..Len(source) : source[i] # "["

(* Nothing in the text lets one push-back span two lines.                  *)
Plain == \A i \in 1..Len(source) : source[i] \notin {"[", "\\"}

(* The text still to be read is a suffix of the source, wherever advance() *)
(* stands: the push-backs of the symbol, identifier, number and regex code *)
(* return exactly what they had read, in the right order.                  *)
Conserved ==
  ClassFree =>
    /\ Len(buffer) <= pos
    /\ \A j \in 1..Len(buffer) : buffer[j] = source[pos + 1 - j]

(* seek_ is the number of characters consumed as long as the text has not  *)
(* been exhausted (from there on each putback(EOF) lowers it).             *)
SeekTracksCursor == ClassFree /\ pos < Len(source) => seek = Cursor

RowOf(k) == Cardinality({i \in 1..k : source[i] = "\n"})
ColOf(k) == Cardinality({i \in 1..k : \A j \in i..k : source[j] # "\n"})

(* The row is right after every step, and a lexeme's first character is    *)
(* found at its own row and column, although a push-back over a line end   *)
(* can only restore the column of the last line.                           *)
PositionExact ==
  /\ ClassFree => row = RowOf(Cursor)
  /\ Plain /\ pc = "token" => Cursor = start /\ col = ColOf(Cursor)

(* No push-back runs into the assertions of putback().                     *)
AssertsHold == Plain => pc # "abort"

HasToken == pc = "idle" /\ started

Lexeme == SubSeq(source, start, Cursor)

(* The source reads `text` from the start of the lexeme on.                *)
FoundHere(text) ==
  /\ start + Len(text) - 1 <= Len(source)
  /\ \A i \in 1..Len(text) : source[start + i - 1] = text[i]

(* The source from i to j is one comment, the first that ends from i on.   *)
IsComment(i, j) ==
  \/ /\ source[i] = "/" /\ source[i + 1] = "/" /\ source[j] = "\n"
     /\ \A k \in i..j - 1 : source[k] # "\n"
  \/ /\ j > i + 2 /\ source[i] = "/" /\ source[i + 1] = "*"
     /\ source[j - 1] = "*" /\ source[j] = "/"
     /\ \A k \in i + 3..j - 1 : ~(source[k - 1] = "*" /\ source[k] = "/")

(* What follows the first b characters of the source, up to the e-th, can  *)
(* be cut into blanks and comments.                                        *)
IsTrivia(b, e) ==
  \E cuts \in SUBSET (b..e) :
    /\ {b, e} \subseteq cuts
    /\ \A k \in cuts \ {b} :
         \/ IsSpace(source[k]) /\ k - 1 \in cuts
         \/ \E i \in b + 1..k - 1 : i - 1 \in cuts /\ IsComment(i, k)

(* Between two tokens nothing but blanks and comments is skipped.          *)
SkipsOnlyTrivia ==
  HasToken /\ ClassFree =>
    IsTrivia(from, IF token.type = "END_OF_FILE" THEN Len(source) ELSE start - 1)

(* A returned token's view is the text it consumed: exactly, for names and *)
(* operators; between the quotes, for strings; up to one character more,   *)
(* for numbers, whose second character is collected before it is looked at.*)
TokenText ==
  HasToken /\ ClassFree =>
    /\ token.type # "END_OF_FILE" => from < start
    /\ token.type \notin {"END_OF_FILE", "ERROR", "INVALID",
                           "STRING", "TEMPLATE", "REGEX", "NUMBER"}
         => token.view = Lexeme
    /\ token.type = "INVALID" => Len(Lexeme) = 1
    /\ token.type \in {"STRING", "TEMPLATE"}
         => Lexeme = <<Lexeme[1]>> \o token.view \o <<Lexeme[1]>>
    /\ token.type = "NUMBER"
         => \/ token.view = Lexeme
            \/ Cursor < Len(source) /\ token.view = Append(Lexeme, source[Cursor + 1])
    /\ token.type = "REGEX"
         => \E n \in 1..Len(Lexeme) :
              LET flags == SubSeq(Lexeme, n + 1, Len(Lexeme)) IN
              /\ Lexeme[1] = "/" /\ n > 1 /\ Lexeme[n] = "/"
              /\ token.view = SubSeq(Lexeme, 2, n - 1) \o <<"marker">>
                               \o (IF flags = <<>> THEN <<"n">> ELSE flags)

(* An operator token is the longest operator of tokens.inc that the text   *)
(* has at this place, and a name ends where no name character follows.     *)
MaximalMunch ==
  HasToken /\ ClassFree =>
    /\ token.type \in {op[2] : op \in Operators} =>
         /\ <<token.view, token.type>> \in Operators
         /\ \A op \in Operators :
              FoundHere(op[1]) => Len(op[1]) <= Len(token.view)
    /\ token.type \in {"IDENTIFIER"} \union {key[2] : key \in Keywords} =>
         /\ token.view[1] \in IdentifierStart
         /\ Cursor = Len(source) \/ source[Cursor + 1] \notin IdentifierChar

(* Whether a slash divides is the caller's to say: with not_regex no       *)
(* regular expression comes back, and without it a slash is an operator    *)
(* only if nothing on its line can close an expression.                    *)
SlashMode ==
  HasToken /\ ClassFree =>
    /\ notRegex => token.type # "REGEX"
    /\ ~notRegex /\ token.type \in {"DIV", "ASSIGN_DIV"} =>
         \A j \in start + 1..Len(source) :
           source[j] = "/" => \E i \in start + 1..j - 1 : source[i] \in {"\n", "\\"}

(* A construct that does not end swallows all the rest, never a part of    *)
(* it, and the end of the text is announced only there.                    *)
EndsAtEnd ==
  HasToken /\ ClassFree /\ token.type \in {"ERROR", "END_OF_FILE"} => Cursor = Len(source)

(* No source text makes the tokenizer fail an assertion of its own.        *)
NeverAborts == pc # "abort"

(* peek() reads a token only while none has been: what decides it, seek_   *)
(* being 0, must mean that nothing has been consumed yet.                  *)
PeekReadsOnce == HasToken /\ seek = 0 => Cursor = 0

(* A call returns, or dies on an assertion, when the text ends its lines.  *)
EndsItsLines == source # <<>> /\ source[Len(source)] = "\n"

Returns == (pc # "idle" /\ EndsItsLines) ~> (pc \in {"idle", "abort"})

(* The same of every text: a line comment may be the last thing in it.     *)
AlwaysReturns == (pc # "idle") ~> (pc \in {"idle", "abort"})

=============================================================================
