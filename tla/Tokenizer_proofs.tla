-------------------------- MODULE Tokenizer_proofs --------------------------
(***************************************************************************)
(* The types of the tokenizer, and where it stands on its text: for every  *)
(* set of characters, of texts and of modes, and for every sequence of     *)
(* calls.                                                                  *)
(***************************************************************************)
EXTENDS Tokenizer, SequenceTheorems, TLAPS

(* What a call collects, as far as its later steps depend on it.           *)
AccOK ==
  /\ start \in Int /\ from \in Int
  /\ pc \in {"regex", "regexEscaped", "class", "classEscaped", "unread"} =>
       acc \in Seq(Char \union {EOF})
  /\ pc \in {"slash", "regexStart", "regex", "regexEscaped", "class", "classEscaped", "unread"} =>
       "/" \in Char
  /\ pc \in {"second", "one"} => Len(acc) = 1 /\ acc[1] \in Char \union {EOF}
  /\ pc \in {"third", "two"} =>
       /\ Len(acc) = 2
       /\ acc[1] \in Char \union {EOF} /\ acc[2] \in Char \union {EOF}

Typed == TypeOK /\ AccOK

(* The types of what reads and push-backs change.                          *)
StreamOK ==
  /\ pos \in 0..Len(source) /\ buffer \in Seq(Char)
  /\ seek \in 0..MaxSize /\ row \in Nat /\ col \in Nat /\ last_col \in Nat

(* A sequence without its last element.                                    *)
LEMMA Front ==
  ASSUME NEW S, NEW s \in Seq(S), s # <<>>
  PROVE  /\ Len(s) \in Nat /\ Len(s) >= 1 /\ s[Len(s)] \in S
         /\ SubSeq(s, 1, Len(s) - 1) \in Seq(S)
         /\ Len(SubSeq(s, 1, Len(s) - 1)) = Len(s) - 1
         /\ \A i \in 1..Len(s) - 1 : SubSeq(s, 1, Len(s) - 1)[i] = s[i]
<1> DEFINE short == SubSeq(s, 1, Len(s) - 1)
<1>1. Len(s) \in Nat /\ Len(s) >= 1 /\ s[Len(s)] \in S
  OBVIOUS
<1>2. 1 \in Int /\ Len(s) - 1 \in Int /\ \A i \in 1..Len(s) - 1 : s[i] \in S
  BY <1>1
<1>3. /\ short \in Seq(S)
      /\ Len(short) = IF 1 <= Len(s) - 1 THEN (Len(s) - 1) - 1 + 1 ELSE 0
      /\ \A i \in 1..(Len(s) - 1) - 1 + 1 : short[i] = s[1 + i - 1]
  BY <1>2, SubSeqProperties
<1> HIDE DEF short
<1>4. Len(short) = Len(s) - 1
  <2>1. CASE Len(s) = 1
    <3>1. ~(1 <= Len(s) - 1) /\ Len(s) - 1 = 0
      BY <1>1, <2>1
    <3> QED
      BY <1>3, <3>1
  <2>2. CASE Len(s) # 1
    <3>1. \A n \in Nat : n >= 1 /\ n # 1 => 1 <= n - 1 /\ (n - 1) - 1 + 1 = n - 1
      OBVIOUS
    <3>2. 1 <= Len(s) - 1 /\ (Len(s) - 1) - 1 + 1 = Len(s) - 1
      BY <1>1, <2>2, <3>1
    <3> QED
      BY <1>3, <3>2
  <2> QED
    BY <2>1, <2>2
<1>5. ASSUME NEW i \in 1..Len(s) - 1 PROVE short[i] = s[i]
  <2>1. i \in 1..(Len(s) - 1) - 1 + 1 /\ 1 + i - 1 = i
    BY <1>1
  <2> QED
    BY <1>3, <2>1
<1> QED
  BY <1>1, <1>3, <1>4, <1>5 DEF short

(* The text is a sequence of characters.                                   *)
LEMMA SourceType == TypeOK => source \in Seq(Char) /\ Len(source) \in Nat
  BY TextsAreTexts DEF TypeOK

(* The cursor is a number, and a position can be copied.                   *)
LEMMA CursorType == Typed => Cursor \in Int /\ Here \in Place
  BY SourceType DEF Typed, TypeOK, Cursor, Here, Place

(* readchar() keeps the types of the stream and of the position, whatever  *)
(* it finds: a put-back character, the next of the text, or its end.       *)
LEMMA ReadTypes ==
  ASSUME Typed, ReadChar, source' = source
  PROVE  StreamOK' /\ ch' \in Char \union {EOF}
<1>1. source \in Seq(Char) /\ Len(source) \in Nat
  BY SourceType DEF Typed
<1>2. Stream!NextChar \in Char \union {EOF}
  BY <1>1 DEF Typed, TypeOK, Stream!NextChar
<1>3. pos' \in 0..Len(source) /\ buffer' \in Seq(Char)
  <2>1. pos \in 0..Len(source) /\ buffer \in Seq(Char) /\ Stream!Take
    BY DEF ReadChar, Typed, TypeOK
  <2>2. CASE buffer # <<>>
    BY <2>1, <2>2, Front DEF Stream!Take
  <2>3. CASE buffer = <<>>
    BY <1>1, <2>1, <2>3 DEF Stream!Take
  <2> QED
    BY <2>2, <2>3
<1>4. seek' \in 0..MaxSize /\ row' \in Nat /\ col' \in Nat /\ last_col' \in Nat
  BY MaxSizeIsNat DEF ReadChar, Up, Typed, TypeOK
<1> QED
  BY <1>2, <1>3, <1>4 DEF ReadChar, StreamOK

(* putback() keeps them as long as its assertions hold.                    *)
LEMMA PutbackTypes ==
  ASSUME Typed, NEW c \in Char \union {EOF}, MayPutback(c), Putback(c), source' = source
  PROVE  StreamOK'
<1>1. seek' \in 0..MaxSize
  BY MaxSizeIsNat DEF Putback, Down, Typed, TypeOK
<1>2. pos' \in 0..Len(source) /\ buffer' \in Seq(Char)
  <2>1. pos \in 0..Len(source) /\ buffer \in Seq(Char)
    BY DEF Typed, TypeOK
  <2>2. CASE c = EOF
    BY <2>1, <2>2 DEF Putback, stream
  <2>3. CASE c # EOF
    BY <2>1, <2>3, AppendProperties DEF Putback, Stream!Push
  <2> QED
    BY <2>2, <2>3
<1>3. row' \in Nat /\ col' \in Nat /\ last_col' \in Nat
  BY DEF Putback, MayPutback, Typed, TypeOK
<1> QED
  BY <1>1, <1>2, <1>3 DEF StreamOK

(* Whatever advance() answers with, and where it stops.                    *)
LEMMA ReturnTyped ==
  ASSUME Typed, NEW type, NEW view \in Seq(Marked), NEW where \in Place,
         Return(type, view, where), StreamOK'
  PROVE  Typed'
<1>1. token'.view \in Seq(Marked) /\ token'.at \in Place
  BY DEF Return
<1> QED
  BY <1>1 DEF Return, StreamOK, Typed, TypeOK, AccOK, call, Labels

(* The same of an answer that leaves the stream alone.                     *)
LEMMA ReturnHereTyped ==
  ASSUME Typed, NEW type, NEW view \in Seq(Marked), NEW where \in Place,
         ReturnHere(type, view, where)
  PROVE  Typed'
<1>1. StreamOK'
  BY DEF ReturnHere, Return, StreamOK, Typed, TypeOK, stream, place, call
<1> QED
  BY <1>1, ReturnTyped DEF ReturnHere

(* A failed assertion changes nothing but where the call stands.           *)
LEMMA AbortTyped == Typed /\ Abort => Typed'
  BY DEF Abort, Typed, TypeOK, AccOK, stream, place, call, Labels

(* A second element after the only one.                                    *)
LEMMA AppendTwo ==
  ASSUME NEW S, NEW s \in Seq(S), NEW x \in S, Len(s) = 1
  PROVE  /\ Append(s, x) \in Seq(S) /\ Len(Append(s, x)) = 2
         /\ Append(s, x)[1] = s[1] /\ Append(s, x)[2] = x
<1>1. Len(s) + 1 = 2 /\ 1 \in 1..Len(s)
  OBVIOUS
<1>2. Append(s, x) \in Seq(S) /\ Len(Append(s, x)) = Len(s) + 1
  BY AppendProperties
<1>3. Append(s, x)[1] = s[1]
  BY <1>1, AppendProperties
<1>4. Append(s, x)[2] = x
  BY <1>1, AppendProperties
<1> QED
  BY <1>1, <1>2, <1>3, <1>4

(* Views are made of marked characters.                                    *)
LEMMA ViewTypes ==
  Typed => /\ ch \in Marked /\ acc \in Seq(Marked) /\ <<>> \in Seq(Marked)
           /\ Append(acc, ch) \in Seq(Marked) /\ Append(acc, "n") \in Seq(Marked)
  BY AppendProperties DEF Typed, TypeOK, Marked

(* Blanks, comments and the question of the slash keep the types.          *)
LEMMA BlanksTyped == Typed /\ Blanks => Typed'
<1> SUFFICES ASSUME Typed, Blanks PROVE Typed'
  OBVIOUS
<1> USE DEF Typed, TypeOK, AccOK, StreamOK, Labels, Marked, call, stream, place
<1>1. CASE SkipSpace
  BY <1>1, ReadTypes, PutbackTypes, CursorType, AppendProperties, SourceType
     DEF SkipSpace, Read, Goto, ReturnHere, Return, PushAndRead, PutbackThen, Abort
<1>2. CASE Slash
  BY <1>2, ReadTypes, PutbackTypes, CursorType, AppendProperties, SourceType, EofIsNoSpelling
     DEF Slash, Read, Goto, ReturnHere, Return, PushAndRead, PutbackThen, Abort
<1>3. CASE LexemeStart
  BY <1>3, ReadTypes, PutbackTypes, CursorType, AppendProperties, SourceType
     DEF LexemeStart, Read, Goto, ReturnHere, Return, PushAndRead, PutbackThen, Abort
<1>4. CASE SlashAtEnd
  <2>1. <<"/">> \in Seq(Marked)
    BY <1>4 DEF SlashAtEnd
  <2>2. ReturnHere("DIV", <<"/">>, Here)
    BY <1>4 DEF SlashAtEnd
  <2> HIDE DEF Typed, TypeOK, AccOK, StreamOK, Labels, Marked, call, stream, place
  <2> QED
    BY <2>1, <2>2, ReturnHereTyped, CursorType
<1>5. CASE LineCommentStart
  BY <1>5, ReadTypes, PutbackTypes, CursorType, AppendProperties, SourceType
     DEF LineCommentStart, Read, Goto, ReturnHere, Return, PushAndRead, PutbackThen, Abort
<1>6. CASE LineComment
  BY <1>6, ReadTypes, PutbackTypes, CursorType, AppendProperties, SourceType
     DEF LineComment, Read, Goto, ReturnHere, Return, PushAndRead, PutbackThen, Abort
<1>7. CASE BlockCommentStart
  BY <1>7, ReadTypes, PutbackTypes, CursorType, AppendProperties, SourceType
     DEF BlockCommentStart, Read, Goto, ReturnHere, Return, PushAndRead, PutbackThen, Abort
<1>8. CASE BlockComment
  BY <1>8, ReadTypes, PutbackTypes, CursorType, AppendProperties, SourceType
     DEF BlockComment, Read, Goto, ReturnHere, Return, PushAndRead, PutbackThen, Abort
<1>9. CASE BlockCommentEnd
  <2> HIDE DEF AccOK
  <2>1. CASE ch = EOF
    <3>1. ReturnHere("ERROR", <<>>, Here)
      BY <1>9, <2>1 DEF BlockCommentEnd
    <3> HIDE DEF Typed, TypeOK, AccOK, StreamOK, Labels, Marked, call, stream, place
    <3> QED
      BY <3>1, ReturnHereTyped, ViewTypes, CursorType
  <2> QED
    BY <1>9, <2>1 DEF BlockCommentEnd, Goto, AccOK
<1>10. CASE SlashAlone
  <2>1. CASE MayPutback(ch)
    <3>1. StreamOK'
      BY <1>10, <2>1, PutbackTypes DEF SlashAlone, PutbackThen, Return, Goto, call
    <3> QED
      BY <1>10, <2>1, <3>1 DEF SlashAlone, PutbackThen, Goto
  <2> QED
    BY <1>10, <2>1, AbortTyped DEF SlashAlone, PutbackThen
<1> QED
  BY <1>1, <1>2, <1>3, <1>4, <1>5, <1>6, <1>7, <1>8, <1>9, <1>10 DEF Blanks

(* parseRegex keeps the types.                                             *)
LEMMA ParseRegexTyped == Typed /\ ParseRegex => Typed'
<1> SUFFICES ASSUME Typed, ParseRegex PROVE Typed'
  OBVIOUS
<1> USE DEF Typed, TypeOK, AccOK, StreamOK, Labels, Marked, call, stream, place
<1>1. CASE RegexStart
  BY <1>1, ReadTypes, PutbackTypes, CursorType, AppendProperties, SourceType
     DEF RegexStart, Read, Goto, ReturnHere, Return, PushAndRead, PutbackThen, Abort
<1>2. CASE RegexBody
  BY <1>2, ReadTypes, PutbackTypes, CursorType, AppendProperties, SourceType
     DEF RegexBody, Read, Goto, ReturnHere, Return, PushAndRead, PutbackThen, Abort
<1>3. CASE RegexEscaped
  BY <1>3, ReadTypes, PutbackTypes, CursorType, AppendProperties, SourceType
     DEF RegexEscaped, Read, Goto, ReturnHere, Return, PushAndRead, PutbackThen, Abort
<1>4. CASE RegexClass
  BY <1>4, ReadTypes, PutbackTypes, CursorType, AppendProperties, SourceType
     DEF RegexClass, Read, Goto, ReturnHere, Return, PushAndRead, PutbackThen, Abort
<1>5. CASE RegexClassBody
  BY <1>5, ReadTypes, PutbackTypes, CursorType, AppendProperties, SourceType
     DEF RegexClassBody, Read, Goto, ReturnHere, Return, PushAndRead, PutbackThen, Abort
<1>6. CASE RegexClassEscaped
  BY <1>6, ReadTypes, PutbackTypes, CursorType, AppendProperties, SourceType
     DEF RegexClassEscaped, Read, Goto, ReturnHere, Return, PushAndRead, PutbackThen, Abort
<1>7. CASE RegexClassUnclosed
  BY <1>7, ReadTypes, PutbackTypes, CursorType, AppendProperties, SourceType
     DEF RegexClassUnclosed, Read, Goto, ReturnHere, Return, PushAndRead, PutbackThen, Abort
<1>8. CASE RegexClassEnd
  BY <1>8, ReadTypes, PutbackTypes, CursorType, AppendProperties, SourceType
     DEF RegexClassEnd, Read, Goto, ReturnHere, Return, PushAndRead, PutbackThen, Abort
<1>9. CASE RegexEnd
  BY <1>9, ReadTypes, PutbackTypes, CursorType, AppendProperties, SourceType
     DEF RegexEnd, Read, Goto, ReturnHere, Return, PushAndRead, PutbackThen, Abort
<1>10. CASE RegexFlags
  BY <1>10, ReadTypes, PutbackTypes, CursorType, AppendProperties, SourceType
     DEF RegexFlags, Read, Goto, ReturnHere, Return, PushAndRead, PutbackThen, Abort
<1>11. CASE RegexReturn
  <2>1. CASE MayPutback(ch)
    <3>1. StreamOK'
      BY <1>11, <2>1, PutbackTypes DEF RegexReturn, PutbackThen, Return, call
    <3> QED
      BY <1>11, <2>1, <3>1, ReturnTyped, ViewTypes DEF RegexReturn, PutbackThen
  <2> QED
    BY <1>11, <2>1, AbortTyped DEF RegexReturn, PutbackThen
<1>12. CASE RegexFail
  BY <1>12, ReadTypes, PutbackTypes, CursorType, AppendProperties, SourceType
     DEF RegexFail, Read, Goto, ReturnHere, Return, PushAndRead, PutbackThen, Abort
<1>13. CASE RegexUnread
  <2>1. acc \in Seq(Char \union {EOF}) /\ acc # <<>> /\ PutbackThen(acc[Len(acc)], /\ acc' = SubSeq(acc, 1, Len(acc) - 1)
                                /\ Goto("unread")
                                /\ UNCHANGED <<ch, last, mark, start>>)
    BY <1>13 DEF RegexUnread
  <2>2. acc[Len(acc)] \in Char \union {EOF} /\ SubSeq(acc, 1, Len(acc) - 1) \in Seq(Char \union {EOF})
        /\ SubSeq(acc, 1, Len(acc) - 1) \in Seq(Marked)
    BY <2>1, Front
  <2>3. CASE MayPutback(acc[Len(acc)])
    <3>1. StreamOK'
      BY <2>1, <2>2, <2>3, PutbackTypes DEF PutbackThen, Goto
    <3> QED
      BY <1>13, <2>1, <2>2, <2>3, <3>1 DEF PutbackThen, Goto, RegexUnread
  <2> QED
    BY <2>1, <2>3, AbortTyped DEF PutbackThen
<1>14. CASE RegexUnreadDone
  BY <1>14, ReadTypes, PutbackTypes, CursorType, AppendProperties, SourceType
     DEF RegexUnreadDone, Read, Goto, ReturnHere, Return, PushAndRead, PutbackThen, Abort
<1> QED
  BY <1>1, <1>2, <1>3, <1>4, <1>5, <1>6, <1>7, <1>8, <1>9, <1>10, <1>11, <1>12, <1>13, <1>14 DEF ParseRegex

(* Names and symbols keep the types.                                       *)
LEMMA SymbolsTyped == Typed /\ Symbols => Typed'
<1> SUFFICES ASSUME Typed, Symbols PROVE Typed'
  OBVIOUS
<1> USE DEF Typed, TypeOK, AccOK, StreamOK, Labels, Marked, call, stream, place
<1>1. CASE Identifier
  BY <1>1, ReadTypes, PutbackTypes, CursorType, AppendProperties, SourceType
     DEF Identifier, Read, Goto, ReturnHere, Return, PushAndRead, PutbackThen, Abort
<1>2. CASE IdentifierBody
  BY <1>2, ReadTypes, PutbackTypes, CursorType, AppendProperties, SourceType
     DEF IdentifierBody, Read, Goto, ReturnHere, Return, PushAndRead, PutbackThen, Abort
<1>3. CASE IdentifierReturn
  <2>1. CASE MayPutback(ch)
    <3>1. StreamOK'
      BY <1>3, <2>1, PutbackTypes DEF IdentifierReturn, PutbackThen, Return, call
    <3> QED
      BY <1>3, <2>1, <3>1, ReturnTyped, ViewTypes DEF IdentifierReturn, PutbackThen
  <2> QED
    BY <1>3, <2>1, AbortTyped DEF IdentifierReturn, PutbackThen
<1>4. CASE EndOfFile
  BY <1>4, ReadTypes, PutbackTypes, CursorType, AppendProperties, SourceType
     DEF EndOfFile, Read, Goto, ReturnHere, Return, PushAndRead, PutbackThen, Abort
<1>5. CASE First
  BY <1>5, ReadTypes, PutbackTypes, CursorType, AppendProperties, SourceType
     DEF First, Read, Goto, ReturnHere, Return, PushAndRead, PutbackThen, Abort
<1>6. CASE Second
  <2>1. acc \in Seq(Marked) /\ Len(acc) = 1 /\ acc[1] \in Char \union {EOF} /\ ch \in Marked
    BY <1>6 DEF Second
  <2>2. /\ Append(acc, ch) \in Seq(Marked) /\ Len(Append(acc, ch)) = 2
        /\ Append(acc, ch)[1] = acc[1] /\ Append(acc, ch)[2] = ch
    <3> HIDE DEF Marked
    <3> QED
      BY <2>1, AppendTwo
  <2>3. StreamOK' /\ ch' \in Char \union {EOF}
    BY <1>6, ReadTypes DEF Second, PushAndRead, Read
  <2>4. acc' = Append(acc, ch) /\ pc' = "third"
    BY <1>6 DEF Second, PushAndRead, Read
  <2> QED
    BY <1>6, <2>1, <2>2, <2>3, <2>4 DEF Second, PushAndRead, Read
<1>7. CASE SecondIsEnd
  BY <1>7, ReadTypes, PutbackTypes, CursorType, AppendProperties, SourceType
     DEF SecondIsEnd, Read, Goto, ReturnHere, Return, PushAndRead, PutbackThen, Abort
<1>8. CASE ThreeCharacters
  BY <1>8, ReadTypes, PutbackTypes, CursorType, AppendProperties, SourceType
     DEF ThreeCharacters, Read, Goto, ReturnHere, Return, PushAndRead, PutbackThen, Abort
<1>9. CASE ShiftRight
  BY <1>9, ReadTypes, PutbackTypes, CursorType, AppendProperties, SourceType
     DEF ShiftRight, Read, Goto, ReturnHere, Return, PushAndRead, PutbackThen, Abort
<1>10. CASE Fourth
  <2>1. CASE ch = "="
    <3>1. ReturnHere("ASSIGN_SHR", Append(acc, ch), Here)
      BY <1>10, <2>1 DEF Fourth
    <3> HIDE DEF Typed, TypeOK, AccOK, StreamOK, Labels, Marked, call, stream, place
    <3> QED
      BY <3>1, ReturnHereTyped, ViewTypes, CursorType
  <2>2. CASE ch # "=" /\ MayPutback(ch)
    <3>1. Putback(ch) /\ Return("SHR", acc, mark)
      BY <1>10, <2>2 DEF Fourth, PutbackThen
    <3>2. StreamOK'
      BY <3>1, <2>2, PutbackTypes DEF Return
    <3> QED
      BY <3>1, <3>2 DEF Return
  <2>3. CASE ch # "=" /\ ~MayPutback(ch)
    BY <1>10, <2>3, AbortTyped DEF Fourth, PutbackThen
  <2> QED
    BY <2>1, <2>2, <2>3
<1>11. CASE ThirdBack
  BY <1>11, ReadTypes, PutbackTypes, CursorType, AppendProperties, SourceType
     DEF ThirdBack, Read, Goto, ReturnHere, Return, PushAndRead, PutbackThen, Abort
<1>12. CASE TwoCharacters
  BY <1>12, ReadTypes, PutbackTypes, CursorType, AppendProperties, SourceType
     DEF TwoCharacters, Read, Goto, ReturnHere, Return, PushAndRead, PutbackThen, Abort
<1>13. CASE SecondBack
  <2>1. Len(acc) = 2 /\ acc[1] \in Char \union {EOF} /\ acc[2] \in Char \union {EOF}
    BY <1>13 DEF SecondBack
  <2>2. CASE MayPutback(acc[2])
    <3>1. StreamOK'
      BY <1>13, <2>1, <2>2, PutbackTypes DEF SecondBack, PutbackThen, Goto
    <3>2. acc' = <<acc[1]>> /\ last' = acc[2] /\ pc' = "one" /\ UNCHANGED <<ch, mark, start, token, call>>
      BY <1>13, <2>2 DEF SecondBack, PutbackThen, Goto
    <3>3. acc' \in Seq(Marked) /\ Len(acc') = 1 /\ acc'[1] = acc[1]
      BY <2>1, <3>2
    <3> QED
      BY <2>1, <3>1, <3>2, <3>3
  <2> QED
    BY <1>13, <2>2, AbortTyped DEF SecondBack, PutbackThen
<1>14. CASE OneCharacter
  BY <1>14, ReadTypes, PutbackTypes, CursorType, AppendProperties, SourceType
     DEF OneCharacter, Read, Goto, ReturnHere, Return, PushAndRead, PutbackThen, Abort
<1>15. CASE Illegal
  BY <1>15, ReadTypes, PutbackTypes, CursorType, AppendProperties, SourceType
     DEF Illegal, Read, Goto, ReturnHere, Return, PushAndRead, PutbackThen, Abort
<1> QED
  BY <1>1, <1>2, <1>3, <1>4, <1>5, <1>6, <1>7, <1>8, <1>9, <1>10, <1>11, <1>12, <1>13, <1>14, <1>15 DEF Symbols

(* parseString and parseNumber keep the types.                             *)
LEMMA LiteralsTyped == Typed /\ Literals => Typed'
<1> SUFFICES ASSUME Typed, Literals PROVE Typed'
  OBVIOUS
<1> USE DEF Typed, TypeOK, AccOK, StreamOK, Labels, Marked, call, stream, place
<1>1. CASE StringStart
  BY <1>1, ReadTypes, PutbackTypes, CursorType, AppendProperties, SourceType
     DEF StringStart, Read, Goto, ReturnHere, Return, PushAndRead, PutbackThen, Abort
<1>2. CASE StringBody
  BY <1>2, ReadTypes, PutbackTypes, CursorType, AppendProperties, SourceType
     DEF StringBody, Read, Goto, ReturnHere, Return, PushAndRead, PutbackThen, Abort
<1>3. CASE StringEscaped
  BY <1>3, ReadTypes, PutbackTypes, CursorType, AppendProperties, SourceType
     DEF StringEscaped, Read, Goto, ReturnHere, Return, PushAndRead, PutbackThen, Abort
<1>4. CASE StringUnclosed
  BY <1>4, ReadTypes, PutbackTypes, CursorType, AppendProperties, SourceType
     DEF StringUnclosed, Read, Goto, ReturnHere, Return, PushAndRead, PutbackThen, Abort
<1>5. CASE StringReturn
  BY <1>5, ReadTypes, PutbackTypes, CursorType, AppendProperties, SourceType
     DEF StringReturn, Read, Goto, ReturnHere, Return, PushAndRead, PutbackThen, Abort
<1>6. CASE NumberStart
  BY <1>6, ReadTypes, PutbackTypes, CursorType, AppendProperties, SourceType
     DEF NumberStart, Read, Goto, ReturnHere, Return, PushAndRead, PutbackThen, Abort
<1>7. CASE RadixPrefix
  BY <1>7, ReadTypes, PutbackTypes, CursorType, AppendProperties, SourceType
     DEF RadixPrefix, Read, Goto, ReturnHere, Return, PushAndRead, PutbackThen, Abort
<1>8. CASE RadixDigits
  BY <1>8, ReadTypes, PutbackTypes, CursorType, AppendProperties, SourceType
     DEF RadixDigits, Read, Goto, ReturnHere, Return, PushAndRead, PutbackThen, Abort
<1>9. CASE NumberFirst
  BY <1>9, ReadTypes, PutbackTypes, CursorType, AppendProperties, SourceType
     DEF NumberFirst, Read, Goto, ReturnHere, Return, PushAndRead, PutbackThen, Abort
<1>10. CASE NumberNext
  BY <1>10, ReadTypes, PutbackTypes, CursorType, AppendProperties, SourceType
     DEF NumberNext, Read, Goto, ReturnHere, Return, PushAndRead, PutbackThen, Abort
<1>11. CASE NumberPush
  BY <1>11, ReadTypes, PutbackTypes, CursorType, AppendProperties, SourceType
     DEF NumberPush, Read, Goto, ReturnHere, Return, PushAndRead, PutbackThen, Abort
<1>12. CASE NumberReturn
  <2>1. CASE MayPutback(ch)
    <3>1. StreamOK'
      BY <1>12, <2>1, PutbackTypes DEF NumberReturn, PutbackThen, Return, call
    <3> QED
      BY <1>12, <2>1, <3>1, ReturnTyped, ViewTypes DEF NumberReturn, PutbackThen
  <2> QED
    BY <1>12, <2>1, AbortTyped DEF NumberReturn, PutbackThen
<1> QED
  BY <1>1, <1>2, <1>3, <1>4, <1>5, <1>6, <1>7, <1>8, <1>9, <1>10, <1>11, <1>12 DEF Literals

(* Every variable keeps its type, and every call its collected characters. *)
LEMMA AlwaysTyped == Spec => []Typed
<1>1. Init => Typed
  <2> SUFFICES ASSUME Init PROVE Typed
    OBVIOUS
  <2>1. source \in Seq(Char) /\ 0 \in 0..Len(source) /\ 0 \in 0..MaxSize /\ 0 \in Nat
    BY TextsAreTexts, MaxSizeIsNat DEF Init
  <2>2. Here \in Place /\ token.view = <<>> /\ token.at \in Place /\ token.at = Here
    BY <2>1 DEF Init, Here, Place, NoToken
  <2> QED
    <3>1. AccOK
      BY <2>1 DEF Init, AccOK
    <3>2. TypeOK
      <4>1. notRegex \in BOOLEAN /\ started \in BOOLEAN /\ resets \in BOOLEAN
        BY DEF Init
      <4>2. source \in Texts \union NextTexts /\ pc \in Labels /\ mark = Here
        BY DEF Init, Labels
      <4>3. <<>> \in Seq(Char) /\ <<>> \in Seq(Marked)
        OBVIOUS
      <4>4. buffer = <<>> /\ acc = <<>>
        BY DEF Init
      <4> QED
        BY <2>1, <2>2, <4>1, <4>2, <4>3, <4>4 DEF Init, TypeOK
    <3> QED
      BY <3>1, <3>2 DEF Typed
<1>2. Typed /\ [Next]_vars => Typed'
  <2> SUFFICES ASSUME Typed, [Next]_vars PROVE Typed'
    OBVIOUS
  <2>1. CASE Step
    BY <2>1, BlanksTyped, ParseRegexTyped, SymbolsTyped, LiteralsTyped DEF Step
  <2>2. ASSUME NEW mode \in BOOLEAN, Call(mode) PROVE Typed'
    <3>1. StreamOK' /\ ch' \in Char \union {EOF} /\ Cursor \in Int
      BY <2>2, ReadTypes, CursorType DEF Call
    <3> QED
      BY <2>2, <3>1 DEF Call, Typed, TypeOK, AccOK, StreamOK, Labels
  <2>3. CASE Reset
    <3>1. source' \in Seq(Char) /\ 0 \in 0..Len(source') /\ 0 \in 0..MaxSize
      BY <2>3, TextsAreTexts, MaxSizeIsNat DEF Reset
    <3> QED
      <4>1. AccOK'
        BY <2>3 DEF Reset, Typed, AccOK
      <4>2. TypeOK'
        <5>1. notRegex' \in BOOLEAN /\ started' \in BOOLEAN /\ resets' \in BOOLEAN
          BY <2>3 DEF Reset, Typed, TypeOK
        <5>2. source' \in Texts \union NextTexts /\ pc' \in Labels
          BY <2>3 DEF Reset, Typed, TypeOK
        <5>3. <<>> \in Seq(Char) /\ buffer' = <<>>
          BY <2>3 DEF Reset
        <5>4. UNCHANGED <<token, ch, last, acc, mark>>
          BY <2>3 DEF Reset
        <5> QED
          BY <2>3, <3>1, <5>1, <5>2, <5>3, <5>4 DEF Reset, Typed, TypeOK
      <4> QED
        BY <4>1, <4>2 DEF Typed
  <2>4. CASE UNCHANGED vars
    BY <2>4 DEF Typed, TypeOK, AccOK, vars, stream, place, call
  <2> QED
    BY <2>1, <2>2, <2>3, <2>4, ModesAreBooleans DEF Next, Advance, Peek, Aborted
<1> QED
  BY <1>1, <1>2, PTL DEF Spec

(* The type invariant: whatever the text and whatever is put back when, no *)
(* step takes seek_, the row, the column or the local strings out of their *)
(* types.                                                                  *)
THEOREM TokenizerTypes == Spec => []TypeOK
  BY AlwaysTyped, PTL DEF Typed

-----------------------------------------------------------------------------
(* The tape: the text with EOF at every place past its end.                *)

CharAt(n) == IF n <= Len(source) THEN source[n] ELSE EOF

(* n places of the tape have been read: the cursor stops at the last of    *)
(* the text.                                                               *)
Placed(n) == Cursor = IF n <= Len(source) THEN n ELSE Len(source)

Reads(n) == ch = CharAt(n) /\ Placed(n)

(* What has been put back is what was read last.                           *)
Suffix ==
  /\ Len(buffer) <= pos
  /\ \A j \in 1..Len(buffer) : buffer[j] = source[pos + 1 - j]

(* The stream's part of the type invariant.                                *)
LEMMA StreamTypes ==
  Typed => /\ source \in Seq(Char) /\ Len(source) \in Nat
           /\ pos \in Nat /\ pos <= Len(source)
           /\ buffer \in Seq(Char) /\ Len(buffer) \in Nat
           /\ Cursor \in Int /\ Cursor <= Len(source)
  BY SourceType DEF Typed, TypeOK, Cursor

(* A read moves one place on along the tape.                               *)
LEMMA ReadOn ==
  ASSUME Typed, Suffix, ReadChar, source' = source, NEW n \in Nat, Placed(n)
  PROVE  Suffix' /\ Reads(n + 1)'
<1>1. /\ source \in Seq(Char) /\ Len(source) \in Nat
      /\ pos \in Nat /\ pos <= Len(source)
      /\ buffer \in Seq(Char) /\ Len(buffer) \in Nat
  BY StreamTypes
<1>2. ch' = Stream!NextChar /\ Stream!Take
  BY DEF ReadChar
<1>3. CASE buffer # <<>>
  <2>1. /\ Len(buffer) >= 1
        /\ buffer' = SubSeq(buffer, 1, Len(buffer) - 1) /\ pos' = pos
        /\ Len(buffer') = Len(buffer) - 1
        /\ \A i \in 1..Len(buffer) - 1 : buffer'[i] = buffer[i]
    BY <1>1, <1>2, <1>3, Front DEF Stream!Take
  <2>2. Cursor = n /\ n + 1 <= Len(source) /\ Cursor' = n + 1 /\ pos + 1 - Len(buffer) = n + 1
    <3>1. Cursor = pos - Len(buffer) /\ Cursor' = pos' - Len(buffer')
      BY DEF Cursor
    <3>2. Cursor < Len(source) /\ Cursor' = Cursor + 1 /\ Cursor = IF n <= Len(source) THEN n ELSE Len(source)
      <4>1. Len(buffer) >= 1 /\ pos' = pos /\ Len(buffer') = Len(buffer) - 1
        BY <2>1
      <4> QED
        BY <1>1, <3>1, <4>1 DEF Placed
    <3> QED
      BY <1>1, <3>1, <3>2
  <2>3. ch' = source[n + 1]
    <3>1. ch' = buffer[Len(buffer)] /\ Len(buffer) \in 1..Len(buffer)
      BY <1>1, <1>2, <1>3, <2>1 DEF Stream!NextChar
    <3>2. buffer[Len(buffer)] = source[pos + 1 - Len(buffer)]
      BY <3>1 DEF Suffix
    <3> QED
      BY <2>2, <3>1, <3>2
  <2>4. Suffix'
    BY <1>1, <2>1 DEF Suffix
  <2> QED
    BY <2>2, <2>3, <2>4 DEF Reads, Placed, CharAt
<1>4. CASE buffer = <<>> /\ pos < Len(source)
  <2>1. /\ ch' = source[pos + 1] /\ pos' = pos + 1 /\ buffer' = <<>> /\ Len(buffer') = 0
        /\ Cursor = pos /\ Cursor' = pos + 1
    BY <1>1, <1>2, <1>4 DEF Stream!NextChar, Stream!Take, Cursor
  <2>2. n = pos
    BY <1>1, <1>4, <2>1 DEF Placed
  <2>3. Suffix'
    BY <1>1, <2>1 DEF Suffix
  <2> QED
    BY <1>1, <1>4, <2>1, <2>2, <2>3 DEF Reads, Placed, CharAt
<1>5. CASE buffer = <<>> /\ pos = Len(source)
  <2>1. /\ ch' = EOF /\ pos' = pos /\ buffer' = <<>> /\ Len(buffer') = 0
        /\ Cursor = Len(source) /\ Cursor' = Len(source)
    BY <1>1, <1>2, <1>5 DEF Stream!NextChar, Stream!Take, Cursor
  <2>2. n >= Len(source)
    BY <1>1, <2>1 DEF Placed
  <2>3. Suffix'
    BY <1>1, <2>1 DEF Suffix
  <2> QED
    BY <1>1, <2>1, <2>2, <2>3 DEF Reads, Placed, CharAt
<1> QED
  BY <1>1, <1>3, <1>4, <1>5

(* Putting back what was read last moves one place back.                   *)
LEMMA PutBackAt ==
  ASSUME Typed, Suffix, source' = source, NEW n \in Nat \ {0}, Placed(n), Putback(CharAt(n))
  PROVE  Suffix' /\ Placed(n - 1)'
<1>1. /\ source \in Seq(Char) /\ Len(source) \in Nat
      /\ pos \in Nat /\ pos <= Len(source)
      /\ buffer \in Seq(Char) /\ Len(buffer) \in Nat
  BY StreamTypes
<1>2. CASE n <= Len(source)
  <2>1. CharAt(n) = source[n] /\ source[n] \in Char /\ CharAt(n) # EOF /\ Cursor = n
    BY <1>1, <1>2, EofIsNoCharacter DEF CharAt, Placed
  <2>2. buffer' = Append(buffer, source[n]) /\ pos' = pos
    BY <2>1 DEF Putback, Stream!Push
  <2>3. /\ Len(buffer') = Len(buffer) + 1
        /\ \A i \in 1..Len(buffer) : buffer'[i] = buffer[i]
        /\ buffer'[Len(buffer) + 1] = source[n]
    BY <1>1, <2>1, <2>2, AppendProperties
  <2>4. Cursor' = n - 1 /\ Len(buffer') <= pos' /\ pos + 1 - (Len(buffer) + 1) = n
    BY <1>1, <2>1, <2>2, <2>3 DEF Cursor
  <2>5. Suffix'
    BY <1>1, <2>2, <2>3, <2>4 DEF Suffix
  <2> QED
    BY <1>1, <1>2, <2>4, <2>5 DEF Placed
<1>3. CASE n > Len(source)
  <2>1. Cursor = Len(source) /\ UNCHANGED <<pos, buffer>>
    BY <1>1, <1>3 DEF Placed, CharAt, Putback, stream
  <2> QED
    BY <1>1, <1>3, <2>1 DEF Placed, Cursor, Suffix
<1> QED
  BY <1>1, <1>2, <1>3

(* A step that leaves the stream alone moves nothing.                      *)
LEMMA StayPut ==
  ASSUME UNCHANGED <<source, stream>>, NEW n
  PROVE  /\ Suffix => Suffix'
         /\ Placed(n) => Placed(n)'
         /\ ch' = ch /\ Reads(n) => Reads(n)'
         /\ Cursor' = Cursor
  BY DEF stream, Suffix, Placed, Reads, CharAt, Cursor

(* The tape has characters up to the end of the text and EOF past it.      *)
LEMMA CharAtTypes ==
  ASSUME Typed, NEW n \in Nat \ {0}
  PROVE  /\ n <= Len(source) => CharAt(n) = source[n] /\ source[n] \in Char /\ CharAt(n) # EOF
         /\ n > Len(source) => CharAt(n) = EOF
         /\ CharAt(n) # EOF => n <= Len(source)
         /\ CharAt(n) \in Char \union {EOF}
  BY StreamTypes, EofIsNoCharacter DEF CharAt

(* What a call has collected from the tape, the first of it at place k.    *)
Spells(k) == \A i \in 1..Len(acc) : acc[i] = CharAt(k + i - 1)

Within(k) == k + Len(acc) - 1 <= Len(source)

(* buffer.push_back(ch); ch = readchar(): the collected text grows by the  *)
(* next place of the tape.                                                 *)
LEMMA PushOn ==
  ASSUME Typed, Suffix, NEW to, PushAndRead(to),
         NEW k \in Nat \ {0}, Spells(k), Reads(k + Len(acc))
  PROVE  /\ Suffix' /\ Spells(k)' /\ Reads(k + Len(acc))'
         /\ Len(acc') = Len(acc) + 1 /\ acc'[Len(acc) + 1] = ch
         /\ \A i \in 1..Len(acc) : acc'[i] = acc[i]
         /\ ch # EOF => Within(k)'
<1>1. /\ acc \in Seq(Marked) /\ Len(acc) \in Nat /\ ch \in Marked
      /\ Len(source) \in Nat
  BY StreamTypes DEF Typed, TypeOK, Marked
<1>2. acc' = Append(acc, ch) /\ ReadChar /\ source' = source
  BY DEF PushAndRead, Read, call
<1>3. /\ Len(acc') = Len(acc) + 1 /\ acc'[Len(acc) + 1] = ch
      /\ \A i \in 1..Len(acc) : acc'[i] = acc[i]
  BY <1>1, <1>2, AppendProperties
<1>4. PICK m \in Nat \ {0} : m = k + Len(acc)
  BY <1>1
<1>5. Placed(m) /\ ch = CharAt(m)
  BY <1>4 DEF Reads
<1>6. Suffix' /\ Reads(m + 1)'
  BY <1>2, <1>5, ReadOn
<1>7. m + 1 = k + Len(acc')
  BY <1>1, <1>3, <1>4
<1>8. Reads(k + Len(acc))'
  BY <1>6, <1>7, <1>2 DEF Reads, Placed, CharAt
<1>9. Spells(k)'
  <2> SUFFICES ASSUME NEW i \in 1..Len(acc') PROVE acc'[i] = CharAt(k + i - 1)'
    BY DEF Spells
  <2>1. CharAt(k + i - 1)' = CharAt(k + i - 1)
    BY <1>2 DEF CharAt
  <2>2. CASE i \in 1..Len(acc)
    BY <2>1, <2>2, <1>3 DEF Spells
  <2>3. CASE i = Len(acc) + 1
    <3>1. k + i - 1 = m
      BY <2>3, <1>1, <1>4
    <3> QED
      BY <2>1, <2>3, <3>1, <1>3, <1>5
  <2> QED
    BY <2>2, <2>3, <1>1, <1>3
<1>10. ch # EOF => Within(k)'
  <2> SUFFICES ASSUME ch # EOF PROVE Within(k)'
    OBVIOUS
  <2>1. m <= Len(source)
    BY <1>5, <1>4, CharAtTypes
  <2> QED
    BY <2>1, <1>1, <1>2, <1>3, <1>4 DEF Within
<1> QED
  BY <1>3, <1>6, <1>8, <1>9, <1>10

InScan(k) == \E n \in k + 1..Len(source) + 1 : Reads(n)

(* Where a lexeme is being read, one whose first character is a slash.     *)
Lexical ==
  {"slash", "line", "block", "blockEnd", "regexStart", "regex", "regexEscaped",
   "class", "classEscaped", "flags", "unread", "identifier", "second", "third",
   "fourth", "two", "one", "string", "stringEscaped", "number", "hex", "bin",
   "decimal", "digit"}

Slashed ==
  {"slash", "line", "block", "blockEnd", "regexStart", "regex", "regexEscaped",
   "flags", "unread"}

(* The collected characters of a regular expression: its body, the marker  *)
(* for the closing slash, its flags.                                       *)
MarkedRegex ==
  \E b \in 1..Len(acc) :
    /\ acc[b] = "marker" /\ source[start + b] = "/"
    /\ \A i \in 1..Len(acc) : i # b => acc[i] = source[start + i]
    /\ \A i \in b + 1..Len(acc) : acc[i] \in RegexFlag

(* Where the cursor stands on the tape and what has been collected from    *)
(* it, at every point of a call.                                           *)
Tape ==
  /\ Suffix
  /\ from \in 0..Len(source)
  /\ pc \in Lexical => start \in from + 1..Len(source)
  /\ pc \in Slashed => source[start] = "/"
  /\ pc \notin {"class", "classEscaped"}
  /\ pc = "scan" => InScan(from)
  /\ pc \in {"line", "block", "blockEnd"} => InScan(start)
  /\ pc = "slash" => Reads(start + 1)
  /\ pc = "regexStart" => Reads(start)
  /\ pc = "token" =>
       IF ch = EOF THEN Cursor = Len(source) /\ start = Cursor
       ELSE start \in from + 1..Len(source) /\ Reads(start)
  /\ pc \in {"regex", "regexEscaped"} => Spells(start + 1) /\ Reads(start + 1 + Len(acc))
  /\ pc = "unread" => Spells(start + 1) /\ Placed(start + Len(acc))
  /\ pc = "flags" => Reads(start + 1 + Len(acc)) /\ Within(start + 1) /\ MarkedRegex
  /\ pc = "identifier" =>
       /\ Reads(start + Len(acc)) /\ Spells(start) /\ Within(start)
       /\ acc # <<>> /\ acc[1] \in IdentifierStart
  /\ pc = "second" => Reads(start + 1) /\ Spells(start)
  /\ pc = "third" => Reads(start + 2) /\ Spells(start)
  /\ pc = "fourth" =>
       Reads(start + 3) /\ Spells(start) /\ Within(start) /\ acc = <<">", ">", ">">>
  /\ pc = "two" => Placed(start + 1) /\ Spells(start) /\ Within(start)
  /\ pc = "one" => Placed(start) /\ Spells(start) /\ last = CharAt(start + 1)
  /\ pc \in {"string", "stringEscaped"} =>
       /\ Reads(start + 1 + Len(acc)) /\ Spells(start + 1) /\ Within(start + 1)
       /\ last = source[start] /\ last \in QuoteMark
  /\ pc \in {"number", "hex", "bin", "digit"} =>
       Reads(start + Len(acc)) /\ Spells(start) /\ Within(start) /\ acc # <<>>
  /\ pc = "decimal" =>
       /\ Spells(start) /\ Within(start) /\ acc # <<>>
       /\ IF ch = EOF THEN Reads(start + Len(acc)) ELSE Len(acc) > 1 /\ Reads(start + Len(acc) - 1)

(* How a step moves the stream: it reads on, puts back what was read last, *)
(* or leaves stream and position alone.                                    *)
Moved ==
  /\ source' = source
  /\ \/ ReadChar
     \/ UNCHANGED <<stream, place>>
     \/ \E n \in Nat \ {0} : Placed(n) /\ MayPutback(CharAt(n)) /\ Putback(CharAt(n))

(* Reading on stays on the tape, whose end is read any number of times.    *)
LEMMA ReadInScan ==
  ASSUME Typed, Suffix, ReadChar, source' = source, start' = start, start \in Nat, InScan(start)
  PROVE  Suffix' /\ InScan(start)'
<1>1. PICK n \in start + 1..Len(source) + 1 : Reads(n)
  BY DEF InScan
<1>2. Len(source) \in Nat /\ n \in Nat \ {0} /\ Placed(n)
  BY <1>1, StreamTypes DEF Reads
<1>3. Suffix' /\ Reads(n + 1)'
  BY <1>2, ReadOn
<1>4. CASE n <= Len(source)
  BY <1>1, <1>2, <1>3, <1>4 DEF InScan
<1>5. CASE n = Len(source) + 1
  <2>1. Reads(n)'
    BY <1>2, <1>3, <1>5 DEF Reads, Placed, CharAt
  <2> QED
    BY <1>1, <1>2, <1>3, <2>1 DEF InScan
<1> QED
  BY <1>1, <1>2, <1>4, <1>5

(* Between calls the tape has to be a suffix still, nothing more.          *)
LEMMA Landing ==
  ASSUME Tape, UNCHANGED <<source, from>>, Suffix', pc' \in {"idle", "abort"}
  PROVE  Tape'
  BY DEF Tape, Lexical, Slashed

(* An answer or a failed assertion ends the call where it stands.          *)
LEMMA ReturnTape ==
  ASSUME Tape, NEW type, NEW view, NEW where, ReturnHere(type, view, where)
  PROVE  Tape' /\ Moved
<1>1. UNCHANGED <<source, stream, place, from>> /\ pc' = "idle"
  BY DEF ReturnHere, Return, call
<1>2. Suffix'
  BY <1>1, StayPut DEF Tape
<1> QED
  BY <1>1, <1>2, Landing DEF Moved

(* An abort leaves the tape as it is.                                      *)
LEMMA AbortTape == Tape /\ Abort => Tape' /\ Moved
<1> SUFFICES ASSUME Tape, Abort PROVE Tape' /\ Moved
  OBVIOUS
<1>1. UNCHANGED <<source, stream, place, from>> /\ pc' = "abort"
  BY DEF Abort, call
<1>2. Suffix'
  BY <1>1, StayPut DEF Tape
<1> QED
  BY <1>1, <1>2, Landing DEF Moved

(* putback(ch) before an answer.                                           *)
LEMMA PutbackReturnTape ==
  ASSUME Typed, Tape, NEW n \in Nat \ {0}, Reads(n), NEW type, NEW view, NEW where,
         PutbackThen(ch, Return(type, view, where))
  PROVE  Tape' /\ Moved
<1>1. ch = CharAt(n) /\ Placed(n)
  BY DEF Reads
<1>2. CASE MayPutback(ch)
  <2>1. Putback(CharAt(n)) /\ UNCHANGED <<source, from>> /\ pc' = "idle"
    BY <1>1, <1>2 DEF PutbackThen, Return, call
  <2>2. Suffix'
    BY <1>1, <2>1, PutBackAt DEF Tape
  <2> QED
    BY <1>1, <1>2, <2>1, <2>2, Landing DEF Moved
<1> QED
  BY <1>2, AbortTape DEF PutbackThen

(* Blanks, comments and the question of the slash stay on the tape.        *)
LEMMA BlanksTape == Typed /\ ClassFree /\ Tape /\ Blanks => Tape' /\ Moved
<1> SUFFICES ASSUME Typed, ClassFree, Tape, Blanks PROVE Tape' /\ Moved
  OBVIOUS
<1> USE DEF Lexical, Slashed
<1>0. /\ Suffix /\ from \in 0..Len(source) /\ source \in Seq(Char) /\ Len(source) \in Nat
      /\ Cursor \in Int /\ \A n \in Nat \ {0} : CharAt(n) # EOF => n <= Len(source)
  BY StreamTypes, CharAtTypes DEF Tape
<1>1. CASE SkipSpace
  <2>1. PICK n \in from + 1..Len(source) + 1 : Reads(n)
    BY <1>1 DEF Tape, SkipSpace, InScan
  <2>2. ch # EOF
    BY <1>1, EofIsNoSpelling DEF SkipSpace, IsSpace
  <2>3. n \in Nat \ {0} /\ n <= Len(source)
    BY <1>0, <2>1, <2>2 DEF Reads
  <2>4. ReadChar /\ UNCHANGED <<source, from>> /\ pc' = "scan"
    BY <1>1 DEF SkipSpace, Read, call
  <2>5. Suffix' /\ Reads(n + 1)'
    BY <1>0, <2>1, <2>3, <2>4, ReadOn DEF Reads
  <2>6. InScan(from)'
    BY <1>0, <2>3, <2>4, <2>5 DEF InScan
  <2> QED
    BY <1>0, <2>4, <2>5, <2>6 DEF Tape, Moved
<1>2. CASE Slash
  <2>1. PICK n \in from + 1..Len(source) + 1 : Reads(n)
    BY <1>2 DEF Tape, Slash, InScan
  <2>2. ch = "/" /\ ch # EOF
    BY <1>2, EofIsNoSpelling DEF Slash
  <2>3. n \in Nat \ {0} /\ n <= Len(source) /\ n = Cursor /\ source[n] = "/"
    BY <1>0, <2>1, <2>2 DEF Reads, Placed, CharAt
  <2>4. ReadChar /\ UNCHANGED <<source, from>> /\ pc' = "slash" /\ start' = n
    BY <1>2, <2>3 DEF Slash, Read, call
  <2>5. Suffix' /\ Reads(n + 1)'
    BY <1>0, <2>1, <2>3, <2>4, ReadOn DEF Reads
  <2> QED
    BY <1>0, <2>1, <2>3, <2>4, <2>5 DEF Tape, Moved
<1>3. CASE LexemeStart
  <2>1. PICK n \in from + 1..Len(source) + 1 : Reads(n)
    BY <1>3 DEF Tape, LexemeStart, InScan
  <2>2. UNCHANGED <<source, stream, place, from, ch>> /\ pc' = "token" /\ start' = Cursor
    BY <1>3 DEF LexemeStart, Goto, call
  <2>3. Suffix' /\ Reads(n)' /\ Cursor' = Cursor
    BY <1>0, <2>1, <2>2, StayPut
  <2>4. IF ch' = EOF THEN Cursor' = Len(source') /\ start' = Cursor'
        ELSE start' \in from' + 1..Len(source') /\ Reads(n)' /\ start' = n
    <3>1. n \in Nat \ {0}
      BY <1>0, <2>1
    <3>2. CASE n <= Len(source)
      <4>1. ch = CharAt(n) /\ Cursor = n
        BY <2>1, <3>2 DEF Reads, Placed
      <4>2. ch' # EOF /\ start' = n
        BY <2>2, <3>1, <3>2, <4>1, CharAtTypes
      <4> QED
        BY <1>0, <2>1, <2>2, <2>3, <3>2, <4>2
    <3>3. CASE n > Len(source)
      BY <1>0, <2>1, <2>2, <2>3, <3>1, <3>3, CharAtTypes DEF Reads, Placed
    <3> QED
      BY <1>0, <2>1, <3>1, <3>2, <3>3
  <2> QED
    BY <1>0, <2>2, <2>3, <2>4 DEF Tape, Moved
<1>4. CASE SlashAtEnd
  BY <1>4, ReturnTape DEF SlashAtEnd
<1>5. CASE LineCommentStart
  <2>1. Reads(start + 1) /\ start \in from + 1..Len(source) /\ source[start] = "/"
    BY <1>5 DEF LineCommentStart, Tape
  <2>2. UNCHANGED <<source, stream, place, from, ch, start>> /\ pc' = "line"
    BY <1>5 DEF LineCommentStart, Goto, call
  <2>3. InScan(start)
    BY <1>0, <2>1 DEF InScan
  <2>4. Suffix' /\ InScan(start)'
    BY <1>0, <2>2, <2>3, StayPut DEF InScan
  <2> QED
    BY <1>0, <2>1, <2>2, <2>4 DEF Tape, Moved
<1>6. CASE LineComment
  <2>1. InScan(start) /\ start \in from + 1..Len(source) /\ source[start] = "/"
    BY <1>6 DEF LineComment, Tape
  <2>2. CASE ch # "\n"
    <3>1. ReadChar /\ UNCHANGED <<source, from, start>> /\ pc' = "line"
      BY <1>6, <2>2 DEF LineComment, Read, call
    <3>2. Suffix' /\ InScan(start)'
      BY <1>0, <2>1, <3>1, ReadInScan
    <3> QED
      BY <1>0, <2>1, <3>1, <3>2 DEF Tape, Moved
  <2>3. CASE ch = "\n"
    <3>1. UNCHANGED <<source, stream, place, from, ch, start>> /\ pc' = "scan"
      BY <1>6, <2>3 DEF LineComment, Goto, call
    <3>2. Suffix' /\ InScan(from)'
      BY <1>0, <2>1, <3>1, StayPut DEF InScan
    <3> QED
      BY <1>0, <3>1, <3>2 DEF Tape, Moved
  <2> QED
    BY <2>2, <2>3
<1>7. CASE BlockCommentStart
  <2>1. Reads(start + 1) /\ start \in from + 1..Len(source) /\ source[start] = "/"
    BY <1>7 DEF BlockCommentStart, Tape
  <2>2. ReadChar /\ UNCHANGED <<source, from, start>> /\ pc' = "block"
    BY <1>7 DEF BlockCommentStart, Read, call
  <2>3. Suffix' /\ InScan(start)'
    BY <1>0, <2>1, <2>2, ReadInScan DEF InScan
  <2> QED
    BY <1>0, <2>1, <2>2, <2>3 DEF Tape, Moved
<1>8. CASE BlockComment
  <2>1. InScan(start) /\ start \in from + 1..Len(source) /\ source[start] = "/"
    BY <1>8 DEF BlockComment, Tape
  <2>2. ReadChar /\ UNCHANGED <<source, from, start>> /\ pc' \in {"block", "blockEnd"}
    BY <1>8 DEF BlockComment, Read, call
  <2>3. Suffix' /\ InScan(start)'
    BY <1>0, <2>1, <2>2, ReadInScan
  <2> QED
    BY <1>0, <2>1, <2>2, <2>3 DEF Tape, Moved
<1>9. CASE BlockCommentEnd
  <2>1. InScan(start) /\ start \in from + 1..Len(source)
    BY <1>9 DEF BlockCommentEnd, Tape
  <2>2. CASE ch = EOF
    BY <1>9, <2>2, ReturnTape DEF BlockCommentEnd
  <2>3. CASE ch # EOF
    <3>1. UNCHANGED <<source, stream, place, from, ch, start>> /\ pc' = "scan"
      BY <1>9, <2>3 DEF BlockCommentEnd, Goto, call
    <3>2. Suffix' /\ InScan(from)'
      BY <1>0, <2>1, <3>1, StayPut DEF InScan
    <3> QED
      BY <1>0, <3>1, <3>2 DEF Tape, Moved
  <2> QED
    BY <2>2, <2>3
<1>10. CASE SlashAlone
  <2>1. Reads(start + 1) /\ start \in from + 1..Len(source) /\ source[start] = "/"
    BY <1>10 DEF SlashAlone, Tape
  <2>2. CASE MayPutback(ch)
    <3>1. /\ Putback(ch) /\ UNCHANGED <<source, from, start>> /\ ch' = "/"
          /\ pc' \in {"token", "regexStart"}
      BY <1>10, <2>2 DEF SlashAlone, PutbackThen, Goto, call
    <3>2. PICK n \in Nat \ {0} : n = start + 1
      BY <1>0, <2>1
    <3>3. Suffix' /\ Placed(n - 1)' /\ ch = CharAt(n) /\ Placed(n)
      BY <1>0, <2>1, <3>1, <3>2, PutBackAt DEF Reads
    <3>4. Reads(start)'
      BY <1>0, <2>1, <3>1, <3>2, <3>3 DEF Reads, Placed, CharAt
    <3>5. ch' # EOF
      BY <3>1, EofIsNoSpelling
    <3> QED
      BY <1>0, <2>1, <2>2, <3>1, <3>2, <3>3, <3>4, <3>5 DEF Tape, Moved
  <2> QED
    BY <1>10, <2>2, AbortTape DEF SlashAlone, PutbackThen
<1> QED
  BY <1>1, <1>2, <1>3, <1>4, <1>5, <1>6, <1>7, <1>8, <1>9, <1>10 DEF Blanks

(* parseRegex stays on the tape: given up, it puts back what it collected, *)
(* the last character first.                                               *)
LEMMA ParseRegexTape == Typed /\ ClassFree /\ Tape /\ ParseRegex => Tape' /\ Moved
<1> SUFFICES ASSUME Typed, ClassFree, Tape, ParseRegex PROVE Tape' /\ Moved
  OBVIOUS
<1> USE DEF Lexical, Slashed
<1>0. /\ Suffix /\ from \in 0..Len(source) /\ source \in Seq(Char) /\ Len(source) \in Nat
      /\ Cursor \in Int /\ \A n \in Nat \ {0} : CharAt(n) # EOF => n <= Len(source)
      /\ acc \in Seq(Marked) /\ Len(acc) \in Nat
  BY StreamTypes, CharAtTypes DEF Tape, Typed, TypeOK
<1>a. ASSUME pc \in {"regex", "regexEscaped"}
      PROVE  /\ start \in from + 1..Len(source) /\ start \in Nat /\ source[start] = "/"
             /\ Spells(start + 1) /\ Reads(start + 1 + Len(acc))
             /\ start + 1 + Len(acc) \in Nat \ {0} /\ start + 1 \in Nat \ {0}
  BY <1>0, <1>a DEF Tape
<1>1. CASE RegexStart
  <2>1. Reads(start) /\ start \in from + 1..Len(source) /\ source[start] = "/"
    BY <1>1 DEF RegexStart, Tape
  <2>2. ReadChar /\ UNCHANGED <<source, from, start>> /\ pc' = "regex" /\ acc' = <<>>
    BY <1>1 DEF RegexStart, Read, call
  <2>3. PICK n \in Nat \ {0} : n = start
    BY <1>0, <2>1
  <2>4. Suffix' /\ Reads(n + 1)'
    BY <1>0, <2>1, <2>2, <2>3, ReadOn DEF Reads
  <2>5. Reads(start + 1 + Len(acc))' /\ Spells(start + 1)'
    BY <1>0, <2>2, <2>3, <2>4 DEF Reads, Placed, CharAt, Spells
  <2> QED
    BY <1>0, <2>1, <2>2, <2>4, <2>5 DEF Tape, Moved
<1>b. ASSUME NEW to \in {"regex", "regexEscaped"}, pc \in {"regex", "regexEscaped"}, PushAndRead(to)
      PROVE  Tape' /\ Moved
  <2>1. PICK k \in Nat \ {0} : k = start + 1
    BY <1>a, <1>b
  <2>2. Suffix' /\ Spells(k)' /\ Reads(k + Len(acc))'
    BY <1>0, <1>a, <1>b, <2>1, PushOn
  <2>3. ReadChar /\ UNCHANGED <<source, from, start>> /\ pc' = to
    BY <1>b DEF PushAndRead, Read, call
  <2>4. Spells(start + 1)' /\ Reads(start + 1 + Len(acc))'
    BY <2>1, <2>2, <2>3 DEF Spells, Reads, Placed, CharAt
  <2> QED
    BY <1>0, <1>a, <1>b, <2>2, <2>3, <2>4 DEF Tape, Moved
<1>2. CASE RegexBody
  BY <1>2, <1>b DEF RegexBody
<1>3. CASE RegexEscaped
  BY <1>3, <1>b DEF RegexEscaped
<1>4. CASE RegexClass
  <2>1. pc = "regex" /\ ch = "["
    BY <1>4 DEF RegexClass
  <2>2. PICK n \in Nat \ {0} : n = start + 1 + Len(acc) /\ Reads(n)
    BY <1>a, <2>1
  <2>3. ch # EOF /\ ch = CharAt(n)
    BY <2>1, <2>2, EofIsNoSpelling DEF Reads
  <2>4. n \in 1..Len(source) /\ source[n] = "["
    BY <1>0, <2>1, <2>2, <2>3, CharAtTypes
  <2> QED
    BY <2>4 DEF ClassFree
<1>5. CASE pc \in {"class", "classEscaped"}
  BY <1>5 DEF Tape
<1>6. CASE RegexEnd
  <2>1. pc = "regex" /\ ch = "/" /\ ch # EOF
    BY <1>6, EofIsNoSpelling DEF RegexEnd
  <2>2. PICK n \in Nat \ {0} : n = start + 1 + Len(acc) /\ Reads(n)
    BY <1>a, <2>1
  <2>3. n \in 1..Len(source) /\ source[n] = "/"
    BY <1>0, <2>1, <2>2, CharAtTypes DEF Reads
  <2>4. /\ ReadChar /\ UNCHANGED <<source, from, start>> /\ pc' = "flags"
        /\ acc' = Append(acc, "marker")
    BY <1>6 DEF RegexEnd, Read, call
  <2>5. Suffix' /\ Reads(n + 1)'
    BY <1>0, <2>2, <2>4, ReadOn DEF Reads
  <2>6. /\ Len(acc') = Len(acc) + 1 /\ acc'[Len(acc) + 1] = "marker"
        /\ \A i \in 1..Len(acc) : acc'[i] = acc[i]
    BY <1>0, <2>4, AppendProperties DEF Marked
  <2>7. Reads(start + 1 + Len(acc))' /\ Within(start + 1)'
    <3>1. start \in Nat
      BY <1>a, <2>1
    <3>2. start' + 1 + Len(acc') = n + 1 /\ start' + 1 + Len(acc') - 1 = n
      BY <1>0, <2>2, <2>4, <2>6, <3>1
    <3>3. Within(start + 1)'
      BY <2>3, <2>4, <3>2 DEF Within
    <3> QED
      BY <2>5, <3>2, <3>3 DEF Reads, Placed, CharAt
  <2>8. MarkedRegex'
    <3>1. Len(acc) + 1 \in 1..Len(acc') /\ start + (Len(acc) + 1) = n
      BY <1>0, <1>a, <2>1, <2>2, <2>6
    <3>2. ASSUME NEW i \in 1..Len(acc'), i # Len(acc) + 1
          PROVE  acc'[i] = source[start + i]
      <4>1. i \in 1..Len(acc) /\ start + 1 + i - 1 = start + i /\ start + i <= Len(source)
        BY <1>0, <1>a, <2>1, <2>2, <2>3, <2>6, <3>2
      <4>2. acc[i] = CharAt(start + 1 + i - 1)
        BY <1>a, <2>1, <4>1 DEF Spells
      <4> QED
        BY <2>6, <4>1, <4>2 DEF CharAt
    <3>3. \A i \in Len(acc) + 1 + 1..Len(acc') : acc'[i] \in RegexFlag
      BY <1>0, <2>6
    <3> QED
      BY <2>3, <2>4, <2>6, <3>1, <3>2, <3>3 DEF MarkedRegex
  <2> QED
    BY <1>0, <1>a, <2>1, <2>4, <2>5, <2>7, <2>8 DEF Tape, Moved
<1>c. ASSUME pc = "flags"
      PROVE  /\ start \in from + 1..Len(source) /\ start \in Nat /\ source[start] = "/"
             /\ Reads(start + 1 + Len(acc)) /\ Within(start + 1) /\ MarkedRegex
             /\ start + 1 + Len(acc) \in Nat \ {0}
  BY <1>0, <1>c DEF Tape
<1>7. CASE RegexFlags
  <2>1. pc = "flags" /\ ch \in RegexFlag /\ ch # EOF
    BY <1>7, EofIsNoSpelling DEF RegexFlags, RegexFlag, IdentifierChar, IdentifierStart
  <2>2. PICK n \in Nat \ {0} : n = start + 1 + Len(acc) /\ Reads(n)
    BY <1>c, <2>1
  <2>3. n \in 1..Len(source) /\ source[n] = ch
    BY <1>0, <2>1, <2>2, CharAtTypes DEF Reads
  <2>4. /\ ReadChar /\ UNCHANGED <<source, from, start>> /\ pc' = "flags"
        /\ acc' = Append(acc, ch) /\ ch \in Marked
    BY <1>7 DEF RegexFlags, PushAndRead, Read, call, Typed, TypeOK, Marked
  <2>5. Suffix' /\ Reads(n + 1)'
    BY <1>0, <2>2, <2>4, ReadOn DEF Reads
  <2>6. /\ Len(acc') = Len(acc) + 1 /\ acc'[Len(acc) + 1] = ch
        /\ \A i \in 1..Len(acc) : acc'[i] = acc[i]
    BY <1>0, <2>4, AppendProperties DEF Marked
  <2>7. Reads(start + 1 + Len(acc))' /\ Within(start + 1)'
    <3>1. start \in Nat
      BY <1>c, <2>1
    <3>2. start' + 1 + Len(acc') = n + 1 /\ start' + 1 + Len(acc') - 1 = n
      BY <1>0, <2>2, <2>4, <2>6, <3>1
    <3>3. Within(start + 1)'
      BY <2>3, <2>4, <3>2 DEF Within
    <3> QED
      BY <2>5, <3>2, <3>3 DEF Reads, Placed, CharAt
  <2>8. MarkedRegex'
    <3>1. PICK b \in 1..Len(acc) :
            /\ acc[b] = "marker" /\ source[start + b] = "/"
            /\ \A i \in 1..Len(acc) : i # b => acc[i] = source[start + i]
            /\ \A i \in b + 1..Len(acc) : acc[i] \in RegexFlag
      BY <1>c, <2>1 DEF MarkedRegex
    <3>2. b \in 1..Len(acc') /\ acc'[b] = "marker"
      BY <1>0, <2>6, <3>1
    <3>3. start + (Len(acc) + 1) = n /\ \A i \in 1..Len(acc') : i \in 1..Len(acc) \/ i = Len(acc) + 1
      <4>1. start \in Nat
        BY <1>c, <2>1
      <4>2. start + (Len(acc) + 1) = n
        BY <1>0, <2>2, <4>1
      <4>3. Len(acc') = Len(acc) + 1
        BY <2>6
      <4> QED
        BY <1>0, <4>2, <4>3
    <3>4. \A i \in 1..Len(acc') : i # b => acc'[i] = source[start + i]
      BY <2>3, <2>6, <3>1, <3>3
    <3>5. \A i \in b + 1..Len(acc') : acc'[i] \in RegexFlag
      BY <1>0, <2>1, <2>6, <3>1
    <3> QED
      BY <2>4, <3>1, <3>2, <3>4, <3>5 DEF MarkedRegex
  <2> QED
    BY <1>0, <1>c, <2>1, <2>4, <2>5, <2>7, <2>8 DEF Tape, Moved
<1>8. CASE RegexReturn
  <2>1. pc = "flags"
    BY <1>8 DEF RegexReturn
  <2>2. PICK n \in Nat \ {0} : n = start + 1 + Len(acc) /\ Reads(n)
    BY <1>c, <2>1
  <2> QED
    BY <1>8, <2>2, PutbackReturnTape DEF RegexReturn
<1>9. CASE RegexFail
  <2>1. pc = "regex" /\ ch \in {EOF, "\n"}
    BY <1>9 DEF RegexFail
  <2>2. PICK n \in Nat \ {0} : n = start + 1 + Len(acc) /\ Reads(n)
    BY <1>a, <2>1
  <2>3. CASE ch = EOF
    <3>1. UNCHANGED <<source, stream, place, from, ch, acc, start>> /\ pc' = "unread"
      BY <1>9, <2>3 DEF RegexFail, Goto, call
    <3>2. n > Len(source)
      BY <1>0, <2>2, <2>3, CharAtTypes DEF Reads
    <3>3. Placed(start + Len(acc))
      <4>1. start \in Nat /\ Cursor = Len(source)
        BY <1>0, <1>a, <2>1, <2>2, <3>2 DEF Reads, Placed
      <4>2. start + Len(acc) >= Len(source)
        BY <1>0, <2>2, <3>2, <4>1
      <4> QED
        BY <1>0, <4>1, <4>2 DEF Placed
    <3>4. Suffix' /\ Placed(start + Len(acc))' /\ Spells(start + 1)'
      BY <1>0, <1>a, <2>1, <3>1, <3>3, StayPut DEF Placed, Spells, CharAt
    <3> QED
      BY <1>0, <1>a, <2>1, <3>1, <3>4 DEF Tape, Moved
  <2>4. CASE ch # EOF /\ MayPutback(ch)
    <3>1. Putback(ch) /\ UNCHANGED <<source, from, ch, acc, start>> /\ pc' = "unread"
      BY <1>9, <2>4 DEF RegexFail, PutbackThen, Goto, call
    <3>2. Suffix' /\ Placed(n - 1)' /\ ch = CharAt(n) /\ Placed(n)
      BY <1>0, <2>2, <3>1, PutBackAt DEF Reads
    <3>3. Placed(start + Len(acc))' /\ Spells(start + 1)'
      BY <1>0, <1>a, <2>1, <2>2, <3>1, <3>2 DEF Placed, Spells, CharAt
    <3> QED
      BY <1>0, <1>a, <2>1, <2>4, <3>1, <3>2, <3>3 DEF Tape, Moved
  <2> QED
    BY <1>9, <2>3, <2>4, AbortTape DEF RegexFail, PutbackThen
<1>d. ASSUME pc = "unread"
      PROVE  /\ start \in from + 1..Len(source) /\ start \in Nat \ {0} /\ source[start] = "/"
             /\ Spells(start + 1) /\ Placed(start + Len(acc))
             /\ start + Len(acc) \in Nat \ {0}
  BY <1>0, <1>d DEF Tape
<1>10. CASE RegexUnread
  <2>1. pc = "unread" /\ acc # <<>>
    BY <1>10 DEF RegexUnread
  <2>2. PICK n \in Nat \ {0} : n = start + Len(acc) /\ Placed(n)
    BY <1>d, <2>1
  <2>3. /\ Len(acc) >= 1 /\ Len(SubSeq(acc, 1, Len(acc) - 1)) = Len(acc) - 1
        /\ \A i \in 1..Len(acc) - 1 : SubSeq(acc, 1, Len(acc) - 1)[i] = acc[i]
    BY <1>0, <2>1, Front
  <2>4. acc[Len(acc)] = CharAt(n)
    BY <1>0, <1>d, <2>1, <2>2, <2>3 DEF Spells
  <2>5. CASE MayPutback(acc[Len(acc)])
    <3>1. /\ Putback(CharAt(n)) /\ UNCHANGED <<source, from, start>> /\ pc' = "unread"
          /\ acc' = SubSeq(acc, 1, Len(acc) - 1)
      BY <1>10, <2>4, <2>5 DEF RegexUnread, PutbackThen, Goto, call
    <3>2. Suffix' /\ Placed(n - 1)'
      BY <1>0, <2>2, <3>1, PutBackAt
    <3>3. Placed(start + Len(acc))'
      BY <1>0, <1>d, <2>1, <2>2, <2>3, <3>1, <3>2 DEF Placed
    <3>4. Spells(start + 1)'
      BY <1>0, <1>d, <2>1, <2>3, <3>1 DEF Spells, CharAt
    <3> QED
      BY <1>0, <1>d, <2>1, <2>2, <2>4, <2>5, <3>1, <3>2, <3>3, <3>4 DEF Tape, Moved
  <2> QED
    BY <1>10, <2>5, AbortTape DEF RegexUnread, PutbackThen
<1>11. CASE RegexUnreadDone
  <2>1. pc = "unread" /\ acc = <<>>
    BY <1>11 DEF RegexUnreadDone
  <2>2. UNCHANGED <<source, stream, place, from, start>> /\ pc' = "token" /\ ch' = "/"
    BY <1>11 DEF RegexUnreadDone, Goto, call
  <2>3. Placed(start)
    BY <1>0, <1>d, <2>1 
  <2>4. Suffix' /\ Reads(start)' /\ ch' # EOF
    <3>1. start \in Nat \ {0} /\ start <= Len(source) /\ source[start] = "/"
      BY <1>0, <1>d, <2>1
    <3>2. Suffix' /\ Placed(start)'
      BY <1>0, <2>2, <2>3, StayPut DEF Placed
    <3>3. ch' # EOF
      BY <2>2, EofIsNoSpelling
    <3> QED
      BY <2>2, <3>1, <3>2, <3>3 DEF Reads, CharAt
  <2> QED
    BY <1>0, <1>d, <2>1, <2>2, <2>4 DEF Tape, Moved
<1> QED
  BY <1>1, <1>2, <1>3, <1>4, <1>5, <1>6, <1>7, <1>8, <1>9, <1>10, <1>11
  DEF ParseRegex, RegexClassBody, RegexClassEscaped, RegexClassUnclosed, RegexClassEnd

(* A table that gives a spelling a type has a row that says so.            *)
LEMMA TypeInRow ==
  ASSUME NEW table, NEW spelling, TypeIn(table, spelling) # "INVALID"
  PROVE  \E op \in table : op[1] = spelling /\ op[2] = TypeIn(table, spelling)
<1> DEFINE row1 == CHOOSE op \in table : op[1] = spelling
<1>1. \E op \in table : op[1] = spelling
  BY DEF TypeIn
<1>2. row1 \in table /\ row1[1] = spelling
  BY <1>1
<1>3. TypeIn(table, spelling) = row1[2]
  BY <1>1 DEF TypeIn
<1> QED
  BY <1>2, <1>3

(* The rows of the table of three, as far as the code after it depends on  *)
(* them.                                                                   *)
LEMMA ThreeRows ==
  \A op \in ThreeCharacterSymbols :
    Len(op[1]) = 3 /\ (op[2] = "SHR" => op[1] = <<">", ">", ">">>) /\ op[2] # "INVALID"
  BY DEF ThreeCharacterSymbols

(* Names and symbols stay on the tape: the second and the third character  *)
(* are put back in reverse order.                                          *)
LEMMA SymbolsTape == Typed /\ ClassFree /\ Tape /\ Symbols => Tape' /\ Moved
<1> SUFFICES ASSUME Typed, ClassFree, Tape, Symbols PROVE Tape' /\ Moved
  OBVIOUS
<1> USE DEF Lexical, Slashed
<1>0. /\ Suffix /\ from \in 0..Len(source) /\ source \in Seq(Char) /\ Len(source) \in Nat
      /\ Cursor \in Int /\ \A n \in Nat \ {0} : CharAt(n) # EOF => n <= Len(source)
      /\ acc \in Seq(Marked) /\ Len(acc) \in Nat
  BY StreamTypes, CharAtTypes DEF Tape, Typed, TypeOK
<1>a. ASSUME pc = "token", ch # EOF
      PROVE  start \in from + 1..Len(source) /\ start \in Nat \ {0} /\ Reads(start)
  BY <1>0, <1>a DEF Tape
(* The first character of a lexeme is collected.                           *)
<1>b. ASSUME NEW to, pc = "token", ch # EOF, Read(to), acc' = <<ch>>, start' = start
      PROVE  /\ Suffix' /\ Reads(start + 1)' /\ Spells(start)' /\ Within(start)'
             /\ Len(acc') = 1 /\ acc'[1] = ch /\ acc' # <<>>
             /\ ReadChar /\ UNCHANGED <<source, from, start>> /\ pc' = to
  <2>1. ReadChar /\ UNCHANGED <<source, from, start>> /\ pc' = to
    BY <1>b DEF Read, call
  <2>2. PICK n \in Nat \ {0} : n = start /\ n <= Len(source) /\ Reads(n)
    BY <1>0, <1>a, <1>b
  <2>3. Suffix' /\ Reads(n + 1)'
    BY <1>0, <2>1, <2>2, ReadOn DEF Reads
  <2>4. Len(acc') = 1 /\ acc'[1] = ch /\ acc' # <<>> /\ ch = CharAt(n)
    BY <1>b, <2>2 DEF Reads
  <2>5. Reads(start + 1)'
    BY <2>1, <2>2, <2>3
  <2>6. Spells(start)'
    <3>1. \A i \in 1..Len(acc') : i = 1 /\ start' + i - 1 = n
      BY <2>1, <2>2, <2>4
    <3>2. CharAt(n)' = CharAt(n)
      BY <2>1 DEF CharAt
    <3> QED
      BY <2>4, <3>1, <3>2 DEF Spells, CharAt
  <2>7. Within(start)'
    BY <1>0, <2>1, <2>2, <2>4 DEF Within
  <2> QED
    BY <2>1, <2>3, <2>4, <2>5, <2>6, <2>7
(* One more is.                                                            *)
<1>c. ASSUME NEW to, PushAndRead(to), start \in Nat \ {0}, Spells(start), Reads(start + Len(acc))
      PROVE  /\ Suffix' /\ Spells(start)' /\ Reads(start + Len(acc))'
             /\ Len(acc') = Len(acc) + 1 /\ acc'[Len(acc) + 1] = ch
             /\ \A i \in 1..Len(acc) : acc'[i] = acc[i]
             /\ ch # EOF => Within(start)'
             /\ ReadChar /\ UNCHANGED <<source, from, start>> /\ pc' = to
  <2>1. PICK k \in Nat \ {0} : k = start
    BY <1>c
  <2>2. /\ Suffix' /\ Spells(k)' /\ Reads(k + Len(acc))'
        /\ Len(acc') = Len(acc) + 1 /\ acc'[Len(acc) + 1] = ch
        /\ \A i \in 1..Len(acc) : acc'[i] = acc[i]
        /\ ch # EOF => Within(k)'
    BY <1>0, <1>c, <2>1, PushOn
  <2>3. ReadChar /\ UNCHANGED <<source, from, start>> /\ pc' = to
    BY <1>c DEF PushAndRead, Read, call
  <2> QED
    BY <2>1, <2>2, <2>3
<1>1. CASE Identifier
  <2>1. /\ pc = "token" /\ ch \in IdentifierStart /\ ch # EOF
        /\ Read("identifier") /\ acc' = <<ch>> /\ start' = start
    BY <1>1, EofIsNoSpelling DEF Identifier, IdentifierChar
  <2>2. Reads(start + Len(acc))'
    <3>1. Reads(start + 1)' /\ Len(acc') = 1
      BY <1>b, <2>1
    <3> QED
      BY <3>1
  <2> QED
    BY <1>0, <1>a, <1>b, <2>1, <2>2 DEF Tape, Moved
<1>2. CASE IdentifierBody
  <2>1. pc = "identifier" /\ ch # EOF /\ PushAndRead("identifier")
    BY <1>2, EofIsNoSpelling DEF IdentifierBody
  <2>2. /\ start \in from + 1..Len(source) /\ start \in Nat \ {0}
        /\ Reads(start + Len(acc)) /\ Spells(start) /\ Within(start)
        /\ acc # <<>> /\ acc[1] \in IdentifierStart /\ 1 \in 1..Len(acc)
    BY <1>0, <2>1 DEF Tape
  <2>3. acc' # <<>> /\ acc'[1] \in IdentifierStart
    BY <1>0, <1>c, <2>1, <2>2
  <2> QED
    BY <1>0, <1>c, <2>1, <2>2, <2>3 DEF Tape, Moved
<1>3. CASE IdentifierReturn
  <2>1. PICK n \in Nat \ {0} : Reads(n)
    BY <1>0, <1>3 DEF IdentifierReturn, Tape
  <2> QED
    BY <1>3, <2>1, PutbackReturnTape DEF IdentifierReturn
<1>4. CASE EndOfFile
  BY <1>4, ReturnTape DEF EndOfFile
<1>5. CASE First
  <2>1. pc = "token" /\ ch # EOF /\ Read("second") /\ acc' = <<ch>> /\ start' = start
    BY <1>5 DEF First
  <2> QED
    BY <1>0, <1>a, <1>b, <2>1 DEF Tape, Moved
<1>6. CASE Second
  <2>1. pc = "second" /\ PushAndRead("third")
    BY <1>6 DEF Second
  <2>2. /\ start \in from + 1..Len(source) /\ start \in Nat \ {0}
        /\ Len(acc) = 1 /\ Reads(start + Len(acc)) /\ Spells(start)
    <3>1. start \in from + 1..Len(source) /\ Reads(start + 1) /\ Spells(start)
      BY <2>1 DEF Tape
    <3>2. Len(acc) = 1
      BY <2>1 DEF Typed, AccOK
    <3> QED
      BY <1>0, <3>1, <3>2
  <2>3. Reads(start + 2)'
    <3>1. Reads(start + Len(acc))' /\ Len(acc') = 2
      BY <1>c, <2>1, <2>2
    <3> QED
      BY <3>1
  <2> QED
    BY <1>0, <1>c, <2>1, <2>2, <2>3 DEF Tape, Moved
<1>d. ASSUME pc = "third"
      PROVE  /\ start \in from + 1..Len(source) /\ start \in Nat \ {0}
             /\ Len(acc) = 2 /\ Reads(start + 2) /\ Spells(start)
             /\ acc[1] = CharAt(start) /\ acc[2] = CharAt(start + 1)
             /\ acc[2] # EOF => Within(start)
  <2>1. /\ start \in from + 1..Len(source) /\ start \in Nat \ {0}
        /\ Len(acc) = 2 /\ Reads(start + 2) /\ Spells(start)
    BY <1>0, <1>d DEF Tape, Typed, AccOK
  <2>2. 1 \in 1..Len(acc) /\ 2 \in 1..Len(acc) /\ start + 1 - 1 = start /\ start + 2 - 1 = start + 1
    BY <2>1
  <2>3. acc[1] = CharAt(start) /\ acc[2] = CharAt(start + 1)
    BY <2>1, <2>2 DEF Spells
  <2>4. acc[2] # EOF => start + 1 <= Len(source)
    BY <1>0, <2>1, <2>3
  <2> QED
    BY <2>1, <2>3, <2>4 DEF Within
<1>7. CASE SecondIsEnd
  <2>1. pc = "third" /\ acc[2] = EOF
    BY <1>7 DEF SecondIsEnd
  <2>2. /\ UNCHANGED <<source, stream, place, from, start>> /\ pc' = "one"
        /\ last' = EOF /\ acc' = <<acc[1]>>
    BY <1>7 DEF SecondIsEnd, Goto, call
  <2>3. start + 1 > Len(source) /\ start = Len(source)
    <3>1. start + 1 \in Nat \ {0} /\ CharAt(start + 1) = EOF
      BY <1>0, <1>d, <2>1
    <3>2. ~(start + 1 <= Len(source))
      BY <3>1, CharAtTypes
    <3> QED
      BY <1>0, <1>d, <2>1, <3>2
  <2>4. Placed(start) /\ last' = CharAt(start + 1)'
    BY <1>0, <1>d, <2>1, <2>2, <2>3 DEF Reads, Placed, CharAt
  <2>5. Suffix' /\ Placed(start)'
    BY <1>0, <2>2, <2>4, StayPut DEF Placed
  <2>6. Spells(start)'
    <3>1. Len(acc') = 1 /\ acc'[1] = acc[1] /\ \A i \in 1..Len(acc') : i = 1 /\ start + i - 1 = start
      BY <1>d, <2>1, <2>2
    <3> QED
      BY <1>d, <2>1, <2>2, <3>1 DEF Spells, CharAt
  <2> QED
    BY <1>0, <1>d, <2>1, <2>2, <2>4, <2>5, <2>6 DEF Tape, Moved
<1>8. CASE ThreeCharacters
  BY <1>8, ReturnTape DEF ThreeCharacters
<1>9. CASE ShiftRight
  <2>1. pc = "third" /\ acc[2] # EOF /\ ThreeType = "SHR" /\ PushAndRead("fourth")
    BY <1>9 DEF ShiftRight
  <2>2. Append(acc, ch) = <<">", ">", ">">>
    <3>1. PICK op \in ThreeCharacterSymbols : op[1] = Append(acc, ch) /\ op[2] = "SHR"
      <4>1. TypeIn(ThreeCharacterSymbols, Append(acc, ch)) = "SHR"
        BY <2>1 DEF ThreeType
      <4>2. TypeIn(ThreeCharacterSymbols, Append(acc, ch)) # "INVALID"
        BY <4>1
      <4>3. \E op \in ThreeCharacterSymbols :
              op[1] = Append(acc, ch) /\ op[2] = TypeIn(ThreeCharacterSymbols, Append(acc, ch))
        BY <4>2, TypeInRow
      <4> QED
        BY <4>1, <4>3
    <3> QED
      BY <3>1, ThreeRows
  <2>3. /\ acc' = <<">", ">", ">">> /\ Len(acc') = 3 /\ acc'[3] = ">" /\ acc'[Len(acc) + 1] = ch
        /\ Reads(start + Len(acc))'
        /\ Spells(start)' /\ (ch # EOF => Within(start)')
    <3>1. acc' = <<">", ">", ">">> /\ Len(acc') = 3 /\ acc'[3] = ">"
      BY <2>1, <2>2 DEF PushAndRead
    <3>2. Reads(start + Len(acc))
      BY <1>d, <2>1
    <3> QED
      BY <1>c, <1>d, <2>1, <3>1, <3>2
  <2>4. ch # EOF
    <3>1. Len(acc) + 1 = 3
      <4>1. pc = "third"
        BY <2>1
      <4>2. Len(acc) = 2
        BY <1>d, <4>1
      <4> QED
        BY <4>2
    <3> QED
      BY <2>3, <3>1, EofIsNoSpelling
  <2>5. Suffix' /\ Reads(start + 3)' /\ ReadChar /\ UNCHANGED <<source, from, start>> /\ pc' = "fourth"
    BY <1>c, <1>d, <2>1, <2>3
  <2> QED
    BY <1>0, <1>d, <2>1, <2>3, <2>4, <2>5 DEF Tape, Moved
<1>10. CASE Fourth
  <2>1. PICK n \in Nat \ {0} : Reads(n)
    BY <1>0, <1>10 DEF Fourth, Tape
  <2> QED
    BY <1>10, <2>1, ReturnTape, PutbackReturnTape DEF Fourth
<1>11. CASE ThirdBack
  <2>1. pc = "third" /\ acc[2] # EOF
    BY <1>11 DEF ThirdBack
  <2>2. PICK n \in Nat \ {0} : n = start + 2 /\ Reads(n)
    BY <1>d, <2>1
  <2>3. CASE MayPutback(ch)
    <3>1. Putback(ch) /\ UNCHANGED <<source, from, acc, start>> /\ pc' = "two"
      BY <1>11, <2>3 DEF ThirdBack, PutbackThen, Goto, call
    <3>2. Suffix' /\ Placed(n - 1)' /\ ch = CharAt(n) /\ Placed(n)
      BY <1>0, <2>2, <3>1, PutBackAt DEF Reads
    <3>3. Placed(start + 1)' /\ Spells(start)' /\ Within(start)'
      BY <1>0, <1>d, <2>1, <2>2, <3>1, <3>2 DEF Placed, Spells, CharAt, Within
    <3> QED
      BY <1>0, <1>d, <2>1, <2>2, <2>3, <3>1, <3>2, <3>3 DEF Tape, Moved
  <2> QED
    BY <1>11, <2>3, AbortTape DEF ThirdBack, PutbackThen
<1>12. CASE TwoCharacters
  BY <1>12, ReturnTape DEF TwoCharacters
<1>13. CASE SecondBack
  <2>1. pc = "two"
    BY <1>13 DEF SecondBack
  <2>2. /\ start \in from + 1..Len(source) /\ start \in Nat \ {0}
        /\ Len(acc) = 2 /\ Placed(start + 1) /\ Spells(start)
    BY <1>0, <2>1 DEF Tape, Typed, AccOK
  <2>3. acc[1] = CharAt(start) /\ acc[2] = CharAt(start + 1)
    <3>1. 1 \in 1..Len(acc) /\ 2 \in 1..Len(acc) /\ start + 1 - 1 = start /\ start + 2 - 1 = start + 1
      BY <2>2
    <3> QED
      BY <2>2, <3>1 DEF Spells
  <2>4. PICK n \in Nat \ {0} : n = start + 1 /\ Placed(n)
    BY <2>2
  <2>5. CASE MayPutback(acc[2])
    <3>1. /\ Putback(CharAt(n)) /\ UNCHANGED <<source, from, start>> /\ pc' = "one"
          /\ acc' = <<acc[1]>> /\ last' = acc[2]
      BY <1>13, <2>3, <2>4, <2>5 DEF SecondBack, PutbackThen, Goto, call
    <3>2. Suffix' /\ Placed(n - 1)'
      BY <1>0, <2>4, <3>1, PutBackAt
    <3>3. Placed(start)' /\ last' = CharAt(start + 1)'
      BY <2>2, <2>3, <2>4, <3>1, <3>2 DEF Placed, CharAt
    <3>4. Spells(start)'
      <4>1. Len(acc') = 1 /\ acc'[1] = acc[1] /\ \A i \in 1..Len(acc') : i = 1 /\ start + i - 1 = start
        BY <2>2, <3>1
      <4> QED
        BY <2>3, <3>1, <4>1 DEF Spells, CharAt
    <3> QED
      BY <1>0, <2>2, <2>3, <2>4, <2>5, <3>1, <3>2, <3>3, <3>4 DEF Tape, Moved
  <2> QED
    BY <1>13, <2>5, AbortTape DEF SecondBack, PutbackThen
<1>14. CASE OneCharacter
  BY <1>14, ReturnTape DEF OneCharacter
<1>15. CASE Illegal
  BY <1>15, ReturnTape DEF Illegal
<1> QED
  BY <1>1, <1>2, <1>3, <1>4, <1>5, <1>6, <1>7, <1>8, <1>9, <1>10, <1>11, <1>12, <1>13,
     <1>14, <1>15 DEF Symbols

(* parseString and parseNumber stay on the tape.                           *)
LEMMA LiteralsTape == Typed /\ ClassFree /\ Tape /\ Literals => Tape' /\ Moved
<1> SUFFICES ASSUME Typed, ClassFree, Tape, Literals PROVE Tape' /\ Moved
  OBVIOUS
<1> USE DEF Lexical, Slashed
<1>0. /\ Suffix /\ from \in 0..Len(source) /\ source \in Seq(Char) /\ Len(source) \in Nat
      /\ Cursor \in Int /\ \A n \in Nat \ {0} : CharAt(n) # EOF => n <= Len(source)
      /\ acc \in Seq(Marked) /\ Len(acc) \in Nat
  BY StreamTypes, CharAtTypes DEF Tape, Typed, TypeOK
<1>a. ASSUME pc = "one"
      PROVE  /\ start \in from + 1..Len(source) /\ start \in Nat \ {0}
             /\ Len(acc) = 1 /\ Placed(start) /\ Spells(start) /\ acc[1] = source[start]
  <2>1. start \in from + 1..Len(source) /\ Placed(start) /\ Spells(start)
    BY <1>a DEF Tape
  <2>2. Len(acc) = 1
    BY <1>a DEF Typed, AccOK
  <2>3. 1 \in 1..Len(acc) /\ start + 1 - 1 = start /\ start <= Len(source)
    BY <1>0, <2>1, <2>2
  <2>4. acc[1] = source[start]
    BY <2>1, <2>3 DEF Spells, CharAt
  <2> QED
    BY <1>0, <2>1, <2>2, <2>4
<1>b. ASSUME NEW to, pc = "one", Read(to), start' = start
      PROVE  /\ Suffix' /\ Reads(start + 1)'
             /\ ReadChar /\ UNCHANGED <<source, from, start>> /\ pc' = to
  <2>1. ReadChar /\ UNCHANGED <<source, from, start>> /\ pc' = to
    BY <1>b DEF Read, call
  <2>2. PICK n \in Nat \ {0} : n = start /\ Placed(n)
    BY <1>a, <1>b
  <2>3. Suffix' /\ Reads(n + 1)'
    BY <1>0, <2>1, <2>2, ReadOn
  <2> QED
    BY <2>1, <2>2, <2>3
(* One more character is collected, of a literal whose first is at k.      *)
<1>c. ASSUME NEW to, PushAndRead(to), NEW k \in Nat \ {0}, Spells(k), Reads(k + Len(acc))
      PROVE  /\ Suffix' /\ Spells(k)' /\ Reads(k + Len(acc))'
             /\ Len(acc') = Len(acc) + 1
             /\ ch # EOF => Within(k)'
             /\ ReadChar /\ UNCHANGED <<source, from, start, last>> /\ pc' = to
  <2>1. ReadChar /\ UNCHANGED <<source, from, start, last>> /\ pc' = to
    BY <1>c DEF PushAndRead, Read, call
  <2> QED
    BY <1>0, <1>c, <2>1, PushOn
<1>1. CASE StringStart
  <2>1. /\ pc = "one" /\ acc[1] \in QuoteMark /\ last' = acc[1] /\ acc' = <<>>
        /\ Read("string") /\ start' = start
    BY <1>1 DEF StringStart, IsQuote
  <2>2. Reads(start + 1 + Len(acc))' /\ Spells(start + 1)' /\ Within(start + 1)'
    <3>1. start' + 1 + Len(acc') = start + 1 /\ start' + 1 + Len(acc') - 1 <= Len(source')
      BY <1>0, <1>a, <1>b, <2>1
    <3>2. start' = start
      BY <2>1
    <3> QED
      BY <1>b, <2>1, <3>1, <3>2 DEF Spells, Within, Reads, Placed, CharAt
  <2> QED
    BY <1>0, <1>a, <1>b, <2>1, <2>2 DEF Tape, Moved
<1>d. ASSUME NEW to \in {"string", "stringEscaped"}, pc \in {"string", "stringEscaped"},
             PushAndRead(to), ch # EOF
      PROVE  Tape' /\ Moved
  <2>1. /\ start \in from + 1..Len(source) /\ start + 1 \in Nat \ {0}
        /\ Reads(start + 1 + Len(acc)) /\ Spells(start + 1)
        /\ last = source[start] /\ last \in QuoteMark
    BY <1>0, <1>d DEF Tape
  <2>2. PICK k \in Nat \ {0} : k = start + 1
    BY <2>1
  <2>3. /\ Suffix' /\ Spells(k)' /\ Reads(k + Len(acc))' /\ Within(k)'
        /\ ReadChar /\ UNCHANGED <<source, from, start, last>> /\ pc' = to
    BY <1>c, <1>d, <2>1, <2>2
  <2>4. Spells(start + 1)' /\ Reads(start + 1 + Len(acc))' /\ Within(start + 1)'
    BY <2>2, <2>3
  <2> QED
    BY <1>0, <1>d, <2>1, <2>3, <2>4 DEF Tape, Moved
<1>2. CASE StringBody
  BY <1>2, <1>d DEF StringBody
<1>3. CASE StringEscaped
  BY <1>3, <1>d DEF StringEscaped
<1>4. CASE StringUnclosed
  BY <1>4, ReturnTape DEF StringUnclosed
<1>5. CASE StringReturn
  BY <1>5, ReturnTape DEF StringReturn
<1>6. CASE NumberStart
  <2>1. pc = "one" /\ Read("number") /\ UNCHANGED <<acc, start>>
    BY <1>6 DEF NumberStart
  <2>2. Reads(start + Len(acc))' /\ Spells(start)' /\ Within(start)' /\ acc' # <<>>
    <3>1. start' + Len(acc') = start + 1 /\ start' + Len(acc') - 1 <= Len(source') /\ acc' # <<>>
      <4>1. Len(acc) = 1 /\ start \in 1..Len(source) /\ acc' = acc /\ start' = start /\ source' = source
        BY <1>0, <1>a, <1>b, <2>1
      <4>2. start + 1 - 1 <= Len(source)
        BY <1>0, <4>1
      <4>3. acc # <<>>
        BY <4>1
      <4> QED
        BY <4>1, <4>2, <4>3
    <3>2. start' = start /\ source' = source /\ Spells(start)
      BY <1>a, <1>b, <2>1
    <3> QED
      BY <1>b, <2>1, <3>1, <3>2 DEF Spells, Within, Reads, Placed, CharAt
  <2> QED
    BY <1>0, <1>a, <1>b, <2>1, <2>2 DEF Tape, Moved
<1>e. ASSUME pc \in {"number", "hex", "bin", "digit"}
      PROVE  /\ start \in from + 1..Len(source) /\ start \in Nat \ {0}
             /\ Reads(start + Len(acc)) /\ Spells(start) /\ Within(start) /\ acc # <<>>
             /\ Len(acc) >= 1
  <2>1. /\ start \in from + 1..Len(source)
        /\ Reads(start + Len(acc)) /\ Spells(start) /\ Within(start) /\ acc # <<>>
    BY <1>e DEF Tape
  <2> QED
    BY <1>0, <2>1
<1>f. ASSUME NEW to \in {"hex", "bin"}, pc \in {"number", "hex", "bin"}, PushAndRead(to), ch # EOF
      PROVE  Tape' /\ Moved
  <2>1. PICK k \in Nat \ {0} : k = start
    BY <1>e, <1>f
  <2>2. /\ Suffix' /\ Spells(k)' /\ Reads(k + Len(acc))' /\ Within(k)' /\ Len(acc') = Len(acc) + 1
        /\ ReadChar /\ UNCHANGED <<source, from, start, last>> /\ pc' = to
    BY <1>c, <1>e, <1>f, <2>1
  <2>3. Spells(start)' /\ Reads(start + Len(acc))' /\ Within(start)' /\ acc' # <<>>
    BY <1>0, <2>1, <2>2
  <2> QED
    BY <1>0, <1>e, <1>f, <2>2, <2>3 DEF Tape, Moved
<1>7. CASE RadixPrefix
  BY <1>7, <1>f, EofIsNoSpelling DEF RadixPrefix, IdentifierChar, IdentifierStart
<1>8. CASE RadixDigits
  BY <1>8, <1>f, EofIsNoSpelling
  DEF RadixDigits, IdentifierChar, IdentifierStart, HexDigit, Digit
(* A digit is collected and kept in ch.                                    *)
<1>g. ASSUME pc \in {"number", "digit"}, ch # EOF, acc' = Append(acc, ch), pc' = "decimal",
             UNCHANGED <<stream, place, call, ch, start>>
      PROVE  Tape' /\ Moved
  <2>1. UNCHANGED <<source, from>> /\ ch \in Marked
    BY <1>g DEF call, Typed, TypeOK, Marked
  <2>2. /\ Len(acc') = Len(acc) + 1 /\ acc'[Len(acc) + 1] = ch
        /\ \A i \in 1..Len(acc) : acc'[i] = acc[i]
    BY <1>0, <1>g, <2>1, AppendProperties
  <2>3. PICK n \in Nat \ {0} : n = start + Len(acc) /\ Reads(n)
    BY <1>0, <1>e, <1>g
  <2>4. n <= Len(source) /\ ch = CharAt(n)
    BY <1>0, <1>g, <2>3 DEF Reads
  <2>5. Suffix' /\ Reads(n)'
    BY <1>0, <1>g, <2>1, <2>3, StayPut
  <2>6. start' = start /\ start \in Nat \ {0}
    BY <1>e, <1>g
  <2>7. start' + Len(acc') - 1 = n
    BY <1>0, <2>2, <2>3, <2>6
  <2>8. Within(start)' /\ Len(acc') > 1 /\ acc' # <<>>
    BY <1>0, <1>e, <1>g, <2>1, <2>2, <2>4, <2>7 DEF Within
  <2>9. Spells(start)'
    <3> SUFFICES ASSUME NEW i \in 1..Len(acc') PROVE acc'[i] = CharAt(start + i - 1)'
      BY DEF Spells
    <3>1. CharAt(start + i - 1)' = CharAt(start + i - 1)
      BY <2>1, <2>6 DEF CharAt
    <3>2. CASE i \in 1..Len(acc)
      BY <1>e, <1>g, <2>2, <3>1, <3>2 DEF Spells
    <3>3. CASE i = Len(acc) + 1
      <4>1. start + i - 1 = n
        BY <1>0, <2>3, <2>6, <3>3
      <4> QED
        BY <2>2, <2>4, <3>1, <3>3, <4>1
    <3> QED
      BY <1>0, <2>2, <3>2, <3>3
  <2> QED
    BY <1>0, <1>e, <1>g, <2>1, <2>5, <2>6, <2>7, <2>8, <2>9 DEF Tape, Moved
<1>9. CASE NumberFirst
  <2>1. pc = "number" /\ pc' = "decimal" /\ UNCHANGED <<stream, place, call, ch, start>>
    BY <1>9 DEF NumberFirst, Goto
  <2>2. CASE ch # EOF
    BY <1>9, <1>g, <2>1, <2>2 DEF NumberFirst
  <2>3. CASE ch = EOF
    <3>1. acc' = acc /\ UNCHANGED <<source, from>>
      BY <1>9, <2>1, <2>3 DEF NumberFirst, call
    <3>2. Suffix' /\ Reads(start + Len(acc))' /\ Spells(start)' /\ Within(start)'
      BY <1>0, <1>e, <2>1, <3>1, StayPut DEF Reads, Placed, CharAt, Spells, Within
    <3> QED
      BY <1>0, <1>e, <2>1, <2>3, <3>1, <3>2 DEF Tape, Moved
  <2> QED
    BY <2>2, <2>3
<1>h. ASSUME pc = "decimal"
      PROVE  /\ start \in from + 1..Len(source) /\ start \in Nat \ {0}
             /\ Spells(start) /\ Within(start) /\ acc # <<>>
             /\ IF ch = EOF THEN Reads(start + Len(acc))
                ELSE Len(acc) > 1 /\ Reads(start + Len(acc) - 1)
  BY <1>0, <1>h DEF Tape
<1>10. CASE NumberNext
  <2>1. pc = "decimal" /\ ch # EOF
    BY <1>10, EofIsNoSpelling DEF NumberNext, IdentifierChar, IdentifierStart
  <2>2. ReadChar /\ UNCHANGED <<source, from, start, acc>> /\ pc' = "digit"
    BY <1>10 DEF NumberNext, Read, call
  <2>3. PICK n \in Nat \ {0} : n = start + Len(acc) - 1 /\ Reads(n)
    BY <1>0, <1>h, <2>1
  <2>4. Suffix' /\ Reads(n + 1)'
    BY <1>0, <2>2, <2>3, ReadOn DEF Reads
  <2>5. start' + Len(acc') = n + 1
    BY <1>0, <1>h, <2>1, <2>2, <2>3
  <2>6. Reads(start + Len(acc))' /\ Spells(start)' /\ Within(start)'
    BY <1>h, <2>1, <2>2, <2>4, <2>5 DEF Reads, Placed, CharAt, Spells, Within
  <2> QED
    BY <1>0, <1>h, <2>1, <2>2, <2>4, <2>6 DEF Tape, Moved
<1>11. CASE NumberPush
  <2>1. ch # EOF
    BY <1>11, EofIsNoSpelling DEF NumberPush, IdentifierChar, IdentifierStart
  <2> QED
    BY <1>11, <1>g, <2>1 DEF NumberPush, Goto
<1>12. CASE NumberReturn
  <2>1. pc \in {"number", "hex", "bin", "digit", "decimal"}
    BY <1>12 DEF NumberReturn, NumberEnds
  <2>2. PICK n \in Nat \ {0} : Reads(n)
    BY <1>0, <1>e, <1>h, <2>1
  <2> QED
    BY <1>12, <2>2, PutbackReturnTape DEF NumberReturn
<1> QED
  BY <1>1, <1>2, <1>3, <1>4, <1>5, <1>6, <1>7, <1>8, <1>9, <1>10, <1>11, <1>12 DEF Literals

OnTape == Typed /\ (ClassFree => Tape)

(* So does every step of a running call.                                   *)
LEMMA StepTape == Typed /\ ClassFree /\ Tape /\ Step => Tape' /\ Moved
  BY BlanksTape, ParseRegexTape, SymbolsTape, LiteralsTape DEF Step

(* A step of a running call leaves the text alone.                         *)
LEMMA StepSource == Step => UNCHANGED <<source, from, started, notRegex, resets>>
<1> SUFFICES ASSUME Step PROVE UNCHANGED <<source, from, started, notRegex, resets>>
  OBVIOUS
<1> USE DEF Read, Goto, PushAndRead, ReturnHere, Return, PutbackThen, Abort, call
<1>1. CASE Blanks
  BY <1>1 DEF Blanks, SkipSpace, Slash, LexemeStart, SlashAtEnd, LineCommentStart, LineComment,
              BlockCommentStart, BlockComment, BlockCommentEnd, SlashAlone
<1>2. CASE ParseRegex
  BY <1>2 DEF ParseRegex, RegexStart, RegexBody, RegexEscaped, RegexClass, RegexClassBody,
              RegexClassEscaped, RegexClassUnclosed, RegexClassEnd, RegexEnd, RegexFlags,
              RegexReturn, RegexFail, RegexUnread, RegexUnreadDone
<1>3. CASE Symbols
  BY <1>3 DEF Symbols, Identifier, IdentifierBody, IdentifierReturn, EndOfFile, First, Second,
              SecondIsEnd, ThreeCharacters, ShiftRight, Fourth, ThirdBack, TwoCharacters,
              SecondBack, OneCharacter, Illegal
<1>4. CASE Literals
  BY <1>4 DEF Literals, StringStart, StringBody, StringEscaped, StringUnclosed, StringReturn,
              NumberStart, RadixPrefix, RadixDigits, NumberFirst, NumberNext, NumberPush,
              NumberReturn
<1> QED
  BY <1>1, <1>2, <1>3, <1>4 DEF Step

(* A call starts behind what the last one consumed.                        *)
LEMMA CallTape ==
  ASSUME Typed, Tape, NEW mode, Call(mode)
  PROVE  /\ Tape' /\ UNCHANGED source /\ ReadChar
         /\ \E n \in Nat \ {0} : n = Cursor + 1 /\ from' = Cursor /\ Reads(n)'
<1>1. /\ Suffix /\ Len(source) \in Nat /\ pos \in Nat /\ pos <= Len(source) /\ Len(buffer) \in Nat
  BY StreamTypes DEF Tape
<1>2. ReadChar /\ source' = source /\ pc' = "scan" /\ from' = Cursor
  BY DEF Call
<1>3. PICK n \in Nat : n = Cursor /\ n <= Len(source)
  <2>1. Len(buffer) <= pos
    BY <1>1 DEF Suffix
  <2> QED
    BY <1>1, <2>1 DEF Cursor
<1>4. Suffix' /\ Reads(n + 1)'
  BY <1>1, <1>2, <1>3, ReadOn DEF Placed
<1>5. InScan(from)'
  BY <1>1, <1>2, <1>3, <1>4 DEF InScan
<1>6. Tape'
  BY <1>1, <1>2, <1>3, <1>4, <1>5 DEF Tape, Lexical, Slashed
<1> QED
  BY <1>2, <1>3, <1>4, <1>6

(* reset() puts the cursor before the new text.                            *)
LEMMA ResetTape == Reset => Tape'
<1> SUFFICES ASSUME Reset PROVE Tape'
  OBVIOUS
<1>1. source' \in Seq(Char) /\ Len(source') \in Nat
  BY TextsAreTexts DEF Reset
<1>2. pc' = "idle" /\ from' = 0 /\ pos' = 0 /\ buffer' = <<>>
  BY DEF Reset
<1> QED
  BY <1>1, <1>2 DEF Tape, Suffix, Lexical, Slashed

(* The cursor starts before the text.                                      *)
LEMMA InitTape == Init => Tape
<1> SUFFICES ASSUME Init PROVE Tape
  OBVIOUS
<1>1. source \in Seq(Char) /\ Len(source) \in Nat
  BY TextsAreTexts DEF Init
<1>2. pc = "idle" /\ from = 0 /\ pos = 0 /\ buffer = <<>>
  BY DEF Init
<1> QED
  BY <1>1, <1>2 DEF Tape, Suffix, Lexical, Slashed

(* What changes nothing leaves the tape alone.                             *)
LEMMA TapeStutters == Tape /\ UNCHANGED vars => Tape'
  BY DEF Tape, Suffix, InScan, Reads, Placed, CharAt, Spells, Within, MarkedRegex, Cursor, vars,
         stream, place, call

(* Every state of the tokenizer is on the tape.                            *)
LEMMA AlwaysOnTape == Spec => []OnTape
<1>1. Init => (ClassFree => Tape)
  BY InitTape
<1>2. Typed /\ (ClassFree => Tape) /\ [Next]_vars => (ClassFree => Tape)'
  <2> SUFFICES ASSUME Typed, ClassFree => Tape, [Next]_vars, ClassFree' PROVE Tape'
    OBVIOUS
  <2>1. CASE Step
    <3>1. ClassFree
      BY <2>1, StepSource DEF ClassFree
    <3> QED
      BY <2>1, <3>1, StepTape
  <2>2. ASSUME NEW mode \in BOOLEAN, Call(mode) PROVE Tape'
    <3>1. ClassFree
      BY <2>2 DEF Call, ClassFree
    <3> QED
      BY <2>2, <3>1, CallTape
  <2>3. CASE Reset
    BY <2>3, ResetTape
  <2>4. CASE UNCHANGED vars
    <3>1. ClassFree
      BY <2>4 DEF vars, call, ClassFree
    <3> QED
      BY <2>4, <3>1, TapeStutters
  <2> QED
    BY <2>1, <2>2, <2>3, <2>4, ModesAreBooleans DEF Next, Advance, Peek, Aborted
<1> QED
  BY <1>1, <1>2, AlwaysTyped, PTL DEF Spec, OnTape

(* What is still to be read is a suffix of the text after every step: the  *)
(* push-backs of the name, symbol, number and regular expression code      *)
(* return what was read, all of it and in the right order.                 *)
THEOREM TokenizerConserves == Spec => []Conserved
<1>1. OnTape => Conserved
  BY DEF OnTape, Conserved, Tape, Suffix
<1> QED
  BY <1>1, AlwaysOnTape, PTL

-----------------------------------------------------------------------------
(* Which steps lead where.                                                 *)

(* The steps that end a call with an answer.                               *)
Answers ==
  \/ SlashAtEnd \/ BlockCommentEnd \/ RegexClassUnclosed \/ RegexReturn \/ IdentifierReturn
  \/ EndOfFile \/ ThreeCharacters \/ Fourth \/ TwoCharacters \/ OneCharacter \/ Illegal
  \/ StringUnclosed \/ StringReturn \/ NumberReturn

(* Which steps lead to which place of the code, and which steps answer.    *)
LEMMA Arrivals ==
  ASSUME Step
  PROVE  /\ pc # "idle"
         /\ pc' = "idle" => Answers
         /\ pc' = "scan" => SkipSpace \/ LineComment \/ BlockCommentEnd
         /\ pc' = "slash" => Slash
         /\ pc' = "line" => LineCommentStart \/ LineComment
         /\ pc' = "block" => BlockCommentStart \/ BlockComment
         /\ pc' = "blockEnd" => BlockComment
         /\ pc' = "token" => LexemeStart \/ SlashAlone \/ RegexUnreadDone
         /\ pc' = "regexStart" => SlashAlone
         /\ pc' = "regex" =>
              RegexStart \/ RegexBody \/ RegexEscaped \/ pc \in {"class", "classEscaped"}
         /\ pc' = "regexEscaped" => RegexBody
         /\ pc' = "flags" => pc = "flags" \/ RegexEnd
         /\ pc' = "unread" => RegexFail \/ RegexUnread
         /\ pc' = "second" => First
         /\ pc' = "third" => Second
         /\ pc' = "two" => ThirdBack
         /\ pc' = "one" => SecondIsEnd \/ SecondBack
         /\ pc' \in Lexical =>
              \/ pc \in Lexical /\ start' = start
              \/ pc = "token" /\ ch # EOF /\ start' = start
              \/ Slash
<1> USE DEF Read, Goto, PushAndRead, ReturnHere, Return, PutbackThen, Abort, call, Lexical
<1>1. CASE Blanks
  BY <1>1 DEF Answers, Blanks, SkipSpace, Slash, LexemeStart, SlashAtEnd, LineCommentStart,
              LineComment, BlockCommentStart, BlockComment, BlockCommentEnd, SlashAlone
<1>2. CASE ParseRegex
  BY <1>2 DEF Answers, ParseRegex, RegexStart, RegexBody, RegexEscaped, RegexClass,
              RegexClassBody, RegexClassEscaped, RegexClassUnclosed, RegexClassEnd, RegexEnd,
              RegexFlags, RegexReturn, RegexFail, RegexUnread, RegexUnreadDone
<1>0. EOF \notin IdentifierStart
  BY EofIsNoSpelling DEF IdentifierChar
<1>3. CASE Symbols
  BY <1>0, <1>3 DEF Answers, Symbols, Identifier, IdentifierBody, IdentifierReturn, EndOfFile, First,
              Second, SecondIsEnd, ThreeCharacters, ShiftRight, Fourth, ThirdBack,
              TwoCharacters, SecondBack, OneCharacter, Illegal
<1>4. CASE Literals
  BY <1>4 DEF Answers, Literals, StringStart, StringBody, StringEscaped, StringUnclosed,
              StringReturn, NumberStart, RadixPrefix, RadixDigits, NumberFirst, NumberNext,
              NumberPush, NumberReturn, NumberEnds
<1> QED
  BY <1>1, <1>2, <1>3, <1>4 DEF Step

=============================================================================
