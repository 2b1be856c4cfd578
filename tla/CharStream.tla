----------------------------- MODULE CharStream -----------------------------
(***************************************************************************)
(* BufferedCharacterStream (include/jast/scanner.h): an input stream with  *)
(* an unbounded push-back buffer.  The buffer is a vector used as a stack: *)
(* the character put back last is read first, and the stream is asked only *)
(* when the buffer is empty.  readchar() narrows what get() answers to a   *)
(* char, so that the byte 0xFF of a text cannot be told from the end: it   *)
(* is read as EOF, and the text goes on behind it.                         *)
(***************************************************************************)
EXTENDS Integers, Sequences

CONSTANTS
  Char,       \* the characters, without the byte 0xFF
  EOF,        \* what the end of a text and the byte 0xFF are read as
  Texts,      \* the texts a stream may be opened on
  MaxBuffer   \* bound on the push-back buffer, for model checking only

ASSUME EofIsNoCharacter == EOF \notin Char
ASSUME TextsAreTexts == Texts \subseteq Seq(Char \union {EOF})
ASSUME MaxBufferIsNat == MaxBuffer \in Nat

VARIABLES
  source,  \* the text behind is_
  pos,     \* how many characters is_.get() has delivered
  buffer,  \* buffer_, the top of the stack last
  got      \* what the last readchar() answered

vars == <<source, pos, buffer, got>>

Init ==
  /\ source \in Texts
  /\ pos = 0
  /\ buffer = <<>>
  /\ got = EOF

(* Mutant of NextChar: the buffer is a queue.                              *)
NextCharOldest ==
  IF buffer # <<>> THEN buffer[1]
  ELSE IF pos < Len(source) THEN source[pos + 1] ELSE EOF

(* The character the next readchar() returns.                              *)
NextChar ==
  IF buffer # <<>> THEN buffer[Len(buffer)]
  ELSE IF pos < Len(source) THEN source[pos + 1] ELSE EOF

(* Mutant of Take: the stream moves on past its end.                       *)
TakePastEnd ==
  IF buffer # <<>>
  THEN buffer' = SubSeq(buffer, 1, Len(buffer) - 1) /\ UNCHANGED pos
  ELSE pos' = pos + 1 /\ UNCHANGED buffer

(* What readchar() does to the buffer and to the stream.                   *)
Take ==
  IF buffer # <<>>
  THEN buffer' = SubSeq(buffer, 1, Len(buffer) - 1) /\ UNCHANGED pos
  ELSE pos' = (IF pos < Len(source) THEN pos + 1 ELSE pos) /\ UNCHANGED buffer

Push(c) == buffer' = Append(buffer, c) /\ UNCHANGED pos

ReadChar == got' = NextChar /\ Take /\ UNCHANGED source

Putback(c) == Len(buffer) < MaxBuffer /\ Push(c) /\ UNCHANGED <<source, got>>

Next == ReadChar \/ \E c \in Char \union {EOF} : Putback(c)

Spec == Init /\ [][Next]_vars

-----------------------------------------------------------------------------

TypeOK ==
  /\ source \in Texts
  /\ pos \in 0..Len(source)
  /\ buffer \in Seq(Char \union {EOF})
  /\ got \in Char \union {EOF}

(* What is still to be read of a text after n characters with the buffer   *)
(* b: the buffer from its top down, then the rest of the text.             *)
Upcoming(text, n, b) ==
  [i \in 1..(Len(b) + Len(text) - n) |->
     IF i <= Len(b) THEN b[Len(b) + 1 - i] ELSE text[n + i - Len(b)]]

Rest == Upcoming(source, pos, buffer)

Abstract == INSTANCE Lookahead WITH rest <- Rest

(* Reads and putbacks in any order behave as on the single list of         *)
(* characters Lookahead describes: what is put back is read again in       *)
(* reverse order, nothing of the stream is lost, repeated or overtaken,    *)
(* and reading past the end keeps answering EOF, which a text with the     *)
(* byte 0xFF answers before its end too.                                   *)
ImplementsLookahead == Abstract!Spec

=============================================================================
