-------------------------- MODULE CharStream_proofs --------------------------
(***************************************************************************)
(* The type invariant of CharStream, and that it implements Lookahead, for *)
(* every character set, every set of texts and every bound on the buffer.  *)
(***************************************************************************)
EXTENDS CharStream, SequenceTheorems, TLAPS

(* A text is finite and holds characters and bytes that are read as EOF.   *)
LEMMA TextType == ASSUME NEW t \in Texts PROVE t \in Seq(Char \union {EOF})
  BY TextsAreTexts

(* What readchar() answers is a character or EOF.                          *)
LEMMA NextCharType == TypeOK => NextChar \in Char \union {EOF}
  BY TextType DEF TypeOK, NextChar

(* Every variable keeps its type: the position stays inside the source and *)
(* the buffer holds characters only.                                       *)
THEOREM StreamTypes == Spec => []TypeOK
<1>1. Init => TypeOK
  BY TextType DEF Init, TypeOK
<1>2. TypeOK /\ [Next]_vars => TypeOK'
  <2> SUFFICES ASSUME TypeOK, [Next]_vars PROVE TypeOK'
    OBVIOUS
  <2>1. source \in Seq(Char \union {EOF}) /\ Len(source) \in Nat
    BY TextType DEF TypeOK
  <2>2. CASE ReadChar
    <3>1. got' \in Char \union {EOF}
      BY <2>2, NextCharType DEF ReadChar
    <3>2. pos' \in 0..Len(source) /\ buffer' \in Seq(Char \union {EOF})
      BY <2>1, <2>2 DEF ReadChar, Take, TypeOK
    <3> QED
      BY <2>2, <3>1, <3>2 DEF ReadChar, TypeOK
  <2>3. ASSUME NEW c \in Char \union {EOF}, Putback(c) PROVE TypeOK'
    BY <2>3 DEF Putback, Push, TypeOK
  <2>4. CASE UNCHANGED vars
    BY <2>4 DEF vars, TypeOK
  <2> QED
    BY <2>2, <2>3, <2>4 DEF Next
<1> QED
  BY <1>1, <1>2, PTL DEF Spec

-----------------------------------------------------------------------------

(* The texts, counts and buffers a stream can have.                        *)
Stage(text, n, b) ==
  text \in Seq(Char \union {EOF}) /\ n \in 0..Len(text) /\ b \in Seq(Char \union {EOF})

(* What is to come is a sequence of the length of its two parts.           *)
LEMMA UpcomingType ==
  ASSUME NEW text, NEW n, NEW b, Stage(text, n, b)
  PROVE  /\ Upcoming(text, n, b) \in Seq(Char \union {EOF})
         /\ Len(Upcoming(text, n, b)) = Len(b) + Len(text) - n
         /\ Len(b) + Len(text) - n \in Nat
<1> DEFINE L == Len(b) + Len(text) - n
<1>1. L \in Nat
  BY DEF Stage
<1>2. ASSUME NEW i \in 1..L PROVE Upcoming(text, n, b)[i] \in Char \union {EOF}
  BY <1>2 DEF Upcoming, Stage
<1>3. Upcoming(text, n, b) \in [1..L -> Char \union {EOF}]
  BY <1>2 DEF Upcoming
<1> QED
  BY <1>1, <1>3

(* Popping the buffer uncovers the tail of what is to come.                *)
LEMMA PopIsTail ==
  ASSUME NEW text, NEW n, NEW b, Stage(text, n, b), b # <<>>
  PROVE  LET short == SubSeq(b, 1, Len(b) - 1) IN
         /\ Upcoming(text, n, b) # <<>>
         /\ Head(Upcoming(text, n, b)) = b[Len(b)]
         /\ Tail(Upcoming(text, n, b)) = Upcoming(text, n, short)
<1> DEFINE short == SubSeq(b, 1, Len(b) - 1)
           all == Upcoming(text, n, b)
           less == Upcoming(text, n, short)
<1>1. Len(b) \in Nat /\ Len(b) >= 1 /\ Len(text) \in Nat /\ n \in 0..Len(text)
  BY DEF Stage
<1>2. /\ short \in Seq(Char \union {EOF}) /\ Len(short) = Len(b) - 1
      /\ \A i \in 1..Len(b) - 1 : short[i] = b[i]
  <2>1. \A i \in 1..Len(b) - 1 : b[i] \in Char \union {EOF}
    BY <1>1 DEF Stage
  <2>2. 1 \in Int /\ Len(b) - 1 \in Int
    BY <1>1
  <2>3. /\ short \in Seq(Char \union {EOF})
        /\ Len(short) = IF 1 <= Len(b) - 1 THEN (Len(b) - 1) - 1 + 1 ELSE 0
        /\ \A i \in 1..(Len(b) - 1) - 1 + 1 : short[i] = b[1 + i - 1]
    BY <2>1, <2>2, SubSeqProperties
  <2> HIDE DEF short
  <2>4. ASSUME NEW i \in 1..Len(b) - 1 PROVE short[i] = b[i]
    <3>1. i \in 1..(Len(b) - 1) - 1 + 1 /\ 1 + i - 1 = i
      BY <1>1, <2>4
    <3> QED
      BY <2>3, <3>1
  <2>5. Len(short) = Len(b) - 1
    <3>1. Len(short) = IF 1 <= Len(b) - 1 THEN (Len(b) - 1) - 1 + 1 ELSE 0
      BY <2>3
    <3>2. CASE Len(b) = 1
      <4>1. ~(1 <= Len(b) - 1) /\ Len(b) - 1 = 0
        BY <1>1, <3>2
      <4> QED
        BY <3>1, <4>1
    <3>3. CASE Len(b) # 1
      <4>1. 1 <= Len(b) - 1 /\ (Len(b) - 1) - 1 + 1 = Len(b) - 1
        BY <1>1, <3>3
      <4> QED
        BY <3>1, <4>1
    <3> QED
      BY <3>2, <3>3
  <2> QED
    BY <2>3, <2>4, <2>5
<1>3. Stage(text, n, short)
  BY <1>2 DEF Stage
<1>4. all \in Seq(Char \union {EOF}) /\ Len(all) = Len(b) + Len(text) - n
  BY UpcomingType
<1>5. less \in Seq(Char \union {EOF}) /\ Len(less) = Len(b) - 1 + Len(text) - n
  BY <1>2, <1>3, UpcomingType
<1> HIDE DEF short, all, less
<1>6. all # <<>> /\ Head(all) = b[Len(b)]
  <2>1. all[1] = b[Len(b)]
    BY <1>1 DEF all, Upcoming
  <2> QED
    BY <1>1, <1>4, <2>1
<1>7. /\ Tail(all) \in Seq(Char \union {EOF}) /\ Len(Tail(all)) = Len(all) - 1
      /\ \A i \in 1..Len(Tail(all)) : Tail(all)[i] = all[i + 1]
  BY <1>4, <1>6, HeadTailProperties
<1>8. ASSUME NEW i \in 1..Len(less) PROVE Tail(all)[i] = less[i]
  <2>1. Tail(all)[i] = all[i + 1]
    BY <1>1, <1>8, <1>4, <1>5, <1>7
  <2>2. all[i + 1] = IF i + 1 <= Len(b) THEN b[Len(b) - i] ELSE text[n + i + 1 - Len(b)]
    BY <1>1, <1>8, <1>5 DEF all, Upcoming
  <2>3. less[i] = IF i <= Len(short) THEN short[Len(short) + 1 - i]
                  ELSE text[n + i - Len(short)]
    BY <1>1, <1>2, <1>8, <1>5 DEF less, Upcoming
  <2>4. CASE i <= Len(b) - 1
    <3>1. Len(short) + 1 - i = Len(b) - i /\ Len(b) - i \in 1..Len(b) - 1
      BY <1>1, <1>2, <1>8, <2>4
    <3>2. Tail(all)[i] = b[Len(b) - i]
      <4>1. i + 1 <= Len(b)
        BY <1>1, <1>5, <1>8, <2>4
      <4> QED
        BY <2>1, <2>2, <4>1
    <3>3. less[i] = short[Len(b) - i]
      BY <1>1, <1>2, <1>8, <2>3, <2>4, <3>1
    <3> QED
      BY <1>2, <3>1, <3>2, <3>3
  <2>5. CASE ~(i <= Len(b) - 1)
    <3>1. n + i + 1 - Len(b) = n + i - Len(short)
      BY <1>1, <1>2, <1>8
    <3>2. ~(i + 1 <= Len(b)) /\ ~(i <= Len(short))
      BY <1>1, <1>2, <1>8, <2>5
    <3> QED
      BY <2>1, <2>2, <2>3, <3>1, <3>2
  <2> QED
    BY <2>4, <2>5
<1>9. Tail(all) = less
  <2>1. Len(Tail(all)) = Len(less)
    BY <1>1, <1>4, <1>5, <1>7
  <2> QED
    BY <1>5, <1>7, <1>8, <2>1, SeqEqual
<1> QED
  BY <1>6, <1>9 DEF all, less, short

(* So does taking the next character of the text when the buffer is empty. *)
LEMMA GetIsTail ==
  ASSUME NEW text, NEW n, Stage(text, n, <<>>), n < Len(text)
  PROVE  /\ Upcoming(text, n, <<>>) # <<>>
         /\ Head(Upcoming(text, n, <<>>)) = text[n + 1]
         /\ Tail(Upcoming(text, n, <<>>)) = Upcoming(text, n + 1, <<>>)
<1> DEFINE all == Upcoming(text, n, <<>>)
           less == Upcoming(text, n + 1, <<>>)
<1>1. Len(text) \in Nat /\ n \in 0..Len(text) - 1 /\ Stage(text, n + 1, <<>>)
  BY DEF Stage
<1>2. all \in Seq(Char \union {EOF}) /\ Len(all) = Len(text) - n
  BY <1>1, UpcomingType
<1>3. less \in Seq(Char \union {EOF}) /\ Len(less) = Len(text) - (n + 1)
  BY <1>1, UpcomingType
<1>4. \A i \in 1..Len(all) : all[i] = text[n + i]
  BY <1>1, <1>2 DEF Upcoming
<1>5. \A i \in 1..Len(less) : less[i] = text[n + 1 + i]
  BY <1>1, <1>3 DEF Upcoming
<1>6. all # <<>> /\ Head(all) = text[n + 1]
  BY <1>1, <1>2, <1>4
<1>7. /\ Tail(all) \in Seq(Char \union {EOF}) /\ Len(Tail(all)) = Len(all) - 1
      /\ \A i \in 1..Len(Tail(all)) : Tail(all)[i] = all[i + 1]
  BY <1>2, <1>6, HeadTailProperties
<1>8. Tail(all) = less
  <2>1. \A i \in 1..Len(less) : Tail(all)[i] = less[i]
    BY <1>1, <1>2, <1>3, <1>4, <1>5, <1>7
  <2>2. Len(Tail(all)) = Len(less)
    BY <1>1, <1>2, <1>3, <1>7
  <2> HIDE DEF all, less
  <2> QED
    BY <1>3, <1>7, <2>1, <2>2, SeqEqual
<1> QED
  BY <1>6, <1>8

(* What is put back comes before all that was to come.                     *)
LEMMA PushIsCons ==
  ASSUME NEW text, NEW n, NEW b, Stage(text, n, b), NEW c \in Char \union {EOF}
  PROVE  Upcoming(text, n, Append(b, c)) = <<c>> \o Upcoming(text, n, b)
<1> DEFINE long == Append(b, c)
           all == Upcoming(text, n, b)
           more == Upcoming(text, n, long)
<1>1. Len(b) \in Nat /\ Len(text) \in Nat /\ n \in 0..Len(text)
  BY DEF Stage
<1>2. /\ long \in Seq(Char \union {EOF}) /\ Len(long) = Len(b) + 1
      /\ long[Len(b) + 1] = c /\ \A i \in 1..Len(b) : long[i] = b[i]
  BY <1>1 DEF Stage
<1>3. Stage(text, n, long)
  BY <1>2 DEF Stage
<1>4. all \in Seq(Char \union {EOF}) /\ Len(all) = Len(b) + Len(text) - n
  BY UpcomingType
<1>5. more \in Seq(Char \union {EOF}) /\ Len(more) = Len(b) + 1 + Len(text) - n
  BY <1>2, <1>3, UpcomingType
<1> HIDE DEF long, all, more
<1>6. /\ <<c>> \o all \in Seq(Char \union {EOF}) /\ Len(<<c>> \o all) = 1 + Len(all)
      /\ \A i \in 1..1 + Len(all) :
           (<<c>> \o all)[i] = IF i <= 1 THEN c ELSE all[i - 1]
  BY <1>4, ConcatProperties
<1>7. ASSUME NEW i \in 1..Len(more) PROVE (<<c>> \o all)[i] = more[i]
  <2>1. more[i] = IF i <= Len(long) THEN long[Len(long) + 1 - i] ELSE text[n + i - Len(long)]
    BY <1>1, <1>2, <1>7, <1>5 DEF more, Upcoming
  <2>2. CASE i = 1
    BY <1>1, <1>2, <1>7, <1>4, <1>6, <2>1, <2>2
  <2>3. CASE i # 1
    <3>1. (<<c>> \o all)[i] = all[i - 1]
      BY <1>1, <1>4, <1>5, <1>6, <2>3
    <3>2. all[i - 1] = IF i - 1 <= Len(b) THEN b[Len(b) + 2 - i] ELSE text[n + i - 1 - Len(b)]
      BY <1>1, <1>5, <1>7, <2>3 DEF all, Upcoming
    <3>3. CASE i <= Len(b) + 1
      <4>1. Len(long) + 1 - i = Len(b) + 2 - i /\ Len(b) + 2 - i \in 1..Len(b)
        BY <1>1, <1>2, <1>7, <2>3, <3>3
      <4>2. i <= Len(long) /\ i - 1 <= Len(b)
        BY <1>1, <1>2, <1>7, <3>3
      <4>3. more[i] = long[Len(b) + 2 - i]
        BY <2>1, <4>1, <4>2
      <4>4. (<<c>> \o all)[i] = b[Len(b) + 2 - i]
        BY <3>1, <3>2, <4>2
      <4> QED
        BY <1>2, <4>1, <4>3, <4>4
    <3>4. CASE ~(i <= Len(b) + 1)
      <4>1. n + i - 1 - Len(b) = n + i - Len(long)
        BY <1>1, <1>2, <1>7, <1>7
      <4>2. ~(i <= Len(long)) /\ ~(i - 1 <= Len(b))
        BY <1>1, <1>2, <1>7, <3>4
      <4> QED
        BY <2>1, <3>1, <3>2, <4>1, <4>2
    <3> QED
      BY <3>3, <3>4
  <2> QED
    BY <1>7, <2>2, <2>3
<1> QED
  BY <1>1, <1>4, <1>5, <1>6, <1>7, SeqEqual DEF all, more, long

(* The buffered stream is a list one can read from and put back to.        *)
THEOREM StreamImplementsLookahead == Spec => ImplementsLookahead
<1>1. Init => Abstract!Init
  <2> SUFFICES ASSUME Init PROVE Rest \in Texts /\ got = EOF
    BY DEF Abstract!Init
  <2>1. /\ source \in Seq(Char \union {EOF}) /\ source \in Texts
        /\ got = EOF /\ buffer = <<>> /\ pos = 0
    BY TextType DEF Init
  <2>2. Stage(source, pos, buffer)
    BY <2>1 DEF Stage
  <2>3. Rest \in Seq(Char \union {EOF}) /\ Len(Rest) = Len(source)
    BY <2>1, <2>2, UpcomingType DEF Rest
  <2>4. \A i \in 1..Len(Rest) : Rest[i] = source[i]
    BY <2>1, <2>3 DEF Rest, Upcoming
  <2>5. source \in Seq(Char \union {EOF})
    BY <2>1
  <2>6. Rest = source
    BY <2>3, <2>4, <2>5, SeqEqual
  <2> QED
    BY <2>1, <2>6
<1>2. TypeOK /\ [Next]_vars => [Abstract!Next]_<<Rest, got>>
  <2> SUFFICES ASSUME TypeOK, [Next]_vars PROVE [Abstract!Next]_<<Rest, got>>
    OBVIOUS
  <2>1. Stage(source, pos, buffer)
    BY TextType DEF Stage, TypeOK
  <2>2. CASE ReadChar /\ buffer # <<>>
    <3>1. /\ got' = buffer[Len(buffer)] /\ source' = source /\ pos' = pos
          /\ buffer' = SubSeq(buffer, 1, Len(buffer) - 1)
      BY <2>2 DEF ReadChar, NextChar, Take
    <3>2. Rest # <<>> /\ got' = Head(Rest) /\ Rest' = Tail(Rest)
      BY <2>1, <2>2, <3>1, PopIsTail DEF Rest
    <3> QED
      BY <3>2 DEF Abstract!Next, Abstract!ReadChar
  <2>3. CASE ReadChar /\ buffer = <<>> /\ pos < Len(source)
    <3>1. got' = source[pos + 1] /\ source' = source /\ pos' = pos + 1 /\ buffer' = buffer
      BY <2>3 DEF ReadChar, NextChar, Take
    <3>2. Rest # <<>> /\ got' = Head(Rest) /\ Rest' = Tail(Rest)
      BY <2>1, <2>3, <3>1, GetIsTail DEF Rest
    <3> QED
      BY <3>2 DEF Abstract!Next, Abstract!ReadChar
  <2>4. CASE ReadChar /\ buffer = <<>> /\ ~(pos < Len(source))
    <3>1. got' = EOF /\ source' = source /\ pos' = pos /\ buffer' = buffer
      BY <2>4 DEF ReadChar, NextChar, Take
    <3>2. Rest' = Rest
      BY <3>1 DEF Rest
    <3>3. Len(Rest) = 0 /\ Rest \in Seq(Char \union {EOF})
      <4>1. Len(buffer) = 0 /\ Len(source) - pos = 0
        BY <2>1, <2>4 DEF Stage
      <4> QED
        BY <2>1, <2>4, <4>1, UpcomingType DEF Rest
    <3> QED
      BY <3>1, <3>2, <3>3 DEF Abstract!Next, Abstract!ReadAtEnd
  <2>5. ASSUME NEW c \in Char \union {EOF}, Putback(c) PROVE Abstract!Next
    <3>1. buffer' = Append(buffer, c) /\ source' = source /\ pos' = pos /\ got' = got
      BY <2>5 DEF Putback, Push
    <3>2. Rest' = <<c>> \o Rest
      BY <2>1, <3>1, PushIsCons DEF Rest
    <3> QED
      BY <3>1, <3>2 DEF Abstract!Next, Abstract!Putback
  <2>6. CASE UNCHANGED vars
    BY <2>6 DEF vars, Rest
  <2> QED
    BY <2>2, <2>3, <2>4, <2>5, <2>6 DEF Next
<1> QED
  BY <1>1, <1>2, StreamTypes, PTL DEF Spec, ImplementsLookahead, Abstract!Spec

=============================================================================
