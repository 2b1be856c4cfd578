----------------------- MODULE TokenizerTokens_proofs -----------------------
(***************************************************************************)
(* Rows, columns and seek: the position the tokenizer keeps is the one of  *)
(* its cursor on the text.  And the tokens: what a call skips, what it     *)
(* answers, and that the answer is what the text has at its place.         *)
(***************************************************************************)
EXTENDS Tokenizer_proofs, FiniteSetTheorems

-----------------------------------------------------------------------------
(* Places.                                                                 *)

(* One place further, the row and the column of a text are those of the    *)
(* place before, but for what the character there adds.                    *)
LEMMA RowOfNext ==
  ASSUME NEW k \in Nat
  PROVE  /\ RowOf(k) \in Nat
         /\ RowOf(0) = 0
         /\ RowOf(k + 1) = IF source[k + 1] = "\n" THEN RowOf(k) + 1 ELSE RowOf(k)
<1> DEFINE R(m) == {i \in 1..m : source[i] = "\n"}
<1>1. \A m \in Nat : IsFiniteSet(R(m))
  <2> SUFFICES ASSUME NEW m \in Nat PROVE IsFiniteSet(R(m))
    OBVIOUS
  <2>1. IsFiniteSet(1..m)
    BY FS_Interval
  <2>2. R(m) \subseteq 1..m
    OBVIOUS
  <2> QED
    BY <2>1, <2>2, FS_Subset
<1>0. RowOf(k) = Cardinality(R(k)) /\ RowOf(k + 1) = Cardinality(R(k + 1))
  BY DEF RowOf
<1>2. RowOf(k) \in Nat
  BY <1>1, FS_CardinalityType DEF RowOf
<1>3. RowOf(0) = 0
  <2>1. R(0) = {}
    OBVIOUS
  <2> QED
    BY <2>1, FS_EmptySet DEF RowOf
<1>4. CASE source[k + 1] = "\n"
  <2>1. R(k + 1) = R(k) \union {k + 1} /\ k + 1 \notin R(k)
    BY <1>4
  <2>2. IsFiniteSet(R(k))
    BY <1>1
  <2> HIDE DEF R
  <2>3. Cardinality(R(k + 1)) = Cardinality(R(k)) + 1
    BY <2>1, <2>2, FS_AddElement
  <2> QED
    BY <1>0, <1>2, <1>3, <1>4, <2>3
<1>5. CASE source[k + 1] # "\n"
  <2>1. R(k + 1) = R(k)
    BY <1>5
  <2> HIDE DEF R
  <2> QED
    BY <1>0, <1>2, <1>3, <1>5, <2>1
<1> QED
  BY <1>2, <1>3, <1>4, <1>5

(* One place further, the column grows by one, or starts anew at a line    *)
(* end.                                                                    *)
LEMMA ColOfNext ==
  ASSUME NEW k \in Nat
  PROVE  /\ ColOf(k) \in Nat
         /\ ColOf(0) = 0
         /\ ColOf(k + 1) = IF source[k + 1] = "\n" THEN 0 ELSE ColOf(k) + 1
<1> DEFINE C(m) == {i \in 1..m : \A j \in i..m : source[j] # "\n"}
<1>1. \A m \in Nat : IsFiniteSet(C(m))
  <2> SUFFICES ASSUME NEW m \in Nat PROVE IsFiniteSet(C(m))
    OBVIOUS
  <2>1. IsFiniteSet(1..m)
    BY FS_Interval
  <2>2. C(m) \subseteq 1..m
    OBVIOUS
  <2> QED
    BY <2>1, <2>2, FS_Subset
<1>0. ColOf(k) = Cardinality(C(k)) /\ ColOf(k + 1) = Cardinality(C(k + 1))
  BY DEF ColOf
<1>2. ColOf(k) \in Nat
  BY <1>1, FS_CardinalityType DEF ColOf
<1>3. ColOf(0) = 0
  <2>1. C(0) = {}
    OBVIOUS
  <2> QED
    BY <2>1, FS_EmptySet DEF ColOf
<1>4. CASE source[k + 1] # "\n"
  <2>1. C(k + 1) = C(k) \union {k + 1}
    <3>1. ASSUME NEW i \in C(k + 1) PROVE i \in C(k) \union {k + 1}
      <4>1. i = k + 1 \/ (i \in 1..k /\ \A j \in i..k : j \in i..k + 1)
        OBVIOUS
      <4> QED
        BY <4>1
    <3>2. ASSUME NEW i \in C(k) PROVE i \in C(k + 1)
      <4>1. i \in 1..k + 1 /\ \A j \in i..k + 1 : j \in i..k \/ j = k + 1
        OBVIOUS
      <4> QED
        BY <1>4, <4>1
    <3>3. k + 1 \in C(k + 1)
      <4>1. \A j \in k + 1..k + 1 : j = k + 1
        OBVIOUS
      <4> QED
        BY <1>4, <4>1
    <3> QED
      BY <3>1, <3>2, <3>3
  <2>2. k + 1 \notin C(k)
    OBVIOUS
  <2>3. IsFiniteSet(C(k))
    BY <1>1
  <2> HIDE DEF C
  <2>4. Cardinality(C(k + 1)) = Cardinality(C(k)) + 1
    BY <2>1, <2>2, <2>3, FS_AddElement
  <2> QED
    BY <1>0, <1>2, <1>3, <1>4, <2>4
<1>5. CASE source[k + 1] = "\n"
  <2>1. C(k + 1) = {}
    BY <1>5
  <2> HIDE DEF C
  <2> QED
    BY <1>0, <1>2, <1>3, <1>5, <2>1, FS_EmptySet
<1> QED
  BY <1>2, <1>3, <1>4, <1>5

(* seek_ and the row, as far as they are right in every text.              *)
Places ==
  /\ pos < Len(source) => seek = Cursor
  /\ row = RowOf(Cursor)

(* A read, in terms of the cursor.                                         *)
LEMMA ReadAtCursor ==
  ASSUME Typed, Suffix, ReadChar, source' = source
  PROVE  /\ Cursor \in Nat /\ Cursor <= Len(source) /\ Len(source) \in Nat /\ pos <= pos' /\ pos' \in Nat
         /\ Cursor < Len(source) =>
              Cursor' = Cursor + 1 /\ ch' = source[Cursor + 1] /\ ch' # EOF
         /\ Cursor = Len(source) => Cursor' = Cursor /\ ch' = EOF /\ pos = Len(source) /\ pos' = pos
<1>1. /\ source \in Seq(Char) /\ Len(source) \in Nat /\ pos \in Nat /\ pos <= Len(source)
      /\ Len(buffer) \in Nat
  BY StreamTypes
<1>2. Len(buffer) <= pos
  BY DEF Suffix
<1>3. PICK n \in Nat : n = Cursor /\ n <= Len(source)
  BY <1>1, <1>2 DEF Cursor
<1>4. ch' = CharAt(n + 1)' /\ Placed(n + 1)'
  BY <1>1, <1>3, ReadOn DEF Placed, Reads
<1>5. CharAt(n + 1)' = CharAt(n + 1)
  BY DEF CharAt
<1>6. CASE n < Len(source)
  <2>1. n + 1 <= Len(source) /\ n + 1 \in Nat \ {0}
    BY <1>1, <1>3, <1>6
  <2>2. CharAt(n + 1) = source[n + 1] /\ CharAt(n + 1) # EOF
    BY <2>1, CharAtTypes
  <2>3. Cursor' = n + 1
    BY <1>4, <2>1 DEF Placed
  <2>4. pos <= pos' /\ pos' \in Nat
    BY <1>1 DEF ReadChar, Stream!Take
  <2> QED
    BY <1>1, <1>3, <1>4, <1>5, <1>6, <2>2, <2>3, <2>4
<1>7. CASE n = Len(source)
  <2>1. n + 1 > Len(source) /\ n + 1 \in Nat \ {0}
    BY <1>1, <1>3, <1>7
  <2>2. CharAt(n + 1) = EOF
    BY <2>1, CharAtTypes
  <2>3. Cursor' = n
    BY <1>1, <1>4, <1>7, <2>1 DEF Placed
  <2>4. pos = Len(source) /\ Len(buffer) = 0
    BY <1>1, <1>2, <1>3, <1>7 DEF Cursor
  <2>5. pos' = pos /\ pos' \in Nat
    BY <1>1, <2>4 DEF ReadChar, Stream!Take
  <2> QED
    BY <1>1, <1>3, <1>4, <1>5, <1>7, <2>2, <2>3, <2>4, <2>5
<1> QED
  BY <1>1, <1>3, <1>6, <1>7

(* A push-back, in terms of the cursor.                                    *)
LEMMA PutbackAtCursor ==
  ASSUME Typed, Suffix, source' = source, NEW n \in Nat \ {0}, Placed(n), Putback(CharAt(n))
  PROVE  /\ Len(source) \in Nat /\ pos' = pos
         /\ n <= Len(source) =>
              Cursor = n /\ Cursor' = n - 1 /\ CharAt(n) = source[n] /\ CharAt(n) # EOF
         /\ n > Len(source) =>
              /\ Cursor = Len(source) /\ Cursor' = Cursor /\ CharAt(n) = EOF
              /\ pos = Len(source)
<1>1. /\ source \in Seq(Char) /\ Len(source) \in Nat /\ pos \in Nat /\ pos <= Len(source)
      /\ Len(buffer) \in Nat
  BY StreamTypes
<1>2. Len(buffer) <= pos
  BY DEF Suffix
<1>3. Placed(n - 1)'
  BY PutBackAt
<1>4. pos' = pos
  BY DEF Putback, stream, Stream!Push
<1>5. CASE n <= Len(source)
  BY <1>1, <1>3, <1>4, <1>5, CharAtTypes DEF Placed
<1>6. CASE n > Len(source)
  <2>1. Cursor = Len(source) /\ CharAt(n) = EOF
    BY <1>6, CharAtTypes DEF Placed
  <2>2. Cursor' = Cursor
    BY <2>1 DEF Putback, stream, Cursor
  <2>3. pos = Len(source)
    BY <1>1, <1>2, <2>1 DEF Cursor
  <2> QED
    BY <1>1, <1>4, <1>6, <2>1, <2>2, <2>3
<1> QED
  BY <1>1, <1>5, <1>6

(* Whatever moves the stream on the tape keeps seek_ and the row right.    *)
LEMMA MovedPlaces == Typed /\ Suffix /\ Places /\ Moved => Places'
<1> SUFFICES ASSUME Typed, Suffix, Places, Moved PROVE Places'
  OBVIOUS
<1>0. /\ source' = source /\ Len(source) \in Nat /\ pos \in Nat /\ Cursor \in Int
      /\ Cursor <= Len(source) /\ Len(source) <= MaxSize /\ MaxSize \in Nat
  <2>1. Len(source) <= MaxSize
    BY TextsFit DEF Typed, TypeOK
  <2> QED
    BY <2>1, StreamTypes, MaxSizeIsNat DEF Moved
<1>1. \A k : RowOf(k)' = RowOf(k)
  BY <1>0 DEF RowOf
<1>2. CASE ReadChar
  <2>1. /\ Cursor \in Nat /\ pos <= pos' /\ pos' \in Nat
        /\ Cursor < Len(source) =>
             Cursor' = Cursor + 1 /\ ch' = source[Cursor + 1] /\ ch' # EOF
        /\ Cursor = Len(source) => Cursor' = Cursor /\ ch' = EOF /\ pos = Len(source) /\ pos' = pos
    BY <1>0, <1>2, ReadAtCursor
  <2>2. PICK k \in Nat : k = Cursor
    BY <2>1
  <2>3. /\ row' = IF ch' = "\n" THEN row + 1 ELSE row
        /\ seek' = IF ch' = EOF THEN seek ELSE Up(seek)
    BY <1>2 DEF ReadChar
  <2>4. row = RowOf(k)
    BY <2>2 DEF Places
  <2>5. CASE k < Len(source)
    <3>1. Cursor' = k + 1 /\ ch' = source[k + 1] /\ ch' # EOF
      BY <2>1, <2>2, <2>5
    <3>2. row' = RowOf(k + 1)
      BY <2>3, <2>4, <3>1, RowOfNext
    <3>3. row' = RowOf(Cursor)'
      BY <1>1, <3>1, <3>2 DEF RowOf
    <3>4. ASSUME pos' < Len(source) PROVE seek' = k + 1
      <4>1. seek = k
        <5>1. pos < Len(source)
          BY <1>0, <2>1, <3>4
        <5> QED
          BY <2>2, <5>1 DEF Places
      <4>2. k # MaxSize
        BY <1>0, <2>5
      <4> QED
        BY <2>3, <3>1, <4>1, <4>2 DEF Up
    <3> QED
      BY <1>0, <3>1, <3>3, <3>4 DEF Places
  <2>6. CASE k = Len(source)
    <3>1. Cursor' = k /\ ch' = EOF /\ pos' = Len(source)
      BY <2>1, <2>2, <2>6
    <3>2. row' = row
      BY <2>3, <3>1, EofIsNoSpelling
    <3>3. row' = RowOf(Cursor)'
      BY <1>0, <2>4, <3>1, <3>2 DEF RowOf
    <3> QED
      BY <1>0, <3>1, <3>3 DEF Places
  <2> QED
    BY <1>0, <2>2, <2>5, <2>6
<1>3. CASE UNCHANGED <<stream, place>>
  BY <1>0, <1>3 DEF Places, RowOf, Cursor, stream, place
<1>4. ASSUME NEW n \in Nat \ {0}, Placed(n), MayPutback(CharAt(n)), Putback(CharAt(n))
      PROVE  Places'
  <2>1. /\ pos' = pos
        /\ n <= Len(source) =>
             Cursor = n /\ Cursor' = n - 1 /\ CharAt(n) = source[n] /\ CharAt(n) # EOF
        /\ n > Len(source) =>
              /\ Cursor = Len(source) /\ Cursor' = Cursor /\ CharAt(n) = EOF
              /\ pos = Len(source)
    BY <1>0, <1>4, PutbackAtCursor
  <2>2. CASE n <= Len(source)
    <3>1. Cursor = n /\ Cursor' = n - 1 /\ CharAt(n) = source[n] /\ CharAt(n) # EOF
      BY <2>1, <2>2
    <3>2. row' = IF source[n] = "\n" THEN row - 1 ELSE row
      BY <1>4, <3>1 DEF Putback
    <3>3. row = RowOf(n)
      BY <3>1 DEF Places
    <3>4. PICK k \in Nat : k = n - 1
      OBVIOUS
    <3>5. RowOf(k) \in Nat /\ RowOf(n) = IF source[n] = "\n" THEN RowOf(k) + 1 ELSE RowOf(k)
      <4>1. n = k + 1
        BY <3>4
      <4> QED
        BY <4>1, RowOfNext
    <3>6. row' = RowOf(k)
      BY <3>2, <3>3, <3>5
    <3>7. row' = RowOf(Cursor)'
      BY <1>0, <3>1, <3>4, <3>6 DEF RowOf
    <3>8. ASSUME pos < Len(source) PROVE seek' = n - 1
      <4>1. seek = n
        BY <3>1, <3>8 DEF Places
      <4> QED
        BY <1>4, <4>1 DEF Putback, Down
    <3> QED
      BY <1>0, <2>1, <3>1, <3>7, <3>8 DEF Places
  <2>3. CASE n > Len(source)
    <3>1. Cursor' = Cursor /\ CharAt(n) = EOF /\ pos' = Len(source)
      BY <2>1, <2>3
    <3>2. row' = row
      BY <1>4, <3>1 DEF Putback
    <3>3. row' = RowOf(Cursor)'
      BY <1>0, <3>1, <3>2 DEF Places, RowOf
    <3> QED
      BY <1>0, <3>1, <3>3 DEF Places
  <2> QED
    BY <1>0, <2>2, <2>3
<1> QED
  BY <1>2, <1>3, <1>4 DEF Moved

Placing == ClassFree => Places

(* Row and seek are where the cursor is, in every state.                   *)
LEMMA AlwaysPlaced == Spec => []Placing
<1>1. Init => Placing
  <2> SUFFICES ASSUME Init PROVE Places
    BY DEF Placing
  <2>1. pos = 0 /\ buffer = <<>> /\ seek = 0 /\ row = 0 /\ Cursor = 0
    <3>1. pos = 0 /\ buffer = <<>> /\ seek = 0 /\ row = 0
      BY DEF Init
    <3>2. pos - Len(buffer) = 0
      <4>1. Len(buffer) = 0
        BY <3>1
      <4>2. 0 - 0 = 0
        OBVIOUS
      <4> QED
        BY <3>1, <4>1, <4>2
    <3> QED
      BY <3>1, <3>2 DEF Cursor
  <2> QED
    BY <2>1, RowOfNext DEF Places
<1>2. OnTape /\ Placing /\ [Next]_vars => Placing'
  <2> SUFFICES ASSUME Typed, ClassFree => Tape, ClassFree => Places, [Next]_vars, ClassFree'
               PROVE  Places'
    BY DEF Placing, OnTape
  <2>1. CASE Step
    <3>1. ClassFree
      BY <2>1, StepSource DEF ClassFree
    <3> QED
      BY <2>1, <3>1, StepTape, MovedPlaces DEF Tape
  <2>2. ASSUME NEW mode \in BOOLEAN, Call(mode) PROVE Places'
    <3>1. ClassFree /\ Moved
      BY <2>2 DEF Call, ClassFree, Moved
    <3> QED
      BY <3>1, MovedPlaces DEF Tape
  <2>3. CASE Reset
    <3>1. pos' = 0 /\ buffer' = <<>> /\ seek' = 0 /\ row' = 0 /\ Cursor' = 0
      <4>1. pos' = 0 /\ buffer' = <<>> /\ seek' = 0 /\ row' = 0
        BY <2>3 DEF Reset
      <4>2. pos' - Len(buffer') = 0
        <5>1. Len(buffer') = 0
          BY <4>1
        <5>2. 0 - 0 = 0
          OBVIOUS
        <5> QED
          BY <4>1, <5>1, <5>2
      <4> QED
        BY <4>1, <4>2 DEF Cursor
    <3>2. RowOf(0)' = 0
      <4>1. {i \in 1..0 : source'[i] = "\n"} = {}
        OBVIOUS
      <4> QED
        BY <4>1, FS_EmptySet DEF RowOf
    <3>3. RowOf(Cursor)' = RowOf(0)'
      BY <3>1 DEF RowOf
    <3> QED
      BY <3>1, <3>2, <3>3 DEF Places
  <2>4. CASE UNCHANGED vars
    <3>1. ClassFree
      BY <2>4 DEF vars, call, ClassFree
    <3> QED
      BY <2>4, <3>1 DEF Places, RowOf, Cursor, vars, stream, place, call
  <2> QED
    BY <2>1, <2>2, <2>3, <2>4, ModesAreBooleans DEF Next, Advance, Peek, Aborted
<1> QED
  BY <1>1, <1>2, AlwaysOnTape, PTL DEF Spec

(* seek_ counts the characters consumed until the text has been exhausted: *)
(* every putback() takes back exactly what its readchar() had added.       *)
THEOREM TokenizerSeekTracks == Spec => []SeekTracksCursor
<1>1. Placing => SeekTracksCursor
  BY DEF Placing, Places, SeekTracksCursor
<1> QED
  BY <1>1, AlwaysPlaced, PTL

ColRight == col = ColOf(Cursor)

NextIsNewline == Cursor < Len(source) /\ source[Cursor + 1] = "\n"

(* The column is right as well in plain texts, but for a line end that has *)
(* been put back behind another one; the column it will need is remembered *)
(* wherever a line end may be put back and the lexeme goes on.             *)
Columns ==
  /\ pc # "abort"
  /\ pc # "regexEscaped"
  /\ ColRight \/ (pc \in {"idle", "one"} /\ NextIsNewline)
  /\ pc = "slash" /\ ch = "\n" => last_col = ColOf(start)
  /\ pc = "regex" /\ ch = "\n" => last_col = ColOf(start + Len(acc))
  /\ pc = "third" /\ ch = "\n" => last_col = ColOf(start + 1)
  /\ pc \in {"regex", "unread"} => \A i \in 1..Len(acc) : acc[i] # "\n"

(* readchar() keeps the column right, and leaves the column of the line it *)
(* ends in last_col_length_.                                               *)
LEMMA ReadColumns ==
  ASSUME Typed, Suffix, ReadChar, source' = source, ColRight \/ NextIsNewline
  PROVE  /\ ColRight'
         /\ ch' = "\n" /\ ColRight => last_col' = ColOf(Cursor) /\ Cursor' = Cursor + 1
<1>1. /\ Cursor \in Nat /\ Cursor <= Len(source) /\ Len(source) \in Nat
      /\ Cursor < Len(source) =>
           Cursor' = Cursor + 1 /\ ch' = source[Cursor + 1] /\ ch' # EOF
      /\ Cursor = Len(source) => Cursor' = Cursor /\ ch' = EOF
  BY ReadAtCursor
<1>2. PICK k \in Nat : k = Cursor
  BY <1>1
<1>3. /\ ch' = "\n" => last_col' = col /\ col' = 0
      /\ ch' # "\n" => col' = IF ch' = EOF THEN col ELSE col + 1
  BY DEF ReadChar
<1>4. CASE k < Len(source)
  <2>1. Cursor' = k + 1 /\ ch' = source[k + 1] /\ ch' # EOF
    BY <1>1, <1>2, <1>4
  <2>2. ColOf(k + 1) = IF source[k + 1] = "\n" THEN 0 ELSE ColOf(k) + 1
    BY ColOfNext
  <2>3. ColRight'
    <3>1. col' = ColOf(k + 1)
      BY <1>2, <1>3, <2>1, <2>2 DEF ColRight, NextIsNewline
    <3> QED
      BY <2>1, <3>1 DEF ColRight, ColOf
  <2> QED
    BY <1>2, <1>3, <2>1, <2>3 DEF ColRight
<1>5. CASE k = Len(source)
  <2>1. Cursor' = k /\ ch' = EOF /\ ch' # "\n" /\ ~NextIsNewline
    BY <1>1, <1>2, <1>5, EofIsNoSpelling DEF NextIsNewline
  <2>2. col' = ColOf(k)
    BY <1>2, <1>3, <2>1 DEF ColRight
  <2> QED
    BY <2>1, <2>2 DEF ColRight, ColOf
<1> QED
  BY <1>1, <1>2, <1>4, <1>5

(* The assertions of putback() hold wherever row and column are right.     *)
LEMMA MayPutbackHere ==
  ASSUME Typed, row = RowOf(Cursor), ColRight, NEW n \in Nat \ {0}, Placed(n)
  PROVE  MayPutback(CharAt(n))
<1>1. CASE n > Len(source)
  BY <1>1, CharAtTypes DEF MayPutback
<1>2. CASE n <= Len(source)
  <2>1. CharAt(n) = source[n] /\ CharAt(n) # EOF /\ Cursor = n
    BY <1>2, CharAtTypes DEF Placed
  <2>2. PICK k \in Nat : n = k + 1
    <3>1. n - 1 \in Nat /\ n = n - 1 + 1
      OBVIOUS
    <3> QED
      BY <3>1
  <2>3. row = RowOf(k + 1) /\ col = ColOf(k + 1)
    BY <2>1, <2>2 DEF ColRight
  <2>4. /\ RowOf(k) \in Nat /\ ColOf(k) \in Nat
        /\ RowOf(k + 1) = IF source[k + 1] = "\n" THEN RowOf(k) + 1 ELSE RowOf(k)
        /\ ColOf(k + 1) = IF source[k + 1] = "\n" THEN 0 ELSE ColOf(k) + 1
    BY RowOfNext, ColOfNext
  <2>5. /\ source[n] = "\n" => row # 0
        /\ source[n] # "\n" => col # 0
    BY <2>2, <2>3, <2>4
  <2> QED
    BY <2>1, <2>5 DEF MayPutback
<1> QED
  BY <1>1, <1>2, StreamTypes

(* putback() keeps the column right when the column it restores at a line  *)
(* end is the one remembered.                                              *)
LEMMA PutbackColumns ==
  ASSUME Typed, Suffix, source' = source, ColRight,
         NEW n \in Nat \ {0}, Placed(n), Putback(CharAt(n))
  PROVE  /\ CharAt(n) # "\n" => ColRight'
         /\ CharAt(n) = "\n" => NextIsNewline' /\ (last_col = ColOf(n - 1) => ColRight')
<1>1. /\ Len(source) \in Nat
      /\ n <= Len(source) =>
           Cursor = n /\ Cursor' = n - 1 /\ CharAt(n) = source[n] /\ CharAt(n) # EOF
      /\ n > Len(source) =>
           Cursor = Len(source) /\ Cursor' = Cursor /\ CharAt(n) = EOF
  BY PutbackAtCursor
<1>2. CASE n <= Len(source)
  <2>1. PICK k \in Nat : n = k + 1 /\ k = n - 1 /\ k < Len(source)
    <3>1. n - 1 \in Nat /\ n = n - 1 + 1 /\ n - 1 < Len(source)
      BY <1>1, <1>2
    <3> QED
      BY <3>1
  <2>2. Cursor = k + 1 /\ Cursor' = k /\ CharAt(n) = source[k + 1] /\ CharAt(n) # EOF
    BY <1>1, <1>2, <2>1
  <2>3. ColOf(k) \in Nat /\ ColOf(k + 1) = IF source[k + 1] = "\n" THEN 0 ELSE ColOf(k) + 1
    BY ColOfNext
  <2>4. col' = IF source[k + 1] = "\n" THEN last_col ELSE col - 1
    BY <2>2 DEF Putback
  <2>5. ColRight' <=> col' = ColOf(k)
    BY <2>2 DEF ColRight, ColOf
  <2>6. source[k + 1] # "\n" => col' = ColOf(k)
    BY <2>2, <2>3, <2>4 DEF ColRight
  <2>7. source[k + 1] = "\n" => NextIsNewline'
    BY <2>1, <2>2 DEF NextIsNewline
  <2> QED
    BY <2>1, <2>2, <2>4, <2>5, <2>6, <2>7
<1>3. CASE n > Len(source)
  <2>1. Cursor' = Cursor /\ CharAt(n) = EOF /\ CharAt(n) # "\n"
    BY <1>1, <1>3, EofIsNoSpelling
  <2>2. col' = col
    BY <2>1 DEF Putback
  <2> QED
    BY <2>1, <2>2 DEF ColRight, ColOf
<1> QED
  BY <1>1, <1>2, <1>3

(* A text without brackets and backslashes has none on its tape.           *)
LEMMA PlainChars ==
  ASSUME Typed, Plain, NEW n \in Nat \ {0}, Reads(n)
  PROVE  ch \notin {"[", "\\"}
<1>1. CASE n <= Len(source)
  BY <1>1, StreamTypes, CharAtTypes DEF Plain, Reads
<1>2. CASE n > Len(source)
  BY <1>2, CharAtTypes, EofIsNoSpelling DEF Reads
<1> QED
  BY <1>1, <1>2, StreamTypes

(* Where the column is found right or wrong, at any rate.                  *)
LEMMA Landed ==
  ASSUME pc' \notin {"abort", "slash", "regex", "regexEscaped", "third", "unread"},
         ColRight' \/ (pc' \in {"idle", "one"} /\ NextIsNewline')
  PROVE  Columns'
  BY DEF Columns

(* A step that reads on, or only looks at what has been read.              *)
Ordinary ==
  /\ source' = source
  /\ ReadChar \/ (UNCHANGED <<stream, place>> /\ (pc = "one" => pc' = "idle"))
  /\ pc # "idle"
  /\ pc' \notin {"abort", "slash", "regex", "regexEscaped", "third", "unread"}

(* A step that neither crosses a line end backwards nor starts a lexeme    *)
(* keeps the column right.                                                 *)
LEMMA OrdinaryColumns ==
  ASSUME Typed, Suffix, Columns, Ordinary
  PROVE  Columns'
<1>1. CASE ReadChar
  BY <1>1, ReadColumns, Landed DEF Ordinary, Columns
<1>2. CASE UNCHANGED <<stream, place>> /\ (pc = "one" => pc' = "idle")
  BY <1>2, Landed DEF Ordinary, Columns, ColRight, NextIsNewline, ColOf, Cursor, stream, place
<1> QED
  BY <1>1, <1>2 DEF Ordinary

(* putback(ch) before an answer: of a line end it may leave the column     *)
(* behind, and only then.                                                  *)
LEMMA PutbackReturnColumns ==
  ASSUME Typed, Suffix, Places, ColRight, NEW n \in Nat \ {0}, Reads(n),
         NEW type, NEW view, NEW where,
         PutbackThen(ch, Return(type, view, where))
  PROVE  Columns'
<1>1. ch = CharAt(n) /\ Placed(n)
  BY DEF Reads
<1>2. MayPutback(ch)
  BY <1>1, MayPutbackHere DEF Places
<1>3. Putback(CharAt(n)) /\ pc' = "idle" /\ source' = source
  BY <1>1, <1>2 DEF PutbackThen, Return, call
<1>4. ColRight' \/ NextIsNewline'
  BY <1>1, <1>3, PutbackColumns
<1> QED
  BY <1>3, <1>4, Landed

(* Blanks, comments and the question of the slash keep the columns.        *)
LEMMA BlanksColumns ==
  ASSUME Typed, Plain, Tape, Places, Columns, Blanks
  PROVE  Columns'
<1>0. Suffix /\ Len(source) \in Nat /\ from \in Nat
  BY StreamTypes DEF Tape
<1>a. pc \notin {"idle", "one"} => ColRight
  BY DEF Columns
<1>1. CASE SkipSpace \/ LexemeStart \/ SlashAtEnd \/ LineCommentStart \/ LineComment
           \/ BlockCommentStart \/ BlockComment \/ BlockCommentEnd
  <2>1. Ordinary
    BY <1>1 DEF SkipSpace, LexemeStart, SlashAtEnd, LineCommentStart, LineComment,
                BlockCommentStart, BlockComment, BlockCommentEnd, Ordinary,
                Read, Goto, ReturnHere, Return, call
  <2> QED
    BY <1>0, <2>1, OrdinaryColumns
<1>2. CASE Slash
  <2>1. /\ ReadChar /\ source' = source /\ pc' = "slash" /\ start' = Cursor /\ pc = "scan"
    BY <1>2 DEF Slash, Read, call
  <2>2. ColRight' /\ (ch' = "\n" => last_col' = ColOf(Cursor))
    BY <1>0, <1>a, <2>1, ReadColumns
  <2>3. ch' = "\n" => last_col' = ColOf(start)'
    BY <2>1, <2>2 DEF ColOf
  <2> QED
    BY <2>1, <2>2, <2>3 DEF Columns
<1>3. CASE SlashAlone
  <2>1. pc = "slash"
    BY <1>3 DEF SlashAlone
  <2>2. PICK n \in Nat \ {0} : n = start + 1 /\ Reads(n) /\ start = n - 1
    <3>1. Reads(start + 1) /\ start \in from + 1..Len(source)
      BY <2>1 DEF Tape, Lexical
    <3> QED
      BY <1>0, <3>1
  <2>3. ch = CharAt(n) /\ Placed(n)
    BY <2>2 DEF Reads
  <2>4. MayPutback(ch)
    BY <1>a, <2>1, <2>3, MayPutbackHere DEF Places
  <2>5. /\ Putback(CharAt(n)) /\ source' = source /\ pc' \in {"token", "regexStart"}
    BY <1>3, <2>3, <2>4 DEF SlashAlone, PutbackThen, Goto, call
  <2>6. ch = "\n" => last_col = ColOf(n - 1)
    BY <2>1, <2>2 DEF Columns
  <2>7. ColRight'
    BY <1>0, <1>a, <2>1, <2>3, <2>5, <2>6, PutbackColumns
  <2> QED
    BY <2>5, <2>7, Landed
<1> QED
  BY <1>1, <1>2, <1>3 DEF Blanks

(* parseRegex keeps the columns: what it puts back is on one line.         *)
LEMMA ParseRegexColumns ==
  ASSUME Typed, Plain, Tape, Places, Columns, ParseRegex
  PROVE  Columns'
<1>0. /\ Suffix /\ Len(source) \in Nat /\ from \in Nat
      /\ acc \in Seq(Marked) /\ Len(acc) \in Nat /\ ch \in Marked
  BY StreamTypes DEF Tape, Typed, TypeOK, Marked
<1>a. pc \notin {"idle", "one"} => ColRight
  BY DEF Columns
<1>b. pc \notin {"regexEscaped", "class", "classEscaped"}
  BY DEF Columns, Tape
<1>c. ASSUME pc \in {"regex", "flags"}
      PROVE  \E n \in Nat \ {0} : /\ n = start + 1 + Len(acc) /\ Reads(n) /\ n - 1 = start + Len(acc)
                                  /\ start \in Nat \ {0}
  <2>1. start \in from + 1..Len(source) /\ Reads(start + 1 + Len(acc))
    BY <1>c DEF Tape, Lexical
  <2> QED
    BY <1>0, <2>1
<1>1. CASE RegexStart
  <2>1. ReadChar /\ source' = source /\ pc' = "regex" /\ start' = start /\ acc' = <<>> /\ pc = "regexStart"
    BY <1>1 DEF RegexStart, Read, call
  <2>2. Reads(start) /\ start \in from + 1..Len(source)
    BY <2>1 DEF Tape, Lexical
  <2>3. Cursor = start /\ start \in Nat
    BY <1>0, <2>2 DEF Reads, Placed
  <2>4. ColRight' /\ (ch' = "\n" => last_col' = ColOf(start))
    BY <1>0, <1>a, <2>1, <2>3, ReadColumns
  <2>5. start' + Len(acc') = start
    <3>1. Len(acc') = 0
      BY <2>1
    <3> QED
      BY <2>1, <2>3, <3>1
  <2>6. ch' = "\n" => last_col' = ColOf(start + Len(acc))'
    BY <2>1, <2>4, <2>5 DEF ColOf
  <2> QED
    BY <2>1, <2>4, <2>6 DEF Columns
<1>2. CASE RegexBody
  <2>1. PICK n \in Nat \ {0} : /\ n = start + 1 + Len(acc) /\ Reads(n) /\ n - 1 = start + Len(acc)
                               /\ start \in Nat \ {0}
    BY <1>2, <1>c DEF RegexBody
  <2>2. ch # "\\" /\ ch # "\n" /\ ch # EOF /\ pc = "regex"
    BY <1>2, <2>1, PlainChars DEF RegexBody
  <2>3. ReadChar /\ source' = source /\ start' = start /\ pc' = "regex" /\ acc' = Append(acc, ch)
    BY <1>2, <2>2 DEF RegexBody, PushAndRead, Read, call
  <2>4. /\ Len(acc') = Len(acc) + 1 /\ acc'[Len(acc) + 1] = ch
        /\ \A i \in 1..Len(acc) : acc'[i] = acc[i]
    BY <1>0, <2>3, AppendProperties
  <2>5. Cursor = n
    <3>1. ch = CharAt(n) /\ Placed(n)
      BY <2>1 DEF Reads
    <3>2. n <= Len(source)
      BY <2>2, <3>1, CharAtTypes
    <3> QED
      BY <3>1, <3>2 DEF Placed
  <2>6. ColRight' /\ (ch' = "\n" => last_col' = ColOf(n))
    BY <1>0, <1>a, <2>2, <2>3, <2>5, ReadColumns
  <2>7. start' + Len(acc') = n
    BY <1>0, <2>1, <2>3, <2>4
  <2>8. ch' = "\n" => last_col' = ColOf(start + Len(acc))'
    BY <2>3, <2>6, <2>7 DEF ColOf
  <2>9. \A i \in 1..Len(acc') : acc'[i] # "\n"
    <3>1. \A i \in 1..Len(acc) : acc[i] # "\n"
      BY <2>2 DEF Columns
    <3>2. \A i \in 1..Len(acc') : i \in 1..Len(acc) \/ i = Len(acc) + 1
      BY <1>0, <2>4
    <3> QED
      BY <2>2, <2>4, <3>1, <3>2
  <2> QED
    BY <2>3, <2>6, <2>8, <2>9 DEF Columns
<1>3. CASE RegexEnd \/ RegexFlags
  <2>1. Ordinary
    BY <1>3 DEF RegexEnd, RegexFlags, PushAndRead, Read, Ordinary, call
  <2> QED
    BY <1>0, <2>1, OrdinaryColumns
<1>4. CASE RegexReturn
  <2>1. pc = "flags"
    BY <1>4 DEF RegexReturn
  <2>2. PICK n \in Nat \ {0} : Reads(n)
    BY <1>c, <2>1
  <2> QED
    BY <1>0, <1>4, <1>a, <2>1, <2>2, PutbackReturnColumns DEF RegexReturn
<1>5. CASE RegexFail
  <2>1. pc = "regex" /\ \A i \in 1..Len(acc) : acc[i] # "\n"
    BY <1>5 DEF RegexFail, Columns
  <2>2. PICK n \in Nat \ {0} : n = start + 1 + Len(acc) /\ Reads(n) /\ n - 1 = start + Len(acc)
    BY <1>c, <2>1
  <2>3. ch = CharAt(n) /\ Placed(n)
    BY <2>2 DEF Reads
  <2>4. MayPutback(ch)
    BY <1>a, <2>1, <2>3, MayPutbackHere DEF Places
  <2>5. source' = source /\ acc' = acc /\ pc' = "unread"
    BY <1>5, <2>4 DEF RegexFail, PutbackThen, Goto, call
  <2>6. ColRight'
    <3>1. CASE ch = EOF
      <4>1. UNCHANGED <<stream, place, source>>
        BY <1>5, <3>1, <2>5 DEF RegexFail
      <4> QED
        BY <1>a, <2>1, <4>1 DEF ColRight, ColOf, Cursor, stream, place
    <3>2. CASE ch # EOF
      <4>1. Putback(CharAt(n))
        BY <1>5, <2>3, <2>4, <3>2 DEF RegexFail, PutbackThen
      <4>2. ch = "\n" => last_col = ColOf(n - 1)
        BY <2>1, <2>2 DEF Columns
      <4> QED
        BY <1>0, <1>a, <2>1, <2>3, <2>5, <4>1, <4>2, PutbackColumns
    <3> QED
      BY <3>1, <3>2
  <2> QED
    BY <2>1, <2>5, <2>6 DEF Columns
<1>6. CASE RegexUnread
  <2>1. pc = "unread" /\ acc # <<>> /\ \A i \in 1..Len(acc) : acc[i] # "\n"
    BY <1>6 DEF RegexUnread, Columns
  <2>2. /\ Len(acc) >= 1 /\ Len(SubSeq(acc, 1, Len(acc) - 1)) = Len(acc) - 1
        /\ \A i \in 1..Len(acc) - 1 : SubSeq(acc, 1, Len(acc) - 1)[i] = acc[i]
    BY <1>0, <2>1, Front
  <2>3. PICK n \in Nat \ {0} : /\ n = start + Len(acc) /\ Placed(n)
                               /\ acc[Len(acc)] = CharAt(n)
    <3>1. start \in from + 1..Len(source) /\ Spells(start + 1) /\ Placed(start + Len(acc))
      BY <2>1 DEF Tape, Lexical
    <3>2. start + Len(acc) \in Nat \ {0} /\ Len(acc) \in 1..Len(acc)
          /\ start + 1 + Len(acc) - 1 = start + Len(acc)
      BY <1>0, <2>2, <3>1
    <3>3. acc[Len(acc)] = CharAt(start + Len(acc))
      BY <3>1, <3>2 DEF Spells
    <3> QED
      BY <3>1, <3>2, <3>3
  <2>4. MayPutback(acc[Len(acc)])
    BY <1>a, <2>1, <2>3, MayPutbackHere DEF Places
  <2>5. /\ Putback(CharAt(n)) /\ source' = source /\ pc' = "unread"
        /\ acc' = SubSeq(acc, 1, Len(acc) - 1)
    BY <1>6, <2>3, <2>4 DEF RegexUnread, PutbackThen, Goto, call
  <2>6. CharAt(n) # "\n"
    <3>1. Len(acc) \in 1..Len(acc)
      BY <1>0, <2>2
    <3> QED
      BY <2>1, <2>3, <3>1
  <2>7. ColRight'
    BY <1>0, <1>a, <2>1, <2>3, <2>5, <2>6, PutbackColumns
  <2>8. \A i \in 1..Len(acc') : acc'[i] # "\n"
    BY <1>0, <2>1, <2>2, <2>5
  <2> QED
    BY <2>5, <2>7, <2>8 DEF Columns
<1>7. CASE RegexUnreadDone
  <2>1. Ordinary
    BY <1>7 DEF RegexUnreadDone, Goto, Ordinary, call
  <2> QED
    BY <1>0, <2>1, OrdinaryColumns
<1>8. CASE RegexClass
  <2>1. PICK n \in Nat \ {0} : Reads(n)
    BY <1>8, <1>c DEF RegexClass
  <2> QED
    BY <1>8, <2>1, PlainChars DEF RegexClass
<1> QED
  BY <1>b, <1>1, <1>2, <1>3, <1>4, <1>5, <1>6, <1>7, <1>8
  DEF ParseRegex, RegexEscaped, RegexClassBody, RegexClassEscaped, RegexClassUnclosed,
      RegexClassEnd

(* Names and symbols keep the columns, although two characters may be put  *)
(* back.                                                                   *)
LEMMA SymbolsColumns ==
  ASSUME Typed, Plain, Tape, Places, Columns, Symbols
  PROVE  Columns'
<1>0. /\ Suffix /\ Len(source) \in Nat /\ from \in Nat
      /\ acc \in Seq(Marked) /\ Len(acc) \in Nat
  BY StreamTypes DEF Tape, Typed, TypeOK
<1>a. pc \notin {"idle", "one"} => ColRight
  BY DEF Columns
<1>1. CASE Identifier \/ IdentifierBody \/ EndOfFile \/ First \/ SecondIsEnd \/ ThreeCharacters
           \/ ShiftRight \/ TwoCharacters \/ OneCharacter \/ Illegal
  <2>1. Ordinary
    BY <1>1 DEF Identifier, IdentifierBody, EndOfFile, First, SecondIsEnd, ThreeCharacters,
                ShiftRight, TwoCharacters, OneCharacter, Illegal, Ordinary,
                PushAndRead, Read, Goto, ReturnHere, Return, call
  <2> QED
    BY <1>0, <2>1, OrdinaryColumns
<1>2. CASE IdentifierReturn
  <2>1. PICK n \in Nat \ {0} : Reads(n)
    <3>1. start \in from + 1..Len(source) /\ Reads(start + Len(acc)) /\ pc = "identifier"
      BY <1>2 DEF IdentifierReturn, Tape, Lexical
    <3> QED
      BY <1>0, <3>1
  <2> QED
    BY <1>0, <1>2, <1>a, <2>1, PutbackReturnColumns DEF IdentifierReturn
<1>3. CASE Second
  <2>1. ReadChar /\ source' = source /\ start' = start /\ pc' = "third" /\ pc = "second"
    BY <1>3 DEF Second, PushAndRead, Read, call
  <2>2. PICK s \in Nat : s = start /\ s + 1 \in Nat \ {0} /\ s <= Len(source) /\ Reads(s + 1)
    <3>1. start \in from + 1..Len(source) /\ Reads(start + 1)
      BY <2>1 DEF Tape, Lexical
    <3> QED
      BY <1>0, <3>1
  <2>3. ColRight' /\ (ch' = "\n" => last_col' = ColOf(Cursor) /\ Cursor' = Cursor + 1)
    BY <1>0, <1>a, <2>1, ReadColumns
  <2>4. ch' = "\n" => Cursor = s + 1
    <3>1. Placed(s + 1)
      BY <2>2 DEF Reads
    <3>2. CASE s + 1 <= Len(source)
      BY <3>1, <3>2 DEF Placed
    <3>3. CASE s + 1 > Len(source)
      <4>1. Cursor = Len(source)
        BY <1>0, <2>2, <3>1, <3>3 DEF Placed
      <4>2. ch' = EOF
        BY <1>0, <2>1, <4>1, ReadAtCursor
      <4> QED
        BY <4>2, EofIsNoSpelling
    <3> QED
      BY <1>0, <2>2, <3>2, <3>3
  <2>5. ch' = "\n" => last_col' = ColOf(start + 1)'
    BY <2>1, <2>2, <2>3, <2>4 DEF ColOf
  <2> QED
    BY <2>1, <2>3, <2>5 DEF Columns
<1>4. CASE Fourth
  <2>1. pc = "fourth"
    BY <1>4 DEF Fourth
  <2>2. PICK n \in Nat \ {0} : Reads(n)
    <3>1. start \in from + 1..Len(source) /\ Reads(start + 3)
      BY <2>1 DEF Tape, Lexical
    <3> QED
      BY <1>0, <3>1
  <2>3. CASE ch = "="
    <3>1. Ordinary
      BY <1>4, <2>3 DEF Fourth, Ordinary, ReturnHere, Return, call
    <3> QED
      BY <1>0, <3>1, OrdinaryColumns
  <2>4. CASE ch # "="
    BY <1>0, <1>4, <1>a, <2>1, <2>2, <2>4, PutbackReturnColumns DEF Fourth
  <2> QED
    BY <2>3, <2>4
<1>5. CASE ThirdBack
  <2>1. pc = "third"
    BY <1>5 DEF ThirdBack
  <2>2. PICK n \in Nat \ {0} : n = start + 2 /\ Reads(n) /\ n - 1 = start + 1
    <3>1. start \in from + 1..Len(source) /\ Reads(start + 2)
      BY <2>1 DEF Tape, Lexical
    <3> QED
      BY <1>0, <3>1
  <2>3. ch = CharAt(n) /\ Placed(n)
    BY <2>2 DEF Reads
  <2>4. MayPutback(ch)
    BY <1>a, <2>1, <2>3, MayPutbackHere DEF Places
  <2>5. Putback(CharAt(n)) /\ source' = source /\ pc' = "two"
    BY <1>5, <2>3, <2>4 DEF ThirdBack, PutbackThen, Goto, call
  <2>6. ch = "\n" => last_col = ColOf(n - 1)
    BY <2>1, <2>2 DEF Columns
  <2>7. ColRight'
    BY <1>0, <1>a, <2>1, <2>3, <2>5, <2>6, PutbackColumns
  <2> QED
    BY <2>5, <2>7, Landed
<1>6. CASE SecondBack
  <2>1. pc = "two"
    BY <1>6 DEF SecondBack
  <2>2. PICK n \in Nat \ {0} : n = start + 1 /\ Placed(n) /\ acc[2] = CharAt(n)
    <3>1. start \in from + 1..Len(source) /\ Placed(start + 1) /\ Spells(start)
      BY <2>1 DEF Tape, Lexical
    <3>2. Len(acc) = 2
      BY <2>1 DEF Typed, AccOK
    <3>3. 2 \in 1..Len(acc) /\ start + 2 - 1 = start + 1 /\ start + 1 \in Nat \ {0}
      BY <1>0, <3>1, <3>2
    <3>4. acc[2] = CharAt(start + 1)
      BY <3>1, <3>3 DEF Spells
    <3> QED
      BY <3>1, <3>3, <3>4
  <2>3. MayPutback(acc[2])
    BY <1>a, <2>1, <2>2, MayPutbackHere DEF Places
  <2>4. Putback(CharAt(n)) /\ source' = source /\ pc' = "one"
    BY <1>6, <2>2, <2>3 DEF SecondBack, PutbackThen, Goto, call
  <2>5. ColRight' \/ NextIsNewline'
    BY <1>0, <1>a, <2>1, <2>2, <2>4, PutbackColumns
  <2> QED
    BY <2>4, <2>5, Landed
<1> QED
  BY <1>1, <1>2, <1>3, <1>4, <1>5, <1>6 DEF Symbols

(* parseString and parseNumber keep the columns.                           *)
LEMMA LiteralsColumns ==
  ASSUME Typed, Plain, Tape, Places, Columns, Literals
  PROVE  Columns'
<1>0. /\ Suffix /\ Len(source) \in Nat /\ from \in Nat
      /\ acc \in Seq(Marked) /\ Len(acc) \in Nat
  BY StreamTypes DEF Tape, Typed, TypeOK
<1>1. CASE StringStart \/ StringBody \/ StringEscaped \/ StringUnclosed \/ StringReturn
           \/ NumberStart \/ RadixPrefix \/ RadixDigits \/ NumberFirst \/ NumberNext \/ NumberPush
  <2>1. Ordinary
    BY <1>1 DEF StringStart, StringBody, StringEscaped, StringUnclosed, StringReturn,
                NumberStart, RadixPrefix, RadixDigits, NumberFirst, NumberNext, NumberPush,
                Ordinary, PushAndRead, Read, Goto, ReturnHere, Return, call
  <2> QED
    BY <1>0, <2>1, OrdinaryColumns
<1>2. CASE NumberReturn
  <2>1. pc \in {"number", "hex", "bin", "digit", "decimal"}
    BY <1>2 DEF NumberReturn, NumberEnds
  <2>2. start \in from + 1..Len(source)
    BY <2>1 DEF Tape, Lexical
  <2>3. PICK n \in Nat \ {0} : Reads(n)
    <3>1. CASE pc \in {"number", "hex", "bin", "digit"} \/ (pc = "decimal" /\ ch = EOF)
      <4>1. Reads(start + Len(acc))
        BY <3>1 DEF Tape
      <4> QED
        BY <1>0, <2>2, <4>1
    <3>2. CASE pc = "decimal" /\ ch # EOF
      <4>1. Reads(start + Len(acc) - 1) /\ Len(acc) > 1
        BY <3>2 DEF Tape
      <4> QED
        BY <1>0, <2>2, <4>1
    <3> QED
      BY <2>1, <3>1, <3>2
  <2>4. ColRight
    BY <2>1 DEF Columns
  <2> QED
    BY <1>0, <1>2, <2>3, <2>4, PutbackReturnColumns DEF NumberReturn
<1> QED
  BY <1>1, <1>2 DEF Literals

(* A plain text has no regular expression class.                           *)
LEMMA PlainIsClassFree == Plain => ClassFree
  BY DEF Plain, ClassFree

Columned == Plain => Columns

(* The columns are right in every state of a plain text.                   *)
LEMMA AlwaysColumned == Spec => []Columned
<1>1. Init => Columned
  <2> SUFFICES ASSUME Init PROVE Columns
    BY DEF Columned
  <2>1. col = 0 /\ pos = 0 /\ buffer = <<>> /\ pc = "idle"
    BY DEF Init
  <2>2. Cursor = 0
    <3>1. Len(buffer) = 0 /\ 0 - 0 = 0
      BY <2>1
    <3> QED
      BY <2>1, <3>1 DEF Cursor
  <2>3. ColRight
    BY <2>1, <2>2, ColOfNext DEF ColRight
  <2> QED
    BY <2>1, <2>3 DEF Columns
<1>2. OnTape /\ Placing /\ Columned /\ [Next]_vars => Columned'
  <2> SUFFICES ASSUME Typed, ClassFree => Tape, ClassFree => Places, Plain => Columns,
                      [Next]_vars, Plain'
               PROVE  Columns'
    BY DEF Columned, OnTape, Placing
  <2>1. ASSUME source' = source PROVE Plain /\ Tape /\ Places /\ Columns /\ Suffix
    <3>1. Plain
      BY <2>1 DEF Plain
    <3> QED
      BY <3>1, PlainIsClassFree DEF Tape
  <2>2. CASE Step
    <3>1. source' = source
      BY <2>2, StepSource
    <3> QED
      BY <2>1, <2>2, <3>1, BlanksColumns, ParseRegexColumns, SymbolsColumns, LiteralsColumns
      DEF Step
  <2>3. ASSUME NEW mode \in BOOLEAN, Call(mode) PROVE Columns'
    <3>1. source' = source /\ ReadChar /\ pc = "idle" /\ pc' = "scan"
      BY <2>3 DEF Call
    <3>2. Suffix /\ (ColRight \/ NextIsNewline)
      BY <2>1, <3>1 DEF Columns
    <3>3. ColRight'
      BY <3>1, <3>2, ReadColumns
    <3> QED
      BY <3>1, <3>3, Landed
  <2>4. CASE Reset
    <3>1. col' = 0 /\ pos' = 0 /\ buffer' = <<>> /\ pc' = "idle"
      BY <2>4 DEF Reset
    <3>2. Cursor' = 0
      <4>1. Len(buffer') = 0 /\ 0 - 0 = 0
        BY <3>1
      <4> QED
        BY <3>1, <4>1 DEF Cursor
    <3>3. ColOf(0)' = 0
      <4>1. {i \in 1..0 : \A j \in i..0 : source'[j] # "\n"} = {}
        OBVIOUS
      <4> QED
        BY <4>1, FS_EmptySet DEF ColOf
    <3>4. ColRight'
      BY <3>1, <3>2, <3>3 DEF ColRight, ColOf
    <3> QED
      BY <3>1, <3>4, Landed
  <2>5. CASE UNCHANGED vars
    <3>1. source' = source
      BY <2>5 DEF vars, call
    <3>2. Columns /\ UNCHANGED <<pos, buffer, col, last_col, pc, ch, start, acc>>
      BY <2>1, <2>5, <3>1 DEF vars, stream, place, call
    <3> QED
      BY <3>1, <3>2 DEF Columns, ColRight, NextIsNewline, ColOf, Cursor
  <2> QED
    BY <2>2, <2>3, <2>4, <2>5, ModesAreBooleans DEF Next, Advance, Peek, Aborted
<1> QED
  BY <1>1, <1>2, AlwaysOnTape, AlwaysPlaced, PTL DEF Spec

(* The row is exact after every step, and a lexeme of a plain text is      *)
(* found at its own row and column, although a push-back can only restore  *)
(* the column of the last line.                                            *)
THEOREM TokenizerPositionExact == Spec => []PositionExact
<1>1. OnTape /\ Placing /\ Columned => PositionExact
  <2> SUFFICES ASSUME Typed, ClassFree => Tape, ClassFree => Places, Plain => Columns
               PROVE  PositionExact
    BY DEF OnTape, Placing, Columned
  <2>1. ClassFree => row = RowOf(Cursor)
    BY DEF Places
  <2>2. ASSUME Plain, pc = "token" PROVE Cursor = start /\ col = ColOf(Cursor)
    <3>1. Tape /\ Columns
      BY <2>2, PlainIsClassFree
    <3>2. Cursor = start
      BY <2>2, <3>1, StreamTypes DEF Tape, Reads, Placed
    <3> QED
      BY <2>2, <3>1, <3>2 DEF Columns, ColRight
  <2> QED
    BY <2>1, <2>2 DEF PositionExact
<1> QED
  BY <1>1, AlwaysOnTape, AlwaysPlaced, AlwaysColumned, PTL

(* On a text without brackets and backslashes no putback() ever fails its  *)
(* assertion: row and column are never zero when they are lowered.         *)
THEOREM TokenizerAssertsHold == Spec => []AssertsHold
<1>1. Columned => AssertsHold
  BY DEF Columned, Columns, AssertsHold
<1> QED
  BY <1>1, AlwaysColumned, PTL

-----------------------------------------------------------------------------
(* Blanks and comments.                                                    *)

(* Nothing is trivia.                                                      *)
LEMMA TriviaNone == ASSUME NEW b \in Int PROVE IsTrivia(b, b)
<1> DEFINE cuts == {b}
<1>1. cuts \in SUBSET (b..b) /\ {b, b} \subseteq cuts /\ cuts \ {b} = {}
  OBVIOUS
<1> QED
  BY <1>1 DEF IsTrivia

(* A blank or a comment after trivia makes trivia.                         *)
LEMMA TriviaMore ==
  ASSUME NEW b \in Int, NEW e \in Int, b <= e, IsTrivia(b, e), NEW j \in Int, e < j,
         \/ j = e + 1 /\ IsSpace(source[j])
         \/ IsComment(e + 1, j) /\ e + 1 < j
  PROVE  IsTrivia(b, j)
<1>1. PICK cuts \in SUBSET (b..e) :
        /\ {b, e} \subseteq cuts
        /\ \A k \in cuts \ {b} :
             \/ IsSpace(source[k]) /\ k - 1 \in cuts
             \/ \E i \in b + 1..k - 1 : i - 1 \in cuts /\ IsComment(i, k)
  BY DEF IsTrivia
<1> DEFINE more == cuts \union {j}
<1>2. more \in SUBSET (b..j) /\ {b, j} \subseteq more
  BY <1>1
<1>3. ASSUME NEW k \in more \ {b}
      PROVE  \/ IsSpace(source[k]) /\ k - 1 \in more
             \/ \E i \in b + 1..k - 1 : i - 1 \in more /\ IsComment(i, k)
  <2>1. CASE k \in cuts
    BY <1>1, <1>3, <2>1
  <2>2. CASE k = j /\ j = e + 1 /\ IsSpace(source[j])
    <3>1. k - 1 = e
      BY <2>2
    <3> QED
      BY <1>1, <2>2, <3>1
  <2>3. CASE k = j /\ IsComment(e + 1, j) /\ e + 1 < j
    <3>1. e + 1 \in b + 1..k - 1 /\ e + 1 - 1 = e
      BY <2>3
    <3>2. e \in more
      BY <1>1
    <3> QED
      BY <2>3, <3>1, <3>2
  <2> QED
    BY <1>3, <2>1, <2>2, <2>3
<1> QED
  BY <1>2, <1>3 DEF IsTrivia

(* What is trivia is a matter of the text alone.                           *)
LEMMA SameTrivia ==
  ASSUME source' = source, NEW b, NEW e PROVE IsTrivia(b, e)' <=> IsTrivia(b, e)
  BY DEF IsTrivia, IsComment

(* What has been passed since the call began is trivia, or will be when    *)
(* the comment being read ends.                                            *)
Skipped == \E n \in from + 1..Len(source) + 1 :
  Reads(n) /\ (IsTrivia(from, n - 1) \/ (ch = "\n" /\ IsTrivia(from, n)))

(* A line comment being read has had no line end yet,                      *)
InLine == \E n \in start + 1..Len(source) + 1 :
  Reads(n) /\ source[start + 1] = "/" /\ \A k \in start..n - 1 : source[k] # "\n"

(* a block comment has not been closed, and last is the character before   *)
(* ch,                                                                     *)
InBlock == \E n \in start + 2..Len(source) + 1 :
  /\ Reads(n) /\ source[start + 1] = "*"
  /\ \A k \in start + 3..n - 1 : ~(source[k - 1] = "*" /\ source[k] = "/")
  /\ IF n = start + 2 THEN last = ch ELSE last = CharAt(n - 1)

(* and one that has been closed is trivia, as far as it goes.              *)
BlockClosed == \E n \in from + 1..Len(source) + 1 : Reads(n) /\ IsTrivia(from, n - 1)

(* From the start of the call to the lexeme, or to ch while there is none  *)
(* yet.                                                                    *)
Passed ==
  /\ pc \in Lexical => IsTrivia(from, start - 1)
  /\ pc = "token" =>
       IF ch = EOF THEN IsTrivia(from, Len(source)) ELSE IsTrivia(from, start - 1)
  /\ pc = "scan" => Skipped
  /\ pc = "line" => InLine
  /\ pc = "block" => InBlock
  /\ pc = "blockEnd" /\ ch # EOF => BlockClosed

(* Every step keeps it: a blank and a closed comment are added to the      *)
(* trivia, and a lexeme starts where they end.                             *)
LEMMA PassedStep ==
  ASSUME Typed, ClassFree, Tape, Passed, Step
  PROVE  Passed'
<1>0. /\ Suffix /\ from \in 0..Len(source) /\ source \in Seq(Char) /\ Len(source) \in Nat
      /\ source' = source /\ from' = from /\ Moved /\ Tape' /\ from \in Nat
  BY StreamTypes, StepTape, StepSource DEF Tape
<1>1. PICK b \in Nat : b = from
  BY <1>0
<1>a. ASSUME pc \in Lexical PROVE start \in from + 1..Len(source) /\ start \in Nat /\ start >= 1
  BY <1>0, <1>a DEF Tape
<1>c. ASSUME pc \in {"slash", "line", "block", "blockEnd"}
      PROVE  source[start] = "/" /\ start \in from + 1..Len(source) /\ start \in Nat /\ start >= 1
             /\ IsTrivia(from, start - 1)
  BY <1>a, <1>c DEF Tape, Slashed, Lexical, Passed
(* A place of the tape whose character is not EOF is in the text.          *)
<1>d. ASSUME NEW n \in Nat \ {0}, Reads(n), ch # EOF
      PROVE  n <= Len(source) /\ ch = source[n] /\ Cursor = n
  BY <1>d, CharAtTypes DEF Reads, Placed
<1>2. ASSUME pc' = "scan" PROVE Skipped'
  <2>1. CASE SkipSpace
    <3>1. pc = "scan" /\ IsSpace(ch) /\ ReadChar /\ ch # EOF
      BY <2>1, EofIsNoSpelling DEF SkipSpace, Read, IsSpace
    <3>2. PICK n \in from + 1..Len(source) + 1 :
            Reads(n) /\ (IsTrivia(from, n - 1) \/ (ch = "\n" /\ IsTrivia(from, n)))
      BY <3>1 DEF Passed, Skipped
    <3>3. n \in Nat \ {0} /\ n <= Len(source) /\ ch = source[n]
      BY <1>0, <1>d, <3>1, <3>2
    <3>4. Reads(n + 1)'
      BY <1>0, <3>1, <3>2, <3>3, ReadOn DEF Reads
    <3>5. IsTrivia(b, n)
      <4>1. CASE IsTrivia(from, n - 1)
        <5>1. PICK e \in Int : e = n - 1 /\ b <= e /\ e < n /\ n = e + 1
          <6>1. n - 1 \in Int /\ b <= n - 1 /\ n - 1 < n /\ n = n - 1 + 1
            BY <1>1, <3>2, <3>3
          <6> QED
            BY <6>1
        <5> QED
          BY <1>1, <3>1, <3>3, <4>1, <5>1, TriviaMore
      <4> QED
        BY <1>1, <3>2, <4>1
    <3>6. IsTrivia(b, n)' /\ n + 1 - 1 = n /\ n + 1 \in from + 1..Len(source) + 1
      BY <1>0, <3>3, <3>5, <3>2, SameTrivia
    <3>7. IsTrivia(from, n + 1 - 1)'
      BY <1>0, <1>1, <3>6
    <3> QED
      BY <1>0, <3>4, <3>6, <3>7 DEF Skipped
  <2>2. CASE LineComment
    <3>1. pc = "line" /\ ch = "\n" /\ ch # EOF /\ UNCHANGED <<source, stream, ch, start>>
      BY <1>2, <2>2, EofIsNoSpelling DEF LineComment, Goto, Read, call
    <3>2. PICK n \in start + 1..Len(source) + 1 :
            Reads(n) /\ source[start + 1] = "/" /\ \A k \in start..n - 1 : source[k] # "\n"
      BY <3>1 DEF Passed, InLine
    <3>3. start \in from + 1..Len(source) /\ start \in Nat /\ start >= 1 /\ source[start] = "/"
          /\ IsTrivia(from, start - 1)
      BY <1>c, <3>1
    <3>4. n \in Nat \ {0} /\ n <= Len(source) /\ source[n] = "\n"
      BY <1>0, <1>d, <3>1, <3>2, <3>3
    <3>5. IsTrivia(b, n)
      <4>1. IsComment(start, n)
        BY <3>2, <3>3, <3>4 DEF IsComment
      <4>2. PICK e \in Int : e = start - 1 /\ b <= e /\ e < n /\ start = e + 1 /\ e + 1 < n
        <5>1. start - 1 \in Int /\ b <= start - 1 /\ start - 1 < n /\ start = start - 1 + 1
              /\ start - 1 + 1 < n
          BY <1>0, <1>1, <3>2, <3>3
        <5> QED
          BY <5>1
      <4> QED
        BY <1>1, <3>3, <3>4, <4>1, <4>2, TriviaMore
    <3>6. Reads(n)' /\ IsTrivia(from, n)' /\ n \in from + 1..Len(source) + 1
      BY <1>0, <1>1, <3>1, <3>2, <3>3, <3>4, <3>5, StayPut, SameTrivia
    <3> QED
      BY <1>0, <3>1, <3>6 DEF Skipped
  <2>3. CASE BlockCommentEnd
    <3>1. pc = "blockEnd" /\ ch # EOF /\ UNCHANGED <<source, stream, ch, start>>
      BY <1>2, <2>3 DEF BlockCommentEnd, Goto, ReturnHere, Return, call
    <3>2. PICK n \in from + 1..Len(source) + 1 : Reads(n) /\ IsTrivia(from, n - 1)
      BY <3>1 DEF Passed, BlockClosed
    <3>3. Reads(n)' /\ IsTrivia(from, n - 1)'
      <4>1. PICK e : e = n - 1
        OBVIOUS
      <4>2. IsTrivia(b, e)'
        BY <1>0, <1>1, <3>2, <4>1, SameTrivia
      <4> QED
        BY <1>0, <1>1, <3>1, <3>2, <4>1, <4>2, StayPut
    <3> QED
      BY <1>0, <3>3 DEF Skipped
  <2> QED
    BY <1>2, <2>1, <2>2, <2>3, Arrivals
<1>3. ASSUME pc' \in Lexical PROVE IsTrivia(from, start - 1)'
  <2>1. CASE IsTrivia(from, start - 1) /\ start' = start
    <3>1. PICK e : e = start - 1
      OBVIOUS
    <3>2. IsTrivia(b, e)'
      BY <1>0, <1>1, <2>1, <3>1, SameTrivia
    <3> QED
      BY <1>0, <1>1, <2>1, <3>1, <3>2
  <2>2. CASE Slash
    <3>1. pc = "scan" /\ ch = "/" /\ start' = Cursor /\ ch # EOF /\ ch # "\n"
      BY <2>2, EofIsNoSpelling DEF Slash
    <3>2. PICK n \in from + 1..Len(source) + 1 : Reads(n) /\ IsTrivia(from, n - 1)
      BY <3>1 DEF Passed, Skipped
    <3>3. n = Cursor
      BY <1>0, <1>d, <3>1, <3>2
    <3>4. PICK e : e = n - 1
      OBVIOUS
    <3>5. IsTrivia(b, e)'
      BY <1>0, <1>1, <3>2, <3>4, SameTrivia
    <3> QED
      BY <1>0, <1>1, <3>1, <3>3, <3>4, <3>5
  <2> QED
    BY <1>3, <2>1, <2>2, Arrivals DEF Passed
<1>4. ASSUME pc' = "token"
      PROVE  IF ch' = EOF THEN IsTrivia(from, Len(source))' ELSE IsTrivia(from, start - 1)'
  <2>1. CASE SlashAlone \/ RegexUnreadDone
    <3>1. ch' = "/" /\ start' = start /\ pc \in Lexical /\ ch' # EOF
      BY <1>4, <2>1, EofIsNoSpelling
      DEF SlashAlone, RegexUnreadDone, PutbackThen, Goto, Abort, Lexical
    <3>2. PICK e : e = start - 1
      OBVIOUS
    <3>3. IsTrivia(b, e)'
      BY <1>0, <1>1, <3>1, <3>2, SameTrivia DEF Passed
    <3> QED
      BY <1>0, <1>1, <3>1, <3>2, <3>3
  <2>2. CASE LexemeStart
    <3>1. /\ pc = "scan" /\ ch # "\n" /\ start' = Cursor
          /\ UNCHANGED <<source, ch>>
      BY <2>2 DEF LexemeStart, Goto, IsSpace, call
    <3>2. PICK n \in from + 1..Len(source) + 1 : Reads(n) /\ IsTrivia(from, n - 1)
      BY <3>1 DEF Passed, Skipped
    <3>3. PICK e : e = n - 1
      OBVIOUS
    <3>4. IsTrivia(b, e)'
      BY <1>0, <1>1, <3>2, <3>3, SameTrivia
    <3>5. CASE ch = EOF
      <4>1. n = Len(source) + 1
        <5>1. n \in Nat \ {0}
          BY <1>0, <3>2
        <5>2. ~(n <= Len(source))
          BY <3>2, <3>5, <5>1, CharAtTypes DEF Reads
        <5> QED
          BY <1>0, <3>2, <5>1, <5>2
      <4>2. e = Len(source)
        BY <1>0, <3>3, <4>1
      <4> QED
        BY <1>0, <1>1, <3>1, <3>4, <3>5, <4>2
    <3>6. CASE ch # EOF
      <4>1. n = Cursor
        BY <1>0, <1>d, <3>2, <3>6
      <4> QED
        BY <1>0, <1>1, <3>1, <3>3, <3>4, <3>6, <4>1
    <3> QED
      BY <3>5, <3>6
  <2> QED
    BY <1>4, <2>1, <2>2, Arrivals
<1>5. ASSUME pc' = "line" PROVE InLine'
  <2>1. CASE LineCommentStart
    <3>1. pc = "slash" /\ ch = "/" /\ ch # EOF /\ UNCHANGED <<source, stream, ch, start>>
      BY <2>1, EofIsNoSpelling DEF LineCommentStart, Goto, call
    <3>2. PICK n \in Nat \ {0} : n = start + 1 /\ Reads(n) /\ n - 1 = start
      BY <1>c, <3>1 DEF Tape
    <3>3. n <= Len(source) /\ source[n] = "/" /\ source[start] = "/" /\ start \in Nat
      BY <1>c, <1>d, <3>1, <3>2
    <3>4. \A k \in start..n - 1 : source[k] # "\n"
      BY <3>2, <3>3
    <3>5. Reads(n)'
      BY <3>1, <3>2, StayPut
    <3> QED
      BY <1>0, <3>1, <3>2, <3>3, <3>4, <3>5 DEF InLine
  <2>2. CASE LineComment
    <3>1. pc = "line" /\ ch # "\n" /\ ReadChar /\ start' = start
      BY <1>5, <2>2 DEF LineComment, Goto, Read
    <3>2. PICK n \in start + 1..Len(source) + 1 :
            Reads(n) /\ source[start + 1] = "/" /\ \A k \in start..n - 1 : source[k] # "\n"
      BY <3>1 DEF Passed, InLine
    <3>3. start \in Nat /\ n \in Nat \ {0} /\ start >= 1
      BY <1>0, <1>c, <3>1, <3>2
    <3>4. Reads(n + 1)'
      BY <1>0, <3>1, <3>2, <3>3, ReadOn DEF Reads
    <3>5. CASE n <= Len(source)
      <4>1. source[n] # "\n"
        BY <3>1, <3>2, <3>3, <3>5, CharAtTypes DEF Reads
      <4>2. \A k \in start..n + 1 - 1 : source[k] # "\n"
        <5>1. \A k \in start..n + 1 - 1 : k \in start..n - 1 \/ k = n
          BY <3>3
        <5> QED
          BY <3>2, <4>1, <5>1
      <4>3. n + 1 \in start + 1..Len(source) + 1
        BY <1>0, <3>2, <3>3, <3>5
      <4> QED
        BY <1>0, <3>1, <3>2, <3>4, <4>2, <4>3 DEF InLine
    <3>6. CASE n = Len(source) + 1
      <4>1. Reads(n)'
        BY <1>0, <3>4, <3>6 DEF Reads, Placed, CharAt
      <4> QED
        BY <1>0, <3>1, <3>2, <4>1 DEF InLine
    <3> QED
      BY <1>0, <3>2, <3>3, <3>5, <3>6
  <2> QED
    BY <1>5, <2>1, <2>2, Arrivals
<1>6. ASSUME pc' = "block" PROVE InBlock'
  <2>1. CASE BlockCommentStart
    <3>1. pc = "slash" /\ ch = "*" /\ ch # EOF /\ ReadChar /\ start' = start /\ last' = ch'
      BY <2>1, EofIsNoSpelling DEF BlockCommentStart, Read
    <3>2. PICK n \in Nat \ {0} : n = start + 1 /\ Reads(n)
      BY <1>c, <3>1 DEF Tape
    <3>3. n <= Len(source) /\ source[n] = "*" /\ start \in Nat
      BY <1>c, <1>d, <3>1, <3>2
    <3>4. Reads(n + 1)'
      BY <1>0, <3>1, <3>2, ReadOn DEF Reads
    <3>5. n + 1 = start + 2 /\ n + 1 \in start + 2..Len(source) + 1
          /\ \A k \in start + 3..n + 1 - 1 : FALSE
      BY <1>0, <3>2, <3>3
    <3> QED
      BY <1>0, <3>1, <3>2, <3>3, <3>4, <3>5 DEF InBlock
  <2>2. CASE BlockComment
    <3>1. /\ pc = "block" /\ ch # EOF /\ ~(ch = "/" /\ last = "*")
          /\ ReadChar /\ start' = start /\ last' = ch
      BY <1>6, <2>2 DEF BlockComment, Read
    <3>2. PICK n \in start + 2..Len(source) + 1 :
            /\ Reads(n) /\ source[start + 1] = "*"
            /\ \A k \in start + 3..n - 1 : ~(source[k - 1] = "*" /\ source[k] = "/")
            /\ IF n = start + 2 THEN last = ch ELSE last = CharAt(n - 1)
      BY <3>1 DEF Passed, InBlock
    <3>3. start \in Nat /\ n \in Nat \ {0} /\ start >= 1
      BY <1>0, <1>c, <3>1, <3>2
    <3>4. n <= Len(source) /\ ch = source[n]
      BY <1>d, <3>1, <3>2, <3>3
    <3>5. Reads(n + 1)'
      BY <1>0, <3>1, <3>2, <3>3, ReadOn DEF Reads
    <3>6. n + 1 \in start + 2..Len(source) + 1 /\ n + 1 # start + 2 /\ n + 1 - 1 = n
      BY <1>0, <3>2, <3>3, <3>4
    <3>7. ASSUME NEW k \in start + 3..n PROVE ~(source[k - 1] = "*" /\ source[k] = "/")
      <4>1. CASE k \in start + 3..n - 1
        BY <3>2, <4>1
      <4>2. CASE k = n
        <5>1. n # start + 2 /\ n - 1 <= Len(source)
          BY <1>0, <3>3, <3>4, <3>7, <4>2
        <5>2. last = source[n - 1]
          BY <3>2, <5>1 DEF CharAt
        <5> QED
          BY <3>1, <3>4, <4>2, <5>2
      <4> QED
        BY <3>3, <3>7, <4>1, <4>2
    <3>8. last' = CharAt(n)'
      BY <1>0, <3>1, <3>4 DEF CharAt
    <3> QED
      BY <1>0, <3>1, <3>2, <3>5, <3>6, <3>7, <3>8 DEF InBlock
  <2> QED
    BY <1>6, <2>1, <2>2, Arrivals
<1>7. ASSUME pc' = "blockEnd", ch' # EOF PROVE BlockClosed'
  <2>1. BlockComment
    BY <1>7, Arrivals
  <2>2. /\ pc = "block" /\ (ch = EOF \/ (ch = "/" /\ last = "*"))
        /\ ReadChar /\ start' = start
    BY <1>7, <2>1 DEF BlockComment, Read
  <2>3. PICK n \in start + 2..Len(source) + 1 :
          /\ Reads(n) /\ source[start + 1] = "*"
          /\ \A k \in start + 3..n - 1 : ~(source[k - 1] = "*" /\ source[k] = "/")
          /\ IF n = start + 2 THEN last = ch ELSE last = CharAt(n - 1)
    BY <2>2 DEF Passed, InBlock
  <2>4. /\ start \in Nat /\ start >= 1 /\ start \in from + 1..Len(source) /\ source[start] = "/"
        /\ IsTrivia(from, start - 1) /\ n \in Nat \ {0}
    BY <1>0, <1>c, <2>2, <2>3
  <2>5. Reads(n + 1)'
    BY <1>0, <2>2, <2>3, <2>4, ReadOn DEF Reads
  <2>6. n <= Len(source)
    <3>1. CASE n = Len(source) + 1
      <4>1. ch' = EOF
        BY <1>0, <2>5, <3>1 DEF Reads, CharAt
      <4> QED
        BY <1>7, <4>1
    <3> QED
      BY <1>0, <2>3, <2>4, <3>1
  <2>7. ch = source[n] /\ ch # EOF
    BY <2>3, <2>4, <2>6, CharAtTypes DEF Reads
  <2>8. source[n] = "/" /\ last = "*" /\ n # start + 2
    BY <2>2, <2>3, <2>7
  <2>9. n > start + 2 /\ source[n - 1] = "*"
    <3>1. n > start + 2 /\ n - 1 <= Len(source)
      BY <1>0, <2>3, <2>4, <2>6, <2>8
    <3> QED
      BY <2>3, <2>8, <3>1 DEF CharAt
  <2>10. IsComment(start, n)
    BY <2>3, <2>4, <2>8, <2>9 DEF IsComment
  <2>11. IsTrivia(b, n)
    <3>1. PICK e \in Int : e = start - 1 /\ b <= e /\ e < n /\ start = e + 1 /\ e + 1 < n
      <4>1. start - 1 \in Int /\ b <= start - 1 /\ start - 1 < n /\ start = start - 1 + 1
            /\ start - 1 + 1 < n
        BY <1>0, <1>1, <2>4, <2>9
      <4> QED
        BY <4>1
    <3> QED
      BY <1>1, <2>4, <2>10, <3>1, TriviaMore
  <2>12. IsTrivia(b, n)' /\ n + 1 - 1 = n /\ n + 1 \in from + 1..Len(source) + 1
    BY <1>0, <2>3, <2>4, <2>6, <2>11, SameTrivia
  <2>13. IsTrivia(from, n + 1 - 1)'
    BY <1>0, <1>1, <2>12
  <2> QED
    BY <1>0, <2>5, <2>12, <2>13 DEF BlockClosed
<1> QED
  BY <1>2, <1>3, <1>4, <1>5, <1>6, <1>7 DEF Passed

-----------------------------------------------------------------------------
(* The symbol tables.                                                      *)

(* Sequences of one length that agree everywhere are the same.             *)
LEMMA SameSequence ==
  ASSUME NEW S, NEW T, NEW s \in Seq(S), NEW t \in Seq(T), Len(s) = Len(t),
         \A i \in 1..Len(s) : s[i] = t[i]
  PROVE  s = t
<1>1. s = [i \in 1..Len(s) |-> s[i]] /\ t = [i \in 1..Len(t) |-> t[i]]
  OBVIOUS
<1> QED
  BY <1>1

(* The three tables of the tokenizer hold operators of tokens.inc only.    *)
LEMMA TablesAreOperators ==
  /\ OneCharacterSymbols \subseteq Operators
  /\ TwoCharacterSymbols \subseteq Operators
  /\ ThreeCharacterSymbols \subseteq Operators
<1>1. OneCharacterSymbols \subseteq Operators
  BY DEF OneCharacterSymbols, Operators
<1>2. TwoCharacterSymbols \subseteq Operators
  BY DEF TwoCharacterSymbols, Operators
<1>3. ThreeCharacterSymbols \subseteq Operators
  BY DEF ThreeCharacterSymbols, Operators
<1> QED
  BY <1>1, <1>2, <1>3

(* The solver's encoding has no strings for braces, semicolon and comma:   *)
(* what is said of the rows is proved for any characters in their places.  *)
OneTable(left, right, semicolon, comma) ==
  { << <<"(">>, "LPAREN">>, << <<")">>, "RPAREN">>, << <<left>>, "LBRACE">>,
    << <<right>>, "RBRACE">>, << <<"[">>, "LBRACK">>, << <<"]">>, "RBRACK">>,
    << <<":">>, "COLON">>, << <<semicolon>>, "SEMICOLON">>, << <<".">>, "PERIOD">>,
    << <<comma>>, "COMMA">>, << <<"?">>, "CONDITIONAL">>, << <<"+">>, "ADD">>,
    << <<"-">>, "SUB">>, << <<"/">>, "DIV">>, << <<"*">>, "MUL">>,
    << <<"%">>, "MOD">>, << <<">">>, "GT">>, << <<"<">>, "LT">>,
    << <<"=">>, "ASSIGN">>, << <<"^">>, "BIT_XOR">>, << <<"|">>, "BIT_OR">>,
    << <<"&">>, "BIT_AND">>, << <<"!">>, "NOT">>, << <<"~">>, "BIT_NOT">> }

(* The rows of the table of one, as far as the code after it depends on    *)
(* them.                                                                   *)
LEMMA OneRows ==
  \A op \in OneCharacterSymbols :
    Len(op[1]) = 1 /\ op[2] # "INVALID" /\ (op[2] = "DIV" => op[1] = <<"/">>)
    /\ op[2] # "ASSIGN_DIV" /\ op = <<op[1], op[2]>>
<1>1. \A left, right, semicolon, comma : \A op \in OneTable(left, right, semicolon, comma) :
        op[2] # "INVALID" /\ op[2] # "ASSIGN_DIV"
  BY DEF OneTable
<1>3. \A left, right, semicolon, comma : \A op \in OneTable(left, right, semicolon, comma) :
        op[2] = "DIV" => op[1] = <<"/">>
  BY DEF OneTable
<1>4. \A left, right, semicolon, comma : \A op \in OneTable(left, right, semicolon, comma) : Len(op[1]) = 1
  BY DEF OneTable
<1>5. \A left, right, semicolon, comma : \A op \in OneTable(left, right, semicolon, comma) :
        op = <<op[1], op[2]>>
  BY DEF OneTable
<1>2. OneCharacterSymbols = OneTable("{", "}", ";", ",")
  BY Zenon DEF OneTable, OneCharacterSymbols
<1>6. ASSUME NEW op \in OneCharacterSymbols
      PROVE  /\ Len(op[1]) = 1 /\ op[2] # "INVALID" /\ (op[2] = "DIV" => op[1] = <<"/">>)
             /\ op[2] # "ASSIGN_DIV" /\ op = <<op[1], op[2]>>
  <2>1. op \in OneTable("{", "}", ";", ",")
    BY <1>2, Zenon
  <2>2. op[2] # "INVALID" /\ op[2] # "ASSIGN_DIV"
    BY <1>1, <2>1, Zenon
  <2>3. op[2] = "DIV" => op[1] = <<"/">>
    BY <1>3, <2>1, Zenon
  <2>4. Len(op[1]) = 1
    BY <1>4, <2>1, Zenon
  <2>5. op = <<op[1], op[2]>>
    BY <1>5, <2>1, Zenon
  <2> QED
    BY <2>2, <2>3, <2>4, <2>5
<1> QED
  BY <1>6

(* The rows of the table of two.                                           *)
LEMMA TwoRows ==
  \A op \in TwoCharacterSymbols :
    Len(op[1]) = 2 /\ op[2] # "INVALID" /\ (op[2] = "ASSIGN_DIV" => op[1] = <<"/", "=">>)
    /\ op[2] # "DIV"
  BY DEF TwoCharacterSymbols

(* Every operator of tokens.inc is in one of the tables, but for >>>=.     *)
LEMMA OperatorTables ==
  ASSUME NEW op \in Operators
  PROVE  \/ op \in OneCharacterSymbols \/ op \in TwoCharacterSymbols
         \/ op \in ThreeCharacterSymbols \/ op = << <<">", ">", ">", "=">>, "ASSIGN_SHR">>
  BY DEF Operators, OneCharacterSymbols, TwoCharacterSymbols, ThreeCharacterSymbols

(* Every operator is in the table of its length, but for >>>=, which the   *)
(* code reads from >>> on.                                                 *)
LEMMA OperatorLengths ==
  \A op \in Operators :
    \/ Len(op[1]) = 1
    \/ Len(op[1]) = 2 /\ op[1] = <<op[1][1], op[1][2]>> /\ op \in TwoCharacterSymbols
    \/ Len(op[1]) = 3 /\ op[1] = <<op[1][1], op[1][2], op[1][3]>> /\ op \in ThreeCharacterSymbols
    \/ Len(op[1]) = 4 /\ op[1] = <<">", ">", ">", "=">>
<1>1. \A op \in TwoCharacterSymbols : op[1] = <<op[1][1], op[1][2]>>
  BY DEF TwoCharacterSymbols
<1>2. \A op \in ThreeCharacterSymbols : op[1] = <<op[1][1], op[1][2], op[1][3]>>
  BY DEF ThreeCharacterSymbols
<1> SUFFICES ASSUME NEW op \in Operators
             PROVE  \/ Len(op[1]) = 1
                    \/ Len(op[1]) = 2 /\ op[1] = <<op[1][1], op[1][2]>>
                       /\ op \in TwoCharacterSymbols
                    \/ Len(op[1]) = 3 /\ op[1] = <<op[1][1], op[1][2], op[1][3]>>
                       /\ op \in ThreeCharacterSymbols
                    \/ Len(op[1]) = 4 /\ op[1] = <<">", ">", ">", "=">>
  OBVIOUS
<1>3. \/ op \in OneCharacterSymbols \/ op \in TwoCharacterSymbols
      \/ op \in ThreeCharacterSymbols \/ op = << <<">", ">", ">", "=">>, "ASSIGN_SHR">>
  BY OperatorTables
<1>4. op = << <<">", ">", ">", "=">>, "ASSIGN_SHR">> => Len(op[1]) = 4 /\ op[1] = <<">", ">", ">", "=">>
  OBVIOUS
<1>5. op \in OneCharacterSymbols => Len(op[1]) = 1
  BY OneRows
<1>6. op \in TwoCharacterSymbols => Len(op[1]) = 2
  BY TwoRows
<1>7. op \in ThreeCharacterSymbols => Len(op[1]) = 3
  BY ThreeRows
<1>8. CASE op \in OneCharacterSymbols
  BY <1>5, <1>8
<1>9. CASE op \in TwoCharacterSymbols
  BY <1>1, <1>6, <1>9
<1>10. CASE op \in ThreeCharacterSymbols
  BY <1>2, <1>7, <1>10
<1>11. CASE op = << <<">", ">", ">", "=">>, "ASSIGN_SHR">>
  BY <1>4, <1>11
<1> QED
  BY <1>3, <1>8, <1>9, <1>10, <1>11

(* Only the symbols in a table have a type there.                          *)
LEMMA TypeInNone ==
  ASSUME NEW table, NEW spelling, \A op \in table : op[2] # "INVALID",
         TypeIn(table, spelling) = "INVALID"
  PROVE  \A op \in table : op[1] # spelling
<1> SUFFICES ASSUME NEW op \in table, op[1] = spelling PROVE FALSE
  OBVIOUS
<1> DEFINE row1 == CHOOSE o \in table : o[1] = spelling
<1>1. row1 \in table
  OBVIOUS
<1>2. TypeIn(table, spelling) = row1[2]
  BY DEF TypeIn
<1> QED
  BY <1>1, <1>2

(* The table of three gives >>> its type, the one the code reads on from.  *)
LEMMA ShiftIsShr ==
  TypeIn(ThreeCharacterSymbols, <<">", ">", ">">>) = "SHR"
<1>1. \A op \in ThreeCharacterSymbols : op[1] = <<">", ">", ">">> => op[2] = "SHR"
  BY DEF ThreeCharacterSymbols
<1>2. << <<">", ">", ">">>, "SHR">> \in ThreeCharacterSymbols
  BY DEF ThreeCharacterSymbols
<1>3. TypeIn(ThreeCharacterSymbols, <<">", ">", ">">>) # "INVALID"
  BY <1>2, ThreeRows, TypeInNone
<1> QED
  BY <1>1, <1>3, TypeInRow

-----------------------------------------------------------------------------
(* The longest match.                                                      *)

LongestIs(k) == \A op \in Operators : FoundHere(op[1]) => Len(op[1]) <= k

(* Once the table of three has answered no, no operator of more than two   *)
(* characters is in the text here, and so on down.                         *)
Munch ==
  /\ pc = "two" => LongestIs(2)
  /\ pc = "one" => LongestIs(1)

(* What the text has here is a matter of the text and the place.           *)
LEMMA SameLongest ==
  ASSUME UNCHANGED <<source, start>>, NEW k PROVE LongestIs(k) => LongestIs(k)'
  BY DEF LongestIs, FoundHere

(* No operator has more than four characters.                              *)
LEMMA OperatorSize ==
  \A op \in Operators : Len(op[1]) \in 1..4
  BY OperatorLengths

(* A third element after two.                                              *)
LEMMA AppendPair == ASSUME NEW a, NEW b, NEW c PROVE Append(<<a, b>>, c) = <<a, b, c>>
<1> DEFINE S == {a, b, c}
<1>1. <<a, b>> \in Seq(S) /\ Len(<<a, b>>) = 2 /\ <<a, b, c>> \in Seq(S) /\ Len(<<a, b, c>>) = 3
  OBVIOUS
<1>2. Append(<<a, b>>, c) \in Seq(S) /\ Len(Append(<<a, b>>, c)) = 3
  BY <1>1
<1>3. \A i \in 1..3 : Append(<<a, b>>, c)[i] = <<a, b, c>>[i]
  OBVIOUS
<1> QED
  BY <1>1, <1>2, <1>3, SameSequence

(* Three characters of an operator in the text are the three collected.    *)
LEMMA ThreeFound ==
  ASSUME Typed, Tape, pc = "third", acc[2] # EOF,
         NEW op \in Operators, FoundHere(op[1]), Len(op[1]) \in 3..4
  PROVE  /\ ThreeType # "INVALID"
         /\ Len(op[1]) = 4 => ThreeType = "SHR"
<1>1. /\ Len(source) \in Nat /\ start \in Nat \ {0} /\ from \in 0..Len(source)
      /\ Reads(start + 2) /\ Spells(start)
  BY StreamTypes DEF Tape, Lexical
<1>2. Len(acc) = 2 /\ acc \in Seq(Marked) /\ ch \in Marked
  BY DEF Typed, TypeOK, AccOK, Marked
<1>3. start + 2 <= Len(source)
  <2>1. PICK k : k = Len(op[1]) /\ k \in 3..4
    OBVIOUS
  <2>2. start + k - 1 <= Len(source)
    BY <2>1 DEF FoundHere
  <2>3. \A n \in 3..4 : start + n - 1 <= Len(source) => start + 2 <= Len(source)
    BY <1>1
  <2> QED
    BY <2>1, <2>2, <2>3, Zenon
<1>4. op[1][1] = source[start] /\ op[1][2] = source[start + 1] /\ op[1][3] = source[start + 2]
  <2>1. 1 \in 1..Len(op[1]) /\ 2 \in 1..Len(op[1]) /\ 3 \in 1..Len(op[1])
    OBVIOUS
  <2>2. start + 1 - 1 = start /\ start + 2 - 1 = start + 1 /\ start + 3 - 1 = start + 2
    BY <1>1
  <2> QED
    BY <2>1, <2>2 DEF FoundHere
<1>5. acc[1] = source[start] /\ acc[2] = source[start + 1] /\ ch = source[start + 2]
  <2>1. start + 1 - 1 = start /\ start + 2 - 1 = start + 1 /\ start <= Len(source)
        /\ start + 1 <= Len(source) /\ 1 \in 1..Len(acc) /\ 2 \in 1..Len(acc)
    BY <1>1, <1>2, <1>3
  <2>2. acc[1] = CharAt(start) /\ acc[2] = CharAt(start + 1)
    BY <1>1, <2>1 DEF Spells
  <2> QED
    BY <1>1, <1>3, <2>1, <2>2 DEF Reads, CharAt
<1>6. Append(acc, ch) = <<op[1][1], op[1][2], op[1][3]>>
  <2>1. acc = <<acc[1], acc[2]>>
    BY <1>2
  <2>2. Append(<<acc[1], acc[2]>>, ch) = <<acc[1], acc[2], ch>>
    BY AppendPair
  <2> QED
    BY <1>4, <1>5, <2>1, <2>2
<1>7. CASE Len(op[1]) = 3
  <2>1. op \in ThreeCharacterSymbols /\ op[1] = Append(acc, ch)
    BY <1>6, <1>7, OperatorLengths
  <2>2. ThreeType # "INVALID"
    BY <2>1, ThreeRows, TypeInNone DEF ThreeType
  <2> QED
    BY <1>7, <2>2
<1>8. CASE Len(op[1]) = 4
  <2>1. op[1] = <<">", ">", ">", "=">>
    BY <1>8, OperatorLengths
  <2>2. Append(acc, ch) = <<">", ">", ">">>
    BY <1>6, <2>1
  <2>3. ThreeType = "SHR"
    BY <2>2, ShiftIsShr DEF ThreeType
  <2> QED
    BY <2>3
<1> QED
  BY <1>7, <1>8

(* Each table that answers no rules out the operators of its length, and   *)
(* the push-back leaves the shorter ones to the next.                      *)
LEMMA MunchStep ==
  ASSUME Typed, ClassFree, Tape, Munch, Step
  PROVE  Munch'
<1>0. source' = source /\ Len(source) \in Nat /\ from \in 0..Len(source)
  BY StepSource, StreamTypes DEF Tape
<1>1. ASSUME pc' = "two" PROVE LongestIs(2)'
  <2>1. ThirdBack
    BY <1>1, Arrivals
  <2>2. pc = "third" /\ acc[2] # EOF /\ ThreeType = "INVALID" /\ start' = start
    BY <1>1, <2>1 DEF ThirdBack, PutbackThen, Abort
  <2>3. LongestIs(2)
    <3>1. ASSUME NEW op \in Operators, FoundHere(op[1]) PROVE Len(op[1]) <= 2
      <4>1. Len(op[1]) \notin 3..4
        BY <2>2, <3>1, ThreeFound
      <4>2. Len(op[1]) \in 1..2
        BY <4>1, OperatorSize
      <4>3. \A k \in 1..2 : k <= 2
        OBVIOUS
      <4> QED
        BY <4>2, <4>3, Zenon
    <3> QED
      BY <3>1 DEF LongestIs
  <2> QED
    BY <1>0, <2>2, <2>3, SameLongest
<1>2. ASSUME pc' = "one" PROVE LongestIs(1)'
  <2>1. CASE SecondIsEnd
    <3>1. pc = "third" /\ acc[2] = EOF /\ start' = start
      BY <2>1 DEF SecondIsEnd
    <3>2. Len(acc) = 2 /\ start \in Nat \ {0} /\ Spells(start)
      BY <1>0, <3>1 DEF Tape, Lexical, Typed, AccOK
    <3>3. start + 1 > Len(source)
      <4>1. PICK n \in Nat \ {0} : n = start + 1 /\ n = start + 2 - 1
        BY <3>2
      <4>2. acc[2] = CharAt(n)
        BY <3>2, <4>1 DEF Spells
      <4> QED
        BY <1>0, <3>1, <4>1, <4>2, CharAtTypes
    <3>4. LongestIs(1)
      BY <1>0, <3>2, <3>3, OperatorSize DEF LongestIs, FoundHere
    <3> QED
      BY <1>0, <3>1, <3>4, SameLongest
  <2>2. CASE SecondBack
    <3>1. pc = "two" /\ TwoType = "INVALID" /\ start' = start
      BY <2>2 DEF SecondBack, PutbackThen, Abort
    <3>2. /\ Len(acc) = 2 /\ acc \in Seq(Marked) /\ start \in Nat \ {0} /\ Spells(start)
          /\ Within(start) /\ LongestIs(2)
      BY <1>0, <3>1 DEF Tape, Lexical, Typed, TypeOK, AccOK, Munch
    <3>3. ASSUME NEW op \in Operators, FoundHere(op[1]), Len(op[1]) = 2 PROVE FALSE
      <4>1. op \in TwoCharacterSymbols /\ op[1] = <<op[1][1], op[1][2]>>
        BY <3>3, OperatorLengths
      <4>2. \A i \in 1..2 : op[1][i] = source[start + i - 1] /\ acc[i] = source[start + i - 1]
        BY <1>0, <3>2, <3>3 DEF FoundHere, Spells, CharAt, Within
      <4>3. acc = <<acc[1], acc[2]>>
        BY <3>2
      <4>4. op[1] = acc
        BY <4>1, <4>2, <4>3
      <4> QED
        BY <3>1, <4>1, <4>4, TwoRows, TypeInNone DEF TwoType
    <3>4. LongestIs(1)
      <4>1. ASSUME NEW op \in Operators, FoundHere(op[1]) PROVE Len(op[1]) <= 1
        <5>1. Len(op[1]) <= 2 /\ Len(op[1]) # 2
          BY <3>2, <3>3, <4>1 DEF LongestIs
        <5>2. Len(op[1]) \in 1..4
          BY OperatorSize
        <5>3. \A k \in 1..4 : k <= 2 /\ k # 2 => k <= 1
          OBVIOUS
        <5> QED
          BY <5>1, <5>2, <5>3, Zenon
      <4> QED
        BY <4>1 DEF LongestIs
    <3> QED
      BY <1>0, <3>1, <3>4, SameLongest
  <2> QED
    BY <1>2, <2>1, <2>2, Arrivals
<1> QED
  BY <1>1, <1>2 DEF Munch

-----------------------------------------------------------------------------
(* The question of the slash.                                              *)

(* No slash on the rest of this line, or after a backslash, could close an *)
(* expression that starts here.                                            *)
NoneCloses ==
  \A j \in start + 1..Len(source) :
    source[j] = "/" => \E i \in start + 1..j - 1 : source[i] \in {"\n", "\\"}

(* Nor could one in what has been collected.                               *)
Unclosed ==
  \A j \in 1..Len(acc) : acc[j] = "/" => \E i \in 1..j - 1 : acc[i] = "\\"

(* A regular expression is tried unless the caller said not to, its body   *)
(* has no slash that is not escaped, and when it is given up nothing on    *)
(* the line can close it.                                                  *)
Slashes ==
  /\ pc \in {"regexStart", "regex", "regexEscaped", "flags", "unread"} => ~notRegex
  /\ pc \in {"regex", "regexEscaped"} => Unclosed
  /\ pc = "regexEscaped" => Len(acc) >= 1 /\ acc[Len(acc)] = "\\"
  /\ pc \in {"unread", "token", "second", "third", "two", "one"} /\ ~notRegex
       /\ start \in 1..Len(source) /\ source[start] = "/" => NoneCloses

(* So is what can close a regular expression.                              *)
LEMMA SameNoneCloses ==
  UNCHANGED <<source, start>> => (NoneCloses <=> NoneCloses')
  BY DEF NoneCloses

(* What a push collects may only be a slash after a backslash.             *)
LEMMA PushUnclosed ==
  ASSUME acc \in Seq(Marked), ch \in Marked, acc' = Append(acc, ch), Unclosed,
         ch # "/" \/ (Len(acc) >= 1 /\ acc[Len(acc)] = "\\")
  PROVE  Unclosed' /\ Len(acc') >= 1 /\ acc'[Len(acc')] = ch
<1>1. /\ Len(acc) \in Nat /\ Len(acc') = Len(acc) + 1 /\ acc'[Len(acc) + 1] = ch
      /\ \A i \in 1..Len(acc) : acc'[i] = acc[i]
  BY AppendProperties
<1>2. ASSUME NEW j \in 1..Len(acc) + 1, acc'[j] = "/"
      PROVE  \E i \in 1..j - 1 : acc'[i] = "\\"
  <2>1. CASE j = Len(acc) + 1
    <3>1. Len(acc) >= 1 /\ acc[Len(acc)] = "\\"
      BY <1>1, <1>2, <2>1
    <3>2. Len(acc) \in 1..j - 1 /\ acc'[Len(acc)] = "\\"
      BY <1>1, <2>1, <3>1
    <3> QED
      BY <3>2
  <2>2. CASE j \in 1..Len(acc)
    <3>1. PICK i \in 1..j - 1 : acc[i] = "\\"
      BY <1>1, <1>2, <2>2 DEF Unclosed
    <3>2. acc'[i] = acc[i]
      BY <1>1, <2>2
    <3> QED
      BY <3>1, <3>2
  <2> QED
    BY <1>1, <1>2, <2>1, <2>2
<1> QED
  BY <1>1, <1>2 DEF Unclosed

(* Giving up at the end of the line: what was collected, and what follows. *)
LEMMA GivenUp ==
  ASSUME Typed, ClassFree, Tape, Slashes, pc = "regex", ch \in {EOF, "\n"}
  PROVE  NoneCloses
<1>0. /\ Len(source) \in Nat /\ start \in Nat /\ acc \in Seq(Marked) /\ Len(acc) \in Nat
      /\ from \in 0..Len(source)
      /\ start \in from + 1..Len(source) /\ Spells(start + 1) /\ Reads(start + 1 + Len(acc))
      /\ Unclosed
  BY StreamTypes DEF Tape, Lexical, Typed, TypeOK, Slashes
<1>1. PICK m \in Nat \ {0} : m = start + 1 + Len(acc) /\ Reads(m)
  BY <1>0
<1>2. ASSUME NEW j \in start + 1..Len(source), source[j] = "/"
      PROVE  \E i \in start + 1..j - 1 : source[i] \in {"\n", "\\"}
  <2>1. CASE j < m
    <3>1. PICK k \in 1..Len(acc) : k = j - start /\ start + 1 + k - 1 = j
      <4>1. j - start \in 1..Len(acc) /\ start + 1 + (j - start) - 1 = j
        BY <1>0, <1>1, <1>2, <2>1
      <4> QED
        BY <4>1
    <3>2. acc[k] = "/"
      BY <1>0, <1>2, <3>1 DEF Spells, CharAt
    <3>3. PICK l \in 1..k - 1 : acc[l] = "\\"
      BY <1>0, <3>1, <3>2 DEF Unclosed
    <3>4. PICK i : i = start + 1 + l - 1
      OBVIOUS
    <3>5. i \in start + 1..j - 1 /\ i <= Len(source) /\ l \in 1..Len(acc)
      BY <1>0, <1>2, <3>1, <3>3, <3>4
    <3>6. source[i] = "\\"
      BY <1>0, <3>3, <3>4, <3>5 DEF Spells, CharAt
    <3> QED
      BY <3>5, <3>6
  <2>2. CASE j >= m
    <3>1. m <= Len(source)
      BY <1>0, <1>1, <1>2, <2>2
    <3>2. source[m] = "\n"
      BY <1>1, <3>1, CharAtTypes DEF Reads
    <3>3. m \in start + 1..j - 1
      BY <1>0, <1>1, <1>2, <2>2, <3>2
    <3> QED
      BY <3>2, <3>3
  <2> QED
    BY <1>0, <1>1, <1>2, <2>1, <2>2
<1> QED
  BY <1>2 DEF NoneCloses

(* Every step keeps it, and the step that gives a regular expression up    *)
(* establishes that none was there.                                        *)
LEMMA SlashesStep ==
  ASSUME Typed, ClassFree, Tape, Slashes, Step
  PROVE  Slashes'
<1>0. /\ source' = source /\ notRegex' = notRegex /\ Len(source) \in Nat /\ from \in 0..Len(source)
      /\ acc \in Seq(Marked) /\ ch \in Marked /\ Tape' /\ pc \notin {"class", "classEscaped"}
  BY StepSource, StepTape, StreamTypes DEF Tape, Typed, TypeOK, Marked
<1>1. ASSUME pc' \in {"regexStart", "regex", "regexEscaped", "flags", "unread"} PROVE ~notRegex'
  <2>1. CASE SlashAlone
    BY <1>0, <1>1, <2>1 DEF SlashAlone, PutbackThen, Goto, Abort
  <2>2. CASE RegexStart \/ RegexBody \/ RegexEscaped \/ RegexEnd \/ RegexFail \/ RegexUnread
             \/ pc = "flags"
    <3>1. pc \in {"regexStart", "regex", "regexEscaped", "flags", "unread"}
      BY <2>2 DEF RegexStart, RegexBody, RegexEscaped, RegexEnd, RegexFail, RegexUnread
    <3> QED
      BY <1>0, <3>1 DEF Slashes
  <2> QED
    BY <1>0, <1>1, <2>1, <2>2, Arrivals
<1>2. ASSUME pc' \in {"regex", "regexEscaped"}
      PROVE  Unclosed' /\ (pc' = "regexEscaped" => Len(acc') >= 1 /\ acc'[Len(acc')] = "\\")
  <2>1. CASE RegexStart
    <3>1. acc' = <<>> /\ pc' = "regex"
      BY <2>1 DEF RegexStart, Read
    <3>2. Len(acc') = 0
      BY <3>1
    <3> QED
      BY <3>1, <3>2 DEF Unclosed
  <2>2. CASE RegexBody
    <3>1. /\ pc = "regex" /\ ch # "/" /\ acc' = Append(acc, ch)
          /\ pc' = "regexEscaped" => ch = "\\"
      BY <2>2 DEF RegexBody, PushAndRead, Read
    <3> QED
      BY <1>0, <3>1, PushUnclosed DEF Slashes
  <2>3. CASE RegexEscaped
    <3>1. pc = "regexEscaped" /\ acc' = Append(acc, ch) /\ pc' = "regex"
      BY <2>3 DEF RegexEscaped, PushAndRead, Read
    <3> QED
      BY <1>0, <3>1, PushUnclosed DEF Slashes
  <2> QED
    BY <1>0, <1>2, <2>1, <2>2, <2>3, Arrivals
<1>3. ASSUME pc' \in {"unread", "token", "second", "third", "two", "one"}, ~notRegex',
             start' \in 1..Len(source'), source'[start'] = "/"
      PROVE  NoneCloses'
  <2>1. CASE RegexFail
    <3>1. pc = "regex" /\ ch \in {EOF, "\n"} /\ start' = start
      BY <1>3, <2>1 DEF RegexFail, PutbackThen, Abort
    <3> QED
      BY <1>0, <3>1, GivenUp, SameNoneCloses
  <2>2. CASE LexemeStart
    <3>1. pc = "scan" /\ ch # "/" /\ start' = Cursor
      BY <2>2 DEF LexemeStart
    <3>2. PICK n \in from + 1..Len(source) + 1 : Reads(n)
      BY <3>1 DEF Tape, InScan
    <3>3. n = Len(source) + 1
      <4>1. CASE n <= Len(source)
        BY <1>0, <1>3, <3>1, <3>2, <4>1 DEF Reads, Placed, CharAt
      <4> QED
        BY <1>0, <3>2, <4>1
    <3>4. start' = Len(source)
      BY <1>0, <3>1, <3>2, <3>3 DEF Reads, Placed
    <3> QED
      BY <1>0, <3>4 DEF NoneCloses
  <2>3. CASE SlashAlone
    <3>1. FALSE
      BY <1>0, <1>3, <2>3 DEF SlashAlone, PutbackThen, Goto, Abort
    <3> QED
      BY <3>1
  <2>4. CASE RegexUnread \/ RegexUnreadDone \/ First \/ Second \/ SecondIsEnd \/ ThirdBack
             \/ SecondBack
    <3>1. /\ pc \in {"unread", "token", "second", "third", "two", "one"} /\ start' = start
      BY <1>3, <2>4 DEF RegexUnread, RegexUnreadDone, First, Second, SecondIsEnd, ThirdBack,
                        SecondBack, PutbackThen, Abort, PushAndRead
    <3>2. NoneCloses
      BY <1>0, <1>3, <3>1 DEF Slashes
    <3> QED
      BY <1>0, <3>1, <3>2, SameNoneCloses
  <2> QED
    BY <1>0, <1>3, <2>1, <2>2, <2>3, <2>4, Arrivals
<1> QED
  BY <1>1, <1>2, <1>3 DEF Slashes

-----------------------------------------------------------------------------
(* What an answer says of the text, by kinds of tokens.                    *)

(* The longest operator of the text here, and a division only if no        *)
(* expression starts here.                                                 *)
FoundAsOperator(type, view, end) ==
  /\ <<view, type>> \in Operators /\ FoundHere(view)
  /\ end = start + Len(view) - 1 /\ LongestIs(Len(view))
  /\ ~notRegex /\ type \in {"DIV", "ASSIGN_DIV"} => NoneCloses

(* A whole name, the last of the text or with no name character after it.  *)
FoundAsName(type, view, end) ==
  /\ type = IsKeyword(view) /\ FoundHere(view)
  /\ view # <<>> /\ view[1] \in IdentifierStart
  /\ end = start + Len(view) - 1
  /\ end = Len(source) \/ source[end + 1] \notin IdentifierChar

(* What is between two quotes of one kind.                                 *)
FoundInQuotes(type, view, end) ==
  /\ type \in {"STRING", "TEMPLATE"}
  /\ end = start + Len(view) + 1 /\ end <= Len(source)
  /\ source[end] = source[start]
  /\ \A i \in 1..Len(view) : view[i] = source[start + i]

(* What was collected, the last character of it put back or not.           *)
FoundAsNumber(type, view, end) ==
  /\ type = "NUMBER" /\ FoundHere(view) /\ view # <<>>
  /\ \/ end = start + Len(view) - 1
     \/ end = start + Len(view) - 2 /\ Len(view) > 1

(* Slash, body, slash and flags, a marker collected for the second slash.  *)
FoundAsRegex(type, view, end) ==
  /\ type = "REGEX" /\ ~notRegex /\ end <= Len(source) /\ source[start] = "/"
  /\ \E b \in 1..end - start :
       /\ source[start + b] = "/" /\ view[b] = "marker"
       /\ \A i \in 1..end - start : i # b => view[i] = source[start + i]
       /\ IF b = end - start THEN Len(view) = b + 1 /\ view[b + 1] = "n"
          ELSE Len(view) = end - start

Found(type, view, end) ==
  \/ type = "ERROR" /\ end = Len(source)
  \/ type = "INVALID" /\ end = start
  \/ FoundAsOperator(type, view, end)
  \/ FoundAsName(type, view, end)
  \/ FoundInQuotes(type, view, end)
  \/ FoundAsNumber(type, view, end)
  \/ FoundAsRegex(type, view, end)

(* An answer is the end of the text, or what was found at the place where  *)
(* the trivia end.                                                         *)
Answered(type, view, end) ==
  \/ type = "END_OF_FILE" /\ end = Len(source) /\ IsTrivia(from, Len(source))
  \/ /\ start \in from + 1..Len(source) /\ IsTrivia(from, start - 1)
     /\ Found(type, view, end)

Answer == Answered(token.type, token.view, Cursor)

(* What an answer says is about the text, the place and the caller's mode. *)
LEMMA SameAnswer ==
  ASSUME UNCHANGED <<source, start, from, notRegex>>, NEW type, NEW view, NEW end,
         Answered(type, view, end)
  PROVE  Answered(type, view, end)'
<1>1. PICK b, e, f : b = from /\ e = start - 1 /\ f = Len(source)
  OBVIOUS
<1>2. (IsTrivia(b, e) => IsTrivia(b, e)') /\ (IsTrivia(b, f) => IsTrivia(b, f)')
  BY SameTrivia
<1>3. /\ IsTrivia(from, start - 1) => IsTrivia(from, start - 1)'
      /\ IsTrivia(from, Len(source)) => IsTrivia(from, Len(source))'
  BY <1>1, <1>2
<1>4. Found(type, view, end) => Found(type, view, end)'
  <2>1. FoundHere(view) <=> FoundHere(view)'
    BY DEF FoundHere
  <2>2. LongestIs(Len(view)) => LongestIs(Len(view))'
    BY SameLongest
  <2>3. NoneCloses => NoneCloses'
    BY SameNoneCloses
  <2>4. FoundAsOperator(type, view, end) => FoundAsOperator(type, view, end)'
    BY <2>1, <2>2, <2>3 DEF FoundAsOperator
  <2>5. FoundAsName(type, view, end) => FoundAsName(type, view, end)'
    BY <2>1 DEF FoundAsName
  <2>6. FoundInQuotes(type, view, end) => FoundInQuotes(type, view, end)'
    BY DEF FoundInQuotes
  <2>7. FoundAsNumber(type, view, end) => FoundAsNumber(type, view, end)'
    BY <2>1 DEF FoundAsNumber
  <2>8. FoundAsRegex(type, view, end) => FoundAsRegex(type, view, end)'
    BY DEF FoundAsRegex
  <2> QED
    BY <2>4, <2>5, <2>6, <2>7, <2>8 DEF Found
<1> QED
  BY <1>3, <1>4 DEF Answered

(* A token is answered with what holds at the cursor after the step.       *)
LEMMA TokenAnswer ==
  ASSUME source' = source, NEW type, NEW view, NEW where, Return(type, view, where),
         NEW end, Cursor' = end, Answered(type, view, end)
  PROVE  Answer'
<1>1. /\ UNCHANGED <<source, start, from, notRegex>>
      /\ token'.type = type /\ token'.view = view
  BY DEF Return, call
<1>2. Answered(type, view, end)'
  BY <1>1, SameAnswer
<1> QED
  BY <1>1, <1>2 DEF Answer

(* The same of an answer that leaves the stream alone,                     *)
LEMMA AnswerHere ==
  ASSUME NEW type, NEW view, NEW where, ReturnHere(type, view, where),
         Answered(type, view, Cursor)
  PROVE  Answer'
<1>1. source' = source /\ Cursor' = Cursor /\ Return(type, view, where)
  BY DEF ReturnHere, Return, call, stream, Cursor
<1>2. PICK end : end = Cursor
  OBVIOUS
<1> QED
  BY <1>1, <1>2, TokenAnswer

(* and of one that first puts back the character read too far.             *)
LEMMA AnswerBack ==
  ASSUME Typed, Tape, NEW n \in Nat \ {0}, Reads(n), n - 1 <= Len(source),
         NEW type, NEW view, NEW where, PutbackThen(ch, Return(type, view, where)),
         pc' = "idle", Answered(type, view, n - 1)
  PROVE  Answer'
<1>1. Putback(ch) /\ Return(type, view, where) /\ source' = source
  BY DEF PutbackThen, Abort, Return, call
<1>2. Placed(n - 1)'
  BY <1>1, PutBackAt DEF Reads, Tape
<1>3. Cursor' = n - 1
  BY <1>1, <1>2 DEF Placed
<1> QED
  BY <1>1, <1>3, TokenAnswer

(* Collected text that does not run over the end is in the text.           *)
LEMMA SpelledHere ==
  ASSUME Typed, Tape, pc \in Lexical, Spells(start), Within(start)
  PROVE  FoundHere(acc)
<1>1. Len(source) \in Nat /\ start \in Nat /\ Len(acc) \in Nat
  BY StreamTypes DEF Tape, Typed, TypeOK
<1> QED
  BY <1>1 DEF Spells, Within, FoundHere, CharAt

(* The lexeme being read, wherever in it the call stands.                  *)
LEMMA AtOnset ==
  ASSUME Typed, Tape, Passed, pc \in Lexical
  PROVE  /\ start \in from + 1..Len(source) /\ start \in Nat \ {0} /\ IsTrivia(from, start - 1)
         /\ Len(source) \in Nat /\ from \in 0..Len(source) /\ acc \in Seq(Marked) /\ Len(acc) \in Nat
         /\ source \in Seq(Char) /\ Cursor \in Int
  BY StreamTypes DEF Tape, Passed, Typed, TypeOK

(* The operators the code answers without a table.                         *)
LEMMA RowsInOperators ==
  /\ << <<"/">>, "DIV">> \in Operators
  /\ << <<">", ">", ">">>, "SHR">> \in Operators
  /\ << <<">", ">", ">", "=">>, "ASSIGN_SHR">> \in Operators
  BY DEF Operators

(* What runs to the end of the text.                                       *)
LEMMA EndAnswers ==
  ASSUME Typed, ClassFree, Tape, Passed, pc' = "idle",
         SlashAtEnd \/ BlockCommentEnd \/ RegexClassUnclosed \/ EndOfFile \/ StringUnclosed
  PROVE  Answer'
<1>1. CASE SlashAtEnd
  <2>1. pc = "slash" /\ ch = EOF /\ ReturnHere("DIV", <<"/">>, Here)
    BY <1>1 DEF SlashAtEnd
  <2>2. /\ start \in from + 1..Len(source) /\ start \in Nat \ {0} /\ IsTrivia(from, start - 1)
        /\ Len(source) \in Nat /\ source[start] = "/" /\ Reads(start + 1)
    BY <2>1, AtOnset DEF Lexical, Slashed, Tape
  <2>3. PICK n \in Nat \ {0} : n = start + 1 /\ Reads(n) /\ n - 1 = start
    BY <2>2
  <2>4. ~(n <= Len(source))
    BY <2>1, <2>3, CharAtTypes DEF Reads
  <2>5. start = Len(source) /\ Cursor = start
    BY <2>2, <2>3, <2>4 DEF Reads, Placed
  <2>6. Len(<<"/">>) = 1 /\ <<"/">>[1] = "/" /\ start + 1 - 1 = start
    BY <2>2
  <2>7. FoundHere(<<"/">>)
    BY <2>2, <2>5, <2>6 DEF FoundHere
  <2>8. LongestIs(1)
    <3>1. ASSUME NEW op \in Operators, FoundHere(op[1]) PROVE Len(op[1]) <= 1
      <4>1. Len(op[1]) \in 1..4 /\ start + Len(op[1]) - 1 <= Len(source)
        BY <3>1, OperatorSize DEF FoundHere
      <4>2. \A k \in 1..4 : start + k - 1 <= Len(source) => k <= 1
        BY <2>2, <2>5
      <4> QED
        BY <4>1, <4>2, Zenon
    <3> QED
      BY <3>1 DEF LongestIs
  <2>9. NoneCloses
    BY <2>2, <2>5 DEF NoneCloses
  <2>10. FoundAsOperator("DIV", <<"/">>, Cursor)
    BY <2>5, <2>6, <2>7, <2>8, <2>9, RowsInOperators DEF FoundAsOperator
  <2>11. Answered("DIV", <<"/">>, Cursor)
    BY <2>2, <2>10 DEF Answered, Found
  <2> QED
    BY <2>1, <2>11, AnswerHere
<1>2. CASE BlockCommentEnd \/ StringUnclosed
  <2>1. /\ pc \in {"blockEnd", "string", "stringEscaped"} /\ ch = EOF
        /\ \E where : ReturnHere("ERROR", <<>>, where)
    BY <1>2 DEF BlockCommentEnd, StringUnclosed, Goto
  <2>2. /\ start \in from + 1..Len(source) /\ start \in Nat \ {0} /\ IsTrivia(from, start - 1)
        /\ Len(source) \in Nat /\ Len(acc) \in Nat
    BY <2>1, AtOnset DEF Lexical
  <2>3. PICK n \in Nat \ {0} : Reads(n)
    <3>1. CASE pc = "blockEnd"
      BY <2>2, <3>1 DEF Tape, InScan
    <3>2. CASE pc \in {"string", "stringEscaped"}
      <4>1. PICK n \in Nat \ {0} : n = start + 1 + Len(acc)
        BY <2>2
      <4> QED
        BY <3>2, <4>1 DEF Tape
    <3> QED
      BY <2>1, <3>1, <3>2
  <2>4. ~(n <= Len(source))
    BY <2>1, <2>3, CharAtTypes DEF Reads
  <2>5. Cursor = Len(source)
    BY <2>3, <2>4 DEF Reads, Placed
  <2>6. Answered("ERROR", <<>>, Cursor)
    BY <2>2, <2>5 DEF Answered, Found
  <2> QED
    BY <2>1, <2>6, AnswerHere
<1>3. CASE RegexClassUnclosed
  BY <1>3 DEF RegexClassUnclosed, Tape
<1>4. CASE EndOfFile
  <2>1. pc = "token" /\ ch = EOF /\ ReturnHere("END_OF_FILE", <<>>, Here)
    BY <1>4 DEF EndOfFile
  <2>2. Cursor = Len(source) /\ IsTrivia(from, Len(source))
    BY <2>1 DEF Tape, Passed
  <2>3. Answered("END_OF_FILE", <<>>, Cursor)
    BY <2>2 DEF Answered
  <2> QED
    BY <2>1, <2>3, AnswerHere
<1> QED
  BY <1>1, <1>2, <1>3, <1>4

(* A name ends where no name character follows, and has the type of the    *)
(* keyword it spells.                                                      *)
LEMMA NameAnswers ==
  ASSUME Typed, ClassFree, Tape, Passed, pc' = "idle", IdentifierReturn
  PROVE  Answer'
<1>1. pc = "identifier" /\ ch \notin IdentifierChar
      /\ PutbackThen(ch, Return(IsKeyword(acc), acc, mark))
  BY DEF IdentifierReturn
<1>2. /\ start \in from + 1..Len(source) /\ start \in Nat \ {0} /\ IsTrivia(from, start - 1)
      /\ Len(source) \in Nat /\ Len(acc) \in Nat
      /\ Reads(start + Len(acc)) /\ Within(start) /\ FoundHere(acc)
      /\ acc # <<>> /\ acc[1] \in IdentifierStart
  BY <1>1, AtOnset, SpelledHere DEF Lexical, Tape
<1>3. PICK n \in Nat \ {0} : n = start + Len(acc) /\ Reads(n)
  BY <1>2
<1>4. n - 1 = start + Len(acc) - 1 /\ n - 1 <= Len(source)
  BY <1>2, <1>3 DEF Within
<1>5. n - 1 = Len(source) \/ source[n - 1 + 1] \notin IdentifierChar
  <2>1. CASE n <= Len(source)
    BY <1>1, <1>3, <2>1 DEF Reads, CharAt
  <2>2. CASE ~(n <= Len(source))
    BY <1>2, <1>3, <1>4, <2>2
  <2> QED
    BY <2>1, <2>2
<1>6. FoundAsName(IsKeyword(acc), acc, n - 1)
  BY <1>2, <1>4, <1>5 DEF FoundAsName
<1>7. Answered(IsKeyword(acc), acc, n - 1)
  BY <1>2, <1>6 DEF Answered, Found
<1> QED
  BY <1>1, <1>3, <1>4, <1>7, AnswerBack

(* A string ends at the quote it began with.                               *)
LEMMA StringAnswers ==
  ASSUME Typed, ClassFree, Tape, Passed, StringReturn
  PROVE  Answer'
<1>1. PICK type \in {"STRING", "TEMPLATE"} :
        pc = "string" /\ ch = last /\ ReturnHere(type, acc, mark)
  BY DEF StringReturn
<1>2. /\ start \in from + 1..Len(source) /\ start \in Nat \ {0} /\ IsTrivia(from, start - 1)
      /\ Len(source) \in Nat /\ Len(acc) \in Nat
      /\ Reads(start + 1 + Len(acc)) /\ Within(start + 1) /\ Spells(start + 1)
      /\ last = source[start] /\ last \in QuoteMark
  BY <1>1, AtOnset DEF Lexical, Tape
<1>3. PICK n \in Nat \ {0} : n = start + Len(acc) + 1 /\ Reads(n) /\ n = start + 1 + Len(acc)
  BY <1>2
<1>4. ch # EOF
  BY <1>1, <1>2, EofIsNoSpelling
<1>5. n <= Len(source) /\ Cursor = n /\ source[n] = source[start]
  BY <1>1, <1>2, <1>3, <1>4, CharAtTypes DEF Reads, Placed
<1>6. \A i \in 1..Len(acc) : acc[i] = source[start + i]
  <2>1. \A i \in 1..Len(acc) : start + 1 + i - 1 = start + i /\ start + i <= Len(source)
    BY <1>2 DEF Within
  <2> QED
    BY <1>2, <2>1 DEF Spells, CharAt
<1>7. FoundInQuotes(type, acc, Cursor)
  BY <1>3, <1>5, <1>6 DEF FoundInQuotes
<1>8. Answered(type, acc, Cursor)
  BY <1>2, <1>7 DEF Answered, Found
<1> QED
  BY <1>1, <1>8, AnswerHere

(* A number is what was collected, of which the last character may have    *)
(* been put back.                                                          *)
LEMMA NumberAnswers ==
  ASSUME Typed, ClassFree, Tape, Passed, pc' = "idle", NumberReturn
  PROVE  Answer'
<1>1. /\ pc \in {"number", "hex", "bin", "digit", "decimal"}
      /\ PutbackThen(ch, Return("NUMBER", acc, mark))
  BY DEF NumberReturn, NumberEnds
<1>2. /\ start \in from + 1..Len(source) /\ start \in Nat \ {0} /\ IsTrivia(from, start - 1)
      /\ Len(source) \in Nat /\ Len(acc) \in Nat
      /\ Within(start) /\ FoundHere(acc) /\ acc # <<>>
  BY <1>1, AtOnset, SpelledHere DEF Lexical, Tape
<1>3. PICK n \in Nat \ {0} :
        /\ Reads(n)
        /\ n = start + Len(acc) \/ (n = start + Len(acc) - 1 /\ Len(acc) > 1)
  <2>1. CASE Reads(start + Len(acc))
    <3>1. start + Len(acc) \in Nat \ {0}
      BY <1>2
    <3> QED
      BY <2>1, <3>1
  <2>2. CASE Len(acc) > 1 /\ Reads(start + Len(acc) - 1)
    <3>1. start + Len(acc) - 1 \in Nat \ {0}
      BY <1>2, <2>2
    <3> QED
      BY <2>2, <3>1
  <2> QED
    BY <1>1, <2>1, <2>2 DEF Tape
<1>4. /\ n - 1 <= Len(source)
      /\ n - 1 = start + Len(acc) - 1 \/ (n - 1 = start + Len(acc) - 2 /\ Len(acc) > 1)
  BY <1>2, <1>3 DEF Within
<1>5. FoundAsNumber("NUMBER", acc, n - 1)
  BY <1>2, <1>4 DEF FoundAsNumber
<1>6. Answered("NUMBER", acc, n - 1)
  BY <1>2, <1>5 DEF Answered, Found
<1> QED
  BY <1>1, <1>3, <1>4, <1>6, AnswerBack

(* A regular expression has a marker in the place of its closing slash.    *)
LEMMA RegexAnswers ==
  ASSUME Typed, ClassFree, Tape, Passed, Slashes, pc' = "idle", RegexReturn
  PROVE  Answer'
<1> DEFINE view == IF acc[Len(acc)] = "marker" THEN Append(acc, "n") ELSE acc
<1>1. pc = "flags" /\ PutbackThen(ch, Return("REGEX", view, mark)) /\ ~notRegex
  BY DEF RegexReturn, Slashes
<1>2. /\ start \in from + 1..Len(source) /\ start \in Nat \ {0} /\ IsTrivia(from, start - 1)
      /\ Len(source) \in Nat /\ acc \in Seq(Marked) /\ Len(acc) \in Nat
      /\ Reads(start + 1 + Len(acc)) /\ Within(start + 1) /\ MarkedRegex
      /\ source[start] = "/"
  BY <1>1, AtOnset DEF Lexical, Slashed, Tape
<1>3. PICK b \in 1..Len(acc) :
        /\ acc[b] = "marker" /\ source[start + b] = "/"
        /\ \A i \in 1..Len(acc) : i # b => acc[i] = source[start + i]
        /\ \A i \in b + 1..Len(acc) : acc[i] \in RegexFlag
  BY <1>2 DEF MarkedRegex
<1>4. PICK n \in Nat \ {0} : n = start + 1 + Len(acc) /\ Reads(n)
  BY <1>2
<1>5. PICK e : e = n - 1 /\ e <= Len(source) /\ e - start = Len(acc)
  <2>1. n - 1 <= Len(source) /\ n - 1 - start = Len(acc)
    BY <1>2, <1>4 DEF Within
  <2> QED
    BY <2>1
<1>6. /\ \A i \in 1..Len(acc) : view[i] = acc[i]
      /\ IF b = Len(acc) THEN Len(view) = b + 1 /\ view[b + 1] = "n" ELSE Len(view) = Len(acc)
  <2>1. CASE b = Len(acc)
    <3>1. view = Append(acc, "n") /\ "n" \in Marked
      BY <1>3, <2>1 DEF Marked
    <3> QED
      BY <1>2, <2>1, <3>1, AppendProperties
  <2>2. CASE b # Len(acc)
    <3>1. Len(acc) \in b + 1..Len(acc)
      BY <1>2, <1>3, <2>2
    <3>2. acc[Len(acc)] \in RegexFlag
      BY <1>3, <3>1
    <3>3. acc[Len(acc)] # "marker"
      BY <3>2 DEF RegexFlag
    <3> QED
      BY <2>2, <3>3
  <2> QED
    BY <2>1, <2>2
<1> HIDE DEF view
<1>7. FoundAsRegex("REGEX", view, e)
  <2>1. b \in 1..e - start /\ view[b] = "marker"
    BY <1>3, <1>5, <1>6
  <2>2. \A i \in 1..e - start : i # b => view[i] = source[start + i]
    BY <1>3, <1>5, <1>6
  <2>3. IF b = e - start THEN Len(view) = b + 1 /\ view[b + 1] = "n" ELSE Len(view) = e - start
    BY <1>5, <1>6
  <2> QED
    BY <1>1, <1>2, <1>3, <1>5, <2>1, <2>2, <2>3 DEF FoundAsRegex
<1>8. Answered("REGEX", view, n - 1)
  BY <1>2, <1>5, <1>7 DEF Answered, Found
<1> QED
  BY <1>1, <1>4, <1>5, <1>8, AnswerBack

(* No division is in the table of three.                                   *)
LEMMA ThreeTypes == \A op \in ThreeCharacterSymbols : op[2] \notin {"DIV", "ASSIGN_DIV"}
  BY DEF ThreeCharacterSymbols

(* An operator of three characters: only >>>= is longer, and it is not     *)
(* answered here.                                                          *)
LEMMA ThreeCharactersAnswer ==
  ASSUME Typed, ClassFree, Tape, Passed, ThreeCharacters
  PROVE  Answer'
<1>1. /\ pc = "third" /\ acc[2] # EOF /\ ThreeType # "INVALID" /\ ThreeType # "SHR"
      /\ ReturnHere(ThreeType, Append(acc, ch), mark)
  BY DEF ThreeCharacters
<1>2. /\ start \in from + 1..Len(source) /\ start \in Nat \ {0} /\ IsTrivia(from, start - 1)
      /\ Len(source) \in Nat /\ Len(acc) = 2 /\ acc \in Seq(Marked) /\ ch \in Marked
      /\ Reads(start + 2) /\ Spells(start)
  BY <1>1, AtOnset DEF Lexical, Tape, Typed, TypeOK, AccOK, Marked
<1>3. PICK view : view = Append(acc, ch)
  OBVIOUS
<1>4. Len(view) = 3 /\ view[1] = acc[1] /\ view[2] = acc[2] /\ view[3] = ch
  <2>1. PICK a, b : a = acc[1] /\ b = acc[2] /\ acc = <<a, b>>
    BY <1>2
  <2>2. Append(<<a, b>>, ch) = <<a, b, ch>>
    BY AppendPair
  <2>3. view = <<a, b, ch>>
    BY <1>3, <2>1, <2>2
  <2> QED
    BY <2>1, <2>3
<1>5. PICK op \in ThreeCharacterSymbols : op[1] = view /\ op[2] = ThreeType
  BY <1>1, <1>3, TypeInRow DEF ThreeType
<1>6. op = <<view, ThreeType>> /\ op \in Operators /\ ThreeType \notin {"DIV", "ASSIGN_DIV"}
  <2>1. op = <<op[1], op[2]>>
    BY <1>5 DEF ThreeCharacterSymbols
  <2> QED
    BY <1>5, <2>1, ThreeTypes, TablesAreOperators
<1>7. ch # EOF
  <2>1. ch \in {"=", ">", "."}
    <3>1. \A o \in ThreeCharacterSymbols : o[1][3] \in {"=", ">", "."}
      BY DEF ThreeCharacterSymbols
    <3> QED
      BY <1>4, <1>5, <3>1
  <2> QED
    BY <2>1, EofIsNoSpelling
<1>8. PICK n \in Nat \ {0} : n = start + 2 /\ Reads(n)
  BY <1>2
<1>9. n <= Len(source) /\ Cursor = n /\ ch = source[n]
  BY <1>7, <1>8, CharAtTypes DEF Reads, Placed
<1>10. FoundHere(view)
  <2>1. acc[1] = source[start] /\ acc[2] = source[start + 1]
    <3>1. start + 1 - 1 = start /\ start + 2 - 1 = start + 1 /\ start <= Len(source)
          /\ start + 1 <= Len(source) /\ 1 \in 1..Len(acc) /\ 2 \in 1..Len(acc)
      BY <1>2, <1>8, <1>9
    <3>2. acc[1] = CharAt(start) /\ acc[2] = CharAt(start + 1)
      BY <1>2, <3>1 DEF Spells
    <3> QED
      BY <3>1, <3>2 DEF CharAt
  <2>2. \A i \in 1..3 : view[i] = source[start + i - 1]
    <3>1. \A i \in 1..3 : \/ i = 1 /\ start + i - 1 = start
                          \/ i = 2 /\ start + i - 1 = start + 1
                          \/ i = 3 /\ start + i - 1 = n
      BY <1>2, <1>8
    <3> QED
      BY <1>4, <1>9, <2>1, <3>1
  <2>3. start + 3 - 1 <= Len(source)
    BY <1>2, <1>8, <1>9
  <2> QED
    BY <1>4, <2>2, <2>3 DEF FoundHere
<1>11. LongestIs(3)
  <2>1. ASSUME NEW o \in Operators, FoundHere(o[1]) PROVE Len(o[1]) <= 3
    <3>1. Len(o[1]) # 4
      <4>1. Len(o[1]) = 4 => Len(o[1]) \in 3..4
        OBVIOUS
      <4> QED
        BY <1>1, <2>1, <4>1, ThreeFound
    <3>2. Len(o[1]) \in 1..4
      BY OperatorSize
    <3>3. \A k \in 1..4 : k # 4 => k <= 3
      OBVIOUS
    <3> QED
      BY <3>1, <3>2, <3>3, Zenon
  <2> QED
    BY <2>1 DEF LongestIs
<1>12. Cursor = start + Len(view) - 1
  BY <1>2, <1>4, <1>8, <1>9
<1>13. FoundAsOperator(ThreeType, view, Cursor)
  BY <1>4, <1>6, <1>10, <1>11, <1>12 DEF FoundAsOperator
<1>14. Answered(ThreeType, view, Cursor)
  BY <1>2, <1>13 DEF Answered, Found
<1> QED
  BY <1>1, <1>3, <1>14, AnswerHere

(* A fourth element after three.                                           *)
LEMMA AppendTriple ==
  ASSUME NEW a, NEW b, NEW c, NEW d PROVE Append(<<a, b, c>>, d) = <<a, b, c, d>>
<1> DEFINE S == {a, b, c, d}
<1>1. /\ <<a, b, c>> \in Seq(S) /\ Len(<<a, b, c>>) = 3
      /\ <<a, b, c, d>> \in Seq(S) /\ Len(<<a, b, c, d>>) = 4
  OBVIOUS
<1>2. Append(<<a, b, c>>, d) \in Seq(S) /\ Len(Append(<<a, b, c>>, d)) = 4
  BY <1>1
<1>3. \A i \in 1..4 : Append(<<a, b, c>>, d)[i] = <<a, b, c, d>>[i]
  OBVIOUS
<1> QED
  BY <1>1, <1>2, <1>3, SameSequence

(* After >>> the next character decides between >>>= and >>>.              *)
LEMMA FourthAnswer ==
  ASSUME Typed, ClassFree, Tape, Passed, pc' = "idle", Fourth
  PROVE  Answer'
<1>1. pc = "fourth"
  BY DEF Fourth
<1>2. /\ start \in from + 1..Len(source) /\ start \in Nat \ {0} /\ IsTrivia(from, start - 1)
      /\ Len(source) \in Nat /\ acc = <<">", ">", ">">>
      /\ Reads(start + 3) /\ Within(start) /\ FoundHere(acc)
  BY <1>1, AtOnset, SpelledHere DEF Lexical, Tape
<1>3. PICK n \in Nat \ {0} : n = start + 3 /\ Reads(n)
  BY <1>2
<1>4. Len(acc) = 3 /\ n - 1 = start + 3 - 1 /\ n - 1 <= Len(source)
      /\ \A i \in 1..3 : acc[i] = ">" /\ source[start + i - 1] = ">"
  <2>1. Len(acc) = 3 /\ \A i \in 1..3 : acc[i] = ">"
    BY <1>2
  <2>2. start + 3 - 1 <= Len(source) /\ \A i \in 1..3 : source[start + i - 1] = acc[i]
    BY <1>2, <2>1 DEF FoundHere
  <2> QED
    BY <1>2, <1>3, <2>1, <2>2
<1>5. CASE ch = "="
  <2>1. ReturnHere("ASSIGN_SHR", Append(acc, ch), Here)
    BY <1>5 DEF Fourth
  <2>2. ch # EOF
    BY <1>5, EofIsNoSpelling
  <2>3. n <= Len(source) /\ Cursor = n /\ source[n] = "="
    BY <1>3, <1>5, <2>2, CharAtTypes DEF Reads, Placed
  <2>4. PICK view : view = <<">", ">", ">", "=">>
    OBVIOUS
  <2>5. Append(acc, ch) = view /\ Len(view) = 4
    <3>1. Append(<<">", ">", ">">>, "=") = <<">", ">", ">", "=">>
      BY AppendTriple
    <3> QED
      BY <1>2, <1>5, <2>4, <3>1
  <2>6. FoundHere(view)
    <3>1. \A i \in 1..4 : view[i] = source[start + i - 1]
      <4>1. view[1] = ">" /\ view[2] = ">" /\ view[3] = ">" /\ view[4] = "="
        BY <2>4
      <4>2. \A i \in 1..4 : i \in 1..3 \/ (i = 4 /\ start + i - 1 = n)
        BY <1>2, <1>3
      <4>3. \A i \in 1..3 : view[i] = ">"
        BY <4>1
      <4> QED
        BY <1>4, <2>3, <4>1, <4>2, <4>3
    <3>2. start + 4 - 1 <= Len(source)
      BY <1>2, <1>3, <2>3
    <3> QED
      BY <2>5, <3>1, <3>2 DEF FoundHere
  <2>7. LongestIs(4)
    <3>1. \A k \in 1..4 : k <= 4
      OBVIOUS
    <3>2. \A op \in Operators : Len(op[1]) <= 4
      BY <3>1, OperatorSize, Zenon
    <3> QED
      BY <3>2 DEF LongestIs
  <2>8. Cursor = start + 4 - 1 /\ <<view, "ASSIGN_SHR">> \in Operators
    BY <1>2, <1>3, <2>3, <2>4, RowsInOperators
  <2>9. FoundAsOperator("ASSIGN_SHR", view, Cursor)
    BY <2>5, <2>6, <2>7, <2>8 DEF FoundAsOperator
  <2>10. Answered("ASSIGN_SHR", view, Cursor)
    BY <1>2, <2>9 DEF Answered, Found
  <2> QED
    BY <2>1, <2>5, <2>10, AnswerHere
<1>6. CASE ch # "="
  <2>1. PutbackThen(ch, Return("SHR", acc, mark))
    BY <1>6 DEF Fourth
  <2>2. LongestIs(3)
    <3>1. ASSUME NEW op \in Operators, FoundHere(op[1]) PROVE Len(op[1]) <= 3
      <4>1. CASE Len(op[1]) = 4
        <5>1. op[1] = <<">", ">", ">", "=">>
          BY <4>1, OperatorLengths
        <5>2. op[1][4] = "=" /\ start + 4 - 1 = n
          BY <1>2, <1>3, <5>1
        <5>3. 4 \in 1..4 /\ n <= Len(source) /\ source[n] = op[1][4]
          BY <3>1, <4>1, <5>2 DEF FoundHere
        <5> QED
          BY <1>3, <1>6, <5>2, <5>3 DEF Reads, CharAt
      <4>2. CASE Len(op[1]) # 4
        <5>1. Len(op[1]) \in 1..4
          BY OperatorSize
        <5>2. \A k \in 1..4 : k # 4 => k <= 3
          OBVIOUS
        <5> QED
          BY <4>2, <5>1, <5>2, Zenon
      <4> QED
        BY <4>1, <4>2
    <3> QED
      BY <3>1 DEF LongestIs
  <2>3. FoundAsOperator("SHR", acc, n - 1)
    BY <1>2, <1>4, <2>2, RowsInOperators DEF FoundAsOperator
  <2>4. Answered("SHR", acc, n - 1)
    BY <1>2, <2>3 DEF Answered, Found
  <2> QED
    BY <1>3, <1>4, <2>1, <2>4, AnswerBack
<1> QED
  BY <1>5, <1>6

(* An operator of two characters, after none of three was there.           *)
LEMMA TwoCharactersAnswer ==
  ASSUME Typed, ClassFree, Tape, Passed, Munch, Slashes, TwoCharacters
  PROVE  Answer'
<1>1. pc = "two" /\ TwoType # "INVALID" /\ ReturnHere(TwoType, acc, mark)
  BY DEF TwoCharacters
<1>2. /\ start \in from + 1..Len(source) /\ start \in Nat \ {0} /\ IsTrivia(from, start - 1)
      /\ Len(source) \in Nat /\ Len(acc) = 2 /\ from \in 0..Len(source)
      /\ Placed(start + 1) /\ Within(start) /\ FoundHere(acc) /\ LongestIs(2)
  BY <1>1, AtOnset, SpelledHere DEF Lexical, Tape, Munch, Typed, AccOK
<1>3. PICK op \in TwoCharacterSymbols : op[1] = acc /\ op[2] = TwoType
  BY <1>1, TypeInRow DEF TwoType
<1>4. <<acc, TwoType>> \in Operators /\ (TwoType = "ASSIGN_DIV" => acc = <<"/", "=">>)
      /\ TwoType # "DIV"
  <2>1. op = <<op[1], op[2]>>
    BY <1>3 DEF TwoCharacterSymbols
  <2> QED
    BY <1>3, <2>1, TwoRows, TablesAreOperators
<1>5. Cursor = start + 2 - 1
  <2>1. start + 1 <= Len(source)
    BY <1>2 DEF Within
  <2> QED
    BY <1>2, <2>1 DEF Placed
<1>6. TwoType = "ASSIGN_DIV" => source[start] = "/"
  <2>1. 1 \in 1..Len(acc) /\ start + 1 - 1 = start
    BY <1>2
  <2>2. acc[1] = source[start]
    BY <1>2, <2>1 DEF FoundHere
  <2> QED
    BY <1>4, <2>2
<1>7. ~notRegex /\ TwoType \in {"DIV", "ASSIGN_DIV"} => NoneCloses
  BY <1>1, <1>2, <1>4, <1>6 DEF Slashes
<1>8. FoundAsOperator(TwoType, acc, Cursor)
  BY <1>2, <1>4, <1>5, <1>7 DEF FoundAsOperator
<1>9. Answered(TwoType, acc, Cursor)
  BY <1>2, <1>8 DEF Answered, Found
<1> QED
  BY <1>1, <1>9, AnswerHere

(* An operator of one character, after none of two was there, or a         *)
(* character no token starts with.                                         *)
LEMMA OneCharacterAnswer ==
  ASSUME Typed, ClassFree, Tape, Passed, Munch, Slashes, OneCharacter \/ Illegal
  PROVE  Answer'
<1>1. pc = "one"
  BY DEF OneCharacter, Illegal
<1>2. /\ start \in from + 1..Len(source) /\ start \in Nat \ {0} /\ IsTrivia(from, start - 1)
      /\ Len(source) \in Nat /\ Len(acc) = 1 /\ from \in 0..Len(source) /\ acc \in Seq(Marked)
      /\ Placed(start) /\ Spells(start) /\ LongestIs(1)
  BY <1>1, AtOnset DEF Lexical, Tape, Munch, Typed, AccOK
<1>3. Cursor = start + 1 - 1 /\ Cursor = start
  BY <1>2 DEF Placed
<1>4. CASE Illegal
  <2>1. ReturnHere("INVALID", <<>>, mark)
    BY <1>4 DEF Illegal
  <2>2. Answered("INVALID", <<>>, Cursor)
    BY <1>2, <1>3 DEF Answered, Found
  <2> QED
    BY <2>1, <2>2, AnswerHere
<1>5. CASE OneCharacter
  <2>1. OneType # "INVALID" /\ ReturnHere(OneType, acc, mark)
    BY <1>5 DEF OneCharacter
  <2>2. PICK op \in OneCharacterSymbols : op[1] = acc /\ op[2] = OneType
    BY <2>1, TypeInRow DEF OneType
  <2>3. <<acc, OneType>> \in Operators /\ (OneType = "DIV" => acc = <<"/">>)
        /\ OneType # "ASSIGN_DIV"
    <3>1. op = <<op[1], op[2]>>
      BY <2>2, OneRows
    <3>2. op \in Operators
      BY <2>2, TablesAreOperators
    <3> QED
      BY <2>2, <3>1, <3>2, OneRows
  <2>4. FoundHere(acc)
    <3>1. Within(start)
      BY <1>2 DEF Within
    <3> QED
      BY <1>1, <1>2, <3>1, SpelledHere DEF Lexical
  <2>5. OneType = "DIV" => source[start] = "/"
    <3>1. 1 \in 1..Len(acc) /\ start + 1 - 1 = start
      BY <1>2
    <3>2. acc[1] = source[start]
      BY <2>4, <3>1 DEF FoundHere
    <3> QED
      BY <2>3, <3>2
  <2>6. ~notRegex /\ OneType \in {"DIV", "ASSIGN_DIV"} => NoneCloses
    BY <1>1, <1>2, <2>3, <2>5 DEF Slashes
  <2>7. FoundAsOperator(OneType, acc, Cursor)
    BY <1>2, <1>3, <2>3, <2>4, <2>6 DEF FoundAsOperator
  <2>8. Answered(OneType, acc, Cursor)
    BY <1>2, <2>7 DEF Answered, Found
  <2> QED
    BY <2>1, <2>8, AnswerHere
<1> QED
  BY <1>4, <1>5

(* Every answer is one.                                                    *)
LEMMA StepAnswer ==
  ASSUME Typed, ClassFree, Tape, Passed, Munch, Slashes, Step, pc' = "idle"
  PROVE  Answer'
  BY Arrivals, EndAnswers, NameAnswers, StringAnswers, NumberAnswers, RegexAnswers,
     ThreeCharactersAnswer, FourthAnswer, TwoCharactersAnswer, OneCharacterAnswer DEF Answers

-----------------------------------------------------------------------------
(* What holds of every call, and of what it answers.                       *)

Told == ClassFree => Passed /\ Munch /\ Slashes /\ (HasToken => Answer)

(* A call starts with no trivia passed.                                    *)
LEMMA CallPassed ==
  ASSUME Typed, Tape, NEW mode, Call(mode)
  PROVE  Passed' /\ pc' = "scan"
<1>1. PICK n \in Nat \ {0} : n = Cursor + 1 /\ from' = Cursor /\ Reads(n)' /\ source' = source
  BY CallTape
<1>2. /\ Len(source) \in Nat /\ Cursor \in Int /\ Cursor <= Len(source) /\ pc' = "scan"
  BY StreamTypes DEF Call
<1>3. PICK b \in Int : b = Cursor
  BY <1>2
<1>4. IsTrivia(b, b)'
  BY <1>1, TriviaNone, SameTrivia
<1>5. b = from' /\ n - 1 = b /\ n \in from' + 1..Len(source') + 1
  BY <1>1, <1>2, <1>3
<1>6. IsTrivia(from, n - 1)'
  BY <1>4, <1>5
<1>7. Skipped'
  BY <1>1, <1>5, <1>6 DEF Skipped
<1> QED
  BY <1>2, <1>7 DEF Passed, Lexical

(* What changes nothing keeps all of it.                                   *)
LEMMA TellingStutters ==
  ASSUME UNCHANGED vars
  PROVE  /\ Passed => Passed'
         /\ Munch => Munch'
         /\ Slashes => Slashes'
         /\ (HasToken => Answer) => (HasToken => Answer)'
<1>0. UNCHANGED <<source, stream, start, from, notRegex, started, token, pc, ch, last, acc>>
  BY DEF vars, call
<1>1. PICK b, e, f : b = from /\ e = start - 1 /\ f = Len(source)
  OBVIOUS
<1>2. (IsTrivia(b, e) => IsTrivia(b, e)') /\ (IsTrivia(b, f) => IsTrivia(b, f)')
  BY <1>0, SameTrivia
<1>3. /\ IsTrivia(from, start - 1) => IsTrivia(from, start - 1)'
      /\ IsTrivia(from, Len(source)) => IsTrivia(from, Len(source))'
  BY <1>0, <1>1, <1>2
<1>4. ASSUME NEW n
      PROVE  /\ Reads(n) => Reads(n)'
             /\ IsTrivia(from, n) => IsTrivia(from, n)'
             /\ IsTrivia(from, n - 1) => IsTrivia(from, n - 1)'
  <2>1. PICK m : m = n - 1
    OBVIOUS
  <2>2. IsTrivia(b, n) => IsTrivia(b, n)'
    BY <1>0, SameTrivia
  <2>3. IsTrivia(b, m) => IsTrivia(b, m)'
    BY <1>0, SameTrivia
  <2>4. Reads(n) => Reads(n)'
    BY <1>0, StayPut
  <2> QED
    BY <1>0, <1>1, <2>1, <2>2, <2>3, <2>4
<1>5. Skipped => Skipped'
  BY <1>0, <1>4 DEF Skipped
<1>6. (InLine => InLine') /\ (InBlock => InBlock')
  BY <1>0, <1>4 DEF InLine, InBlock, CharAt
<1>7. BlockClosed => BlockClosed'
  BY <1>0, <1>4 DEF BlockClosed
<1>8. Passed => Passed'
  BY <1>0, <1>3, <1>5, <1>6, <1>7 DEF Passed
<1>9. Munch => Munch'
  BY <1>0, SameLongest DEF Munch
<1>10. Slashes => Slashes'
  BY <1>0, SameNoneCloses DEF Slashes, Unclosed
<1>11. (HasToken => Answer) => (HasToken => Answer)'
  <2>1. PICK t, v, c : t = token.type /\ v = token.view /\ c = Cursor
    OBVIOUS
  <2>2. Answered(t, v, c) => Answered(t, v, c)'
    BY <1>0, SameAnswer
  <2>3. Cursor' = Cursor /\ HasToken' = HasToken
    BY <1>0 DEF Cursor, stream, HasToken
  <2> QED
    BY <1>0, <2>1, <2>2, <2>3 DEF Answer
<1> QED
  BY <1>8, <1>9, <1>10, <1>11

(* What was passed, ruled out and answered is as said, in every state.     *)
LEMMA AlwaysTold == Spec => []Told
<1>1. Init => Told
  BY DEF Init, Told, Passed, Munch, Slashes, HasToken, Lexical
<1>2. OnTape /\ Told /\ [Next]_vars => Told'
  <2> SUFFICES ASSUME OnTape, Told, [Next]_vars, ClassFree'
               PROVE  Passed' /\ Munch' /\ Slashes' /\ (HasToken => Answer)'
    BY DEF Told
  <2> USE DEF OnTape
  <2>1. CASE Step
    <3>1. ClassFree
      BY <2>1, StepSource DEF ClassFree
    <3>2. Typed /\ Tape /\ Passed /\ Munch /\ Slashes
      BY <3>1 DEF Told
    <3>3. (HasToken => Answer)'
      BY <2>1, <3>1, <3>2, StepAnswer DEF HasToken
    <3> QED
      BY <2>1, <3>1, <3>2, <3>3, PassedStep, MunchStep, SlashesStep
  <2>2. ASSUME NEW mode \in BOOLEAN, Call(mode)
        PROVE  Passed' /\ Munch' /\ Slashes' /\ (HasToken => Answer)'
    <3>1. ClassFree
      BY <2>2 DEF Call, ClassFree
    <3>2. Passed' /\ pc' = "scan"
      BY <2>2, <3>1, CallPassed
    <3> QED
      BY <3>2 DEF Munch, Slashes, HasToken
  <2>3. CASE Reset
    <3>1. pc' = "idle" /\ started' = FALSE
      BY <2>3 DEF Reset
    <3> QED
      BY <3>1 DEF Passed, Lexical, Munch, Slashes, HasToken
  <2>4. CASE UNCHANGED vars
    <3>1. ClassFree
      BY <2>4 DEF vars, call, ClassFree
    <3> QED
      BY <2>4, <3>1, TellingStutters DEF Told
  <2> QED
    BY <2>1, <2>2, <2>3, <2>4, ModesAreBooleans DEF Next, Advance, Peek, Aborted
<1> QED
  BY <1>1, <1>2, AlwaysOnTape, PTL DEF Spec

-----------------------------------------------------------------------------
(* Token types tell the kinds apart.                                       *)

OperatorTypes == {op[2] : op \in Operators}
NameTypes == {"IDENTIFIER"} \union {key[2] : key \in Keywords}
OtherTypes == {"NUMBER", "STRING", "TEMPLATE", "REGEX", "END_OF_FILE", "ERROR", "INVALID"}

(* No operator has the type of another kind of token.                      *)
LEMMA OperatorTypesApart == \A op \in Operators : op[2] \notin OtherTypes \union {"IDENTIFIER"}
<1>1. \A op \in OneCharacterSymbols : op[2] \notin OtherTypes \union {"IDENTIFIER"}
  <2>1. \A left, right, semicolon, comma : \A op \in OneTable(left, right, semicolon, comma) :
          op[2] \notin OtherTypes \union {"IDENTIFIER"}
    BY DEF OneTable, OtherTypes
  <2>2. OneCharacterSymbols = OneTable("{", "}", ";", ",")
    BY Zenon DEF OneTable, OneCharacterSymbols
  <2> QED
    BY <2>1, <2>2, Zenon
<1>2. \A op \in TwoCharacterSymbols : op[2] \notin OtherTypes \union {"IDENTIFIER"}
  BY DEF TwoCharacterSymbols, OtherTypes
<1>3. \A op \in ThreeCharacterSymbols : op[2] \notin OtherTypes \union {"IDENTIFIER"}
  BY DEF ThreeCharacterSymbols, OtherTypes
<1>4. "ASSIGN_SHR" \notin OtherTypes \union {"IDENTIFIER"}
  BY DEF OtherTypes
<1>5. \A op \in Operators :
        \/ op \in OneCharacterSymbols \/ op \in TwoCharacterSymbols
        \/ op \in ThreeCharacterSymbols \/ op = << <<">", ">", ">", "=">>, "ASSIGN_SHR">>
  BY OperatorTables
<1> QED
  BY <1>1, <1>2, <1>3, <1>4, <1>5

(* A token type belongs to one kind of token.                              *)
LEMMA KindsApart ==
  /\ \A op \in Operators : op[2] \in OperatorTypes
  /\ \A view : IsKeyword(view) \in NameTypes
  /\ \A type \in OperatorTypes : type \notin OtherTypes /\ type \notin NameTypes
  /\ \A type \in NameTypes : type \notin OtherTypes
<1>1. \A op \in Operators : op[2] \in OperatorTypes
  BY DEF OperatorTypes
<1>2. ASSUME NEW view PROVE IsKeyword(view) \in NameTypes
  <2>1. CASE \E op \in Keywords : op[1] = view
    <3> DEFINE row1 == CHOOSE op \in Keywords : op[1] = view
    <3>1. row1 \in Keywords
      BY <2>1
    <3>2. IsKeyword(view) = row1[2]
      BY <2>1 DEF IsKeyword, TypeIn
    <3> QED
      BY <3>1, <3>2 DEF NameTypes
  <2>2. CASE ~ \E op \in Keywords : op[1] = view
    BY <2>2 DEF IsKeyword, NameTypes
  <2> QED
    BY <2>1, <2>2
<1>3. \A key \in Keywords : key[2] \notin OperatorTypes /\ key[2] \notin OtherTypes
  BY KeywordsAreTokens DEF OperatorTypes, OtherTypes
<1>4. \A type \in OperatorTypes : type \notin OtherTypes /\ type # "IDENTIFIER"
  BY OperatorTypesApart DEF OperatorTypes
<1>5. "IDENTIFIER" \notin OtherTypes
  BY DEF OtherTypes
<1> QED
  BY <1>1, <1>2, <1>3, <1>4, <1>5 DEF NameTypes

(* An answer by its type.                                                  *)
LEMMA ByType ==
  ASSUME NEW type, NEW view, NEW end, Answered(type, view, end)
  PROVE  /\ type = "END_OF_FILE" => end = Len(source) /\ IsTrivia(from, Len(source))
         /\ type # "END_OF_FILE" => start \in from + 1..Len(source) /\ IsTrivia(from, start - 1)
         /\ type = "ERROR" => end = Len(source)
         /\ type = "INVALID" => end = start
         /\ type \in {"STRING", "TEMPLATE"} => FoundInQuotes(type, view, end)
         /\ type = "NUMBER" => FoundAsNumber(type, view, end)
         /\ type = "REGEX" => FoundAsRegex(type, view, end)
         /\ type \in OperatorTypes => FoundAsOperator(type, view, end)
         /\ type \in NameTypes => FoundAsName(type, view, end)
         /\ type \in OtherTypes \union OperatorTypes \union NameTypes
<1>1. FoundAsOperator(type, view, end) => type \in OperatorTypes
  BY DEF FoundAsOperator, OperatorTypes
<1>2. FoundAsName(type, view, end) => type \in NameTypes
  BY KindsApart DEF FoundAsName
<1>3. FoundInQuotes(type, view, end) => type \in {"STRING", "TEMPLATE"}
  BY DEF FoundInQuotes
<1>4. FoundAsNumber(type, view, end) => type = "NUMBER"
  BY DEF FoundAsNumber
<1>5. FoundAsRegex(type, view, end) => type = "REGEX"
  BY DEF FoundAsRegex
<1>6. \A t \in OtherTypes : t \notin OperatorTypes /\ t \notin NameTypes
  BY KindsApart
<1>7. \A t \in OperatorTypes : t \notin NameTypes
  BY KindsApart
<1>8. OtherTypes = {"NUMBER", "STRING", "TEMPLATE", "REGEX", "END_OF_FILE", "ERROR", "INVALID"}
  BY DEF OtherTypes
<1>9. CASE type = "END_OF_FILE" /\ end = Len(source) /\ IsTrivia(from, Len(source))
  BY <1>6, <1>8, <1>9
<1>10. ASSUME type # "END_OF_FILE" \/ Found(type, view, end),
              start \in from + 1..Len(source), IsTrivia(from, start - 1), Found(type, view, end)
       PROVE  /\ type = "ERROR" => end = Len(source)
              /\ type = "INVALID" => end = start
              /\ type \in {"STRING", "TEMPLATE"} => FoundInQuotes(type, view, end)
              /\ type = "NUMBER" => FoundAsNumber(type, view, end)
              /\ type = "REGEX" => FoundAsRegex(type, view, end)
              /\ type \in OperatorTypes => FoundAsOperator(type, view, end)
              /\ type \in NameTypes => FoundAsName(type, view, end)
              /\ type # "END_OF_FILE"
              /\ type \in OtherTypes \union OperatorTypes \union NameTypes
  BY <1>1, <1>2, <1>3, <1>4, <1>5, <1>6, <1>7, <1>8, <1>10 DEF Found
<1> QED
  BY <1>9, <1>10 DEF Answered

-----------------------------------------------------------------------------
(* The theorems about what is answered.                                    *)

(* After every call that returned a token, the token is an answer.         *)
LEMMA AlwaysAnswered == Spec => [](Typed /\ (ClassFree => Tape) /\ (HasToken /\ ClassFree => Answer))
<1>1. OnTape /\ Told => Typed /\ (ClassFree => Tape) /\ (HasToken /\ ClassFree => Answer)
  BY DEF OnTape, Told
<1> QED
  BY <1>1, AlwaysOnTape, AlwaysTold, PTL

(* ERROR and END_OF_FILE are answered at the end of the text only: an      *)
(* unclosed comment or string swallows all the rest.                       *)
THEOREM TokenizerEndsAtEnd == Spec => []EndsAtEnd
<1>1. (HasToken /\ ClassFree => Answer) => EndsAtEnd
  BY ByType DEF Answer, EndsAtEnd
<1> QED
  BY <1>1, AlwaysAnswered, PTL

(* Between the cursor of a call and the token it answers there are blanks  *)
(* and whole comments, nothing else.                                       *)
THEOREM TokenizerSkipsOnlyTrivia == Spec => []SkipsOnlyTrivia
<1>1. (HasToken /\ ClassFree => Answer) => SkipsOnlyTrivia
  BY ByType DEF Answer, SkipsOnlyTrivia
<1> QED
  BY <1>1, AlwaysAnswered, PTL

(* An operator token is the longest operator of tokens.inc the text has    *)
(* there, whatever it took to find out, and a name is not cut short.       *)
THEOREM TokenizerMunchesMaximally == Spec => []MaximalMunch
<1>1. ASSUME HasToken /\ ClassFree => Answer PROVE MaximalMunch
  <2> SUFFICES ASSUME HasToken, ClassFree, Answer
               PROVE  /\ token.type \in OperatorTypes =>
                           /\ <<token.view, token.type>> \in Operators
                           /\ \A op \in Operators : FoundHere(op[1]) => Len(op[1]) <= Len(token.view)
                      /\ token.type \in NameTypes =>
                           /\ token.view[1] \in IdentifierStart
                           /\ Cursor = Len(source) \/ source[Cursor + 1] \notin IdentifierChar
    BY <1>1 DEF MaximalMunch, OperatorTypes, NameTypes
  <2>1. token.type \in OperatorTypes => FoundAsOperator(token.type, token.view, Cursor)
    BY ByType DEF Answer
  <2>2. token.type \in NameTypes => FoundAsName(token.type, token.view, Cursor)
    BY ByType DEF Answer
  <2> QED
    BY <2>1, <2>2 DEF FoundAsOperator, FoundAsName, LongestIs
<1> QED
  BY <1>1, AlwaysAnswered, PTL

(* The caller decides about the slash: with not_regex no regular           *)
(* expression comes back, and without it a division is answered only where *)
(* nothing on the line can close an expression.                            *)
THEOREM TokenizerAnswersSlashes == Spec => []SlashMode
<1>1. ASSUME HasToken /\ ClassFree => Answer PROVE SlashMode
  <2> SUFFICES ASSUME HasToken, ClassFree, Answer
               PROVE  /\ notRegex => token.type # "REGEX"
                      /\ ~notRegex /\ token.type \in {"DIV", "ASSIGN_DIV"} => NoneCloses
    BY <1>1 DEF SlashMode, NoneCloses
  <2>1. "DIV" \in OperatorTypes /\ "ASSIGN_DIV" \in OperatorTypes
    <3>1. << <<"/">>, "DIV">> \in Operators /\ << <<"/", "=">>, "ASSIGN_DIV">> \in Operators
      BY DEF Operators
    <3>2. << <<"/">>, "DIV">>[2] = "DIV" /\ << <<"/", "=">>, "ASSIGN_DIV">>[2] = "ASSIGN_DIV"
      OBVIOUS
    <3> QED
      BY <3>1, <3>2 DEF OperatorTypes
  <2>2. token.type = "REGEX" => FoundAsRegex(token.type, token.view, Cursor)
    BY ByType DEF Answer
  <2>3. token.type \in OperatorTypes => FoundAsOperator(token.type, token.view, Cursor)
    BY ByType DEF Answer
  <2> QED
    BY <2>1, <2>2, <2>3 DEF FoundAsRegex, FoundAsOperator
<1> QED
  BY <1>1, AlwaysAnswered, PTL

(* The lexeme is the text from its first character to the cursor.          *)
LEMMA LexemeText ==
  ASSUME source \in Seq(Char), start \in Nat \ {0}, Cursor \in Int, start <= Cursor,
         Cursor <= Len(source)
  PROVE  /\ Lexeme \in Seq(Marked) /\ Len(Lexeme) = Cursor - start + 1
         /\ \A i \in 1..Cursor - start + 1 : Lexeme[i] = source[start + i - 1]
<1>1. \A i \in start..Cursor : source[i] \in Marked
  BY DEF Marked
<1>2. start \in Int /\ Len(source) \in Nat
  OBVIOUS
<1> QED
  BY <1>1, <1>2, SubSeqProperties DEF Lexeme

(* A view that is the text, and nothing else, is the lexeme.               *)
LEMMA ViewIsLexeme ==
  ASSUME source \in Seq(Char), start \in Nat \ {0}, Cursor \in Int, Cursor <= Len(source),
         NEW view \in Seq(Marked), FoundHere(view), view # <<>>, Cursor = start + Len(view) - 1
  PROVE  view = Lexeme
<1>1. Len(view) \in Nat /\ Len(view) >= 1
  OBVIOUS
<1>2. start <= Cursor /\ Cursor - start + 1 = Len(view)
  BY <1>1
<1>3. /\ Lexeme \in Seq(Marked) /\ Len(Lexeme) = Len(view)
      /\ \A i \in 1..Len(view) : Lexeme[i] = source[start + i - 1]
  BY <1>2, LexemeText
<1>4. \A i \in 1..Len(view) : view[i] = Lexeme[i]
  BY <1>3 DEF FoundHere
<1> QED
  BY <1>3, <1>4, SameSequence

(* No operator is empty.                                                   *)
LEMMA OperatorsNotEmpty == \A op \in Operators : op[1] # <<>>
<1>1. Len(<<>>) = 0
  OBVIOUS
<1>2. \A op \in Operators : Len(op[1]) # 0
  <2>1. \A k \in 1..4 : k # 0
    OBVIOUS
  <2> QED
    BY <2>1, OperatorSize, Zenon
<1> QED
  BY <1>1, <1>2

(* A string token is the lexeme without its quotes.                        *)
LEMMA StringText ==
  ASSUME source \in Seq(Char), start \in Nat \ {0}, Cursor \in Int, Cursor <= Len(source),
         NEW type, NEW view \in Seq(Marked), FoundInQuotes(type, view, Cursor)
  PROVE  Lexeme = <<Lexeme[1]>> \o view \o <<Lexeme[1]>>
<1>1. Len(view) \in Nat /\ Cursor = start + Len(view) + 1 /\ source[Cursor] = source[start]
      /\ \A i \in 1..Len(view) : view[i] = source[start + i]
  BY DEF FoundInQuotes
<1>2. start <= Cursor /\ Cursor - start + 1 = Len(view) + 2
  BY <1>1
<1>3. PICK l : l = Lexeme
  OBVIOUS
<1>4. /\ l \in Seq(Marked) /\ Len(l) = Len(view) + 2
      /\ \A i \in 1..Len(view) + 2 : l[i] = source[start + i - 1]
  BY <1>2, <1>3, LexemeText
<1>5. PICK q \in Marked : q = l[1]
  <2>1. 1 \in 1..Len(l)
    BY <1>1, <1>4
  <2> QED
    BY <1>4, <2>1
<1>6. <<q>> \in Seq(Marked) /\ Len(<<q>>) = 1 /\ <<q>>[1] = q
  OBVIOUS
<1>7. PICK h : h = <<q>> \o view
  OBVIOUS
<1>8. /\ h \in Seq(Marked) /\ Len(h) = Len(view) + 1
      /\ \A i \in 1..Len(view) + 1 : h[i] = IF i <= 1 THEN <<q>>[i] ELSE view[i - 1]
  <2>1. /\ h \in Seq(Marked) /\ Len(h) = 1 + Len(view)
        /\ \A i \in 1..1 + Len(view) : h[i] = IF i <= 1 THEN <<q>>[i] ELSE view[i - 1]
    BY <1>6, <1>7, ConcatProperties
  <2>2. 1 + Len(view) = Len(view) + 1
    BY <1>1
  <2> QED
    BY <2>1, <2>2
<1>9. PICK w : w = h \o <<q>>
  OBVIOUS
<1>10. /\ w \in Seq(Marked) /\ Len(w) = Len(view) + 2
       /\ \A i \in 1..Len(view) + 2 :
            w[i] = IF i <= Len(view) + 1 THEN h[i] ELSE <<q>>[i - (Len(view) + 1)]
  <2>1. /\ w \in Seq(Marked) /\ Len(w) = Len(h) + 1
        /\ \A i \in 1..Len(h) + 1 : w[i] = IF i <= Len(h) THEN h[i] ELSE <<q>>[i - Len(h)]
    BY <1>6, <1>8, <1>9, ConcatProperties
  <2>2. Len(h) + 1 = Len(view) + 2
    BY <1>1, <1>8
  <2> QED
    BY <1>8, <2>1, <2>2
<1>11. ASSUME NEW i \in 1..Len(view) + 2 PROVE l[i] = w[i]
  <2>1. CASE i = 1
    <3>1. i <= 1 /\ i <= Len(view) + 1 /\ i \in 1..Len(view) + 1
      BY <1>1, <2>1
    <3>2. w[i] = q
      BY <1>6, <1>8, <1>10, <2>1, <3>1
    <3> QED
      BY <1>5, <2>1, <3>2
  <2>2. CASE i \in 2..Len(view) + 1
    <3>1. ~(i <= 1) /\ i <= Len(view) + 1 /\ i \in 1..Len(view) + 1 /\ i - 1 \in 1..Len(view)
          /\ start + (i - 1) = start + i - 1
      BY <1>1, <2>2
    <3>2. w[i] = view[i - 1]
      BY <1>8, <1>10, <1>11, <3>1
    <3>3. view[i - 1] = source[start + (i - 1)]
      BY <1>1, <3>1
    <3> QED
      BY <1>4, <1>11, <3>1, <3>2, <3>3
  <2>3. CASE i = Len(view) + 2
    <3>1. ~(i <= Len(view) + 1) /\ i - (Len(view) + 1) = 1 /\ start + i - 1 = Cursor
      BY <1>1, <2>3
    <3>2. w[i] = q
      BY <1>6, <1>10, <1>11, <3>1
    <3>3. l[i] = source[start]
      BY <1>1, <1>4, <1>11, <3>1
    <3>4. q = source[start]
      <4>1. 1 \in 1..Len(view) + 2 /\ start + 1 - 1 = start
        BY <1>1
      <4> QED
        BY <1>4, <1>5, <4>1
    <3> QED
      BY <3>2, <3>3, <3>4
  <2> QED
    BY <1>1, <1>11, <2>1, <2>2, <2>3
<1>12. l = w
  BY <1>4, <1>10, <1>11, SameSequence
<1> QED
  BY <1>3, <1>5, <1>7, <1>9, <1>12

(* A number token is the lexeme, or the lexeme and the character after it. *)
LEMMA NumberText ==
  ASSUME source \in Seq(Char), start \in Nat \ {0}, Cursor \in Int, Cursor <= Len(source),
         NEW type, NEW view \in Seq(Marked), FoundAsNumber(type, view, Cursor)
  PROVE  \/ view = Lexeme
         \/ Cursor < Len(source) /\ view = Append(Lexeme, source[Cursor + 1])
<1>1. /\ Len(view) \in Nat /\ FoundHere(view) /\ view # <<>>
      /\ Cursor = start + Len(view) - 1 \/ (Cursor = start + Len(view) - 2 /\ Len(view) > 1)
  BY DEF FoundAsNumber
<1>2. CASE Cursor = start + Len(view) - 1
  BY <1>1, <1>2, ViewIsLexeme
<1>3. CASE Cursor = start + Len(view) - 2 /\ Len(view) > 1
  <2>1. start <= Cursor /\ Cursor - start + 1 = Len(view) - 1 /\ Len(view) - 1 + 1 = Len(view)
        /\ start + Len(view) - 1 = Cursor + 1
    BY <1>1, <1>3
  <2>2. PICK l : l = Lexeme
    OBVIOUS
  <2>3. /\ l \in Seq(Marked) /\ Len(l) = Len(view) - 1
        /\ \A i \in 1..Len(view) - 1 : l[i] = source[start + i - 1]
    BY <2>1, <2>2, LexemeText
  <2>4. Cursor + 1 <= Len(source) /\ \A i \in 1..Len(view) : view[i] = source[start + i - 1]
    BY <1>1, <2>1 DEF FoundHere
  <2>5. Cursor < Len(source) /\ source[Cursor + 1] \in Marked
    BY <1>1, <1>3, <2>4 DEF Marked
  <2>6. PICK w : w = Append(l, source[Cursor + 1])
    OBVIOUS
  <2>7. /\ w \in Seq(Marked) /\ Len(w) = Len(view) /\ w[Len(view)] = source[Cursor + 1]
        /\ \A i \in 1..Len(view) - 1 : w[i] = l[i]
    <3>1. /\ w \in Seq(Marked) /\ Len(w) = Len(l) + 1 /\ w[Len(l) + 1] = source[Cursor + 1]
          /\ \A i \in 1..Len(l) : w[i] = l[i]
      BY <2>3, <2>5, <2>6, AppendProperties
    <3> QED
      BY <2>1, <2>3, <3>1
  <2>8. ASSUME NEW i \in 1..Len(view) PROVE view[i] = w[i]
    <3>1. CASE i = Len(view)
      BY <2>1, <2>4, <2>7, <2>8, <3>1
    <3>2. CASE i \in 1..Len(view) - 1
      BY <2>3, <2>4, <2>7, <2>8, <3>2
    <3> QED
      BY <1>1, <2>8, <3>1, <3>2
  <2>9. view = w
    BY <2>7, <2>8, SameSequence
  <2> QED
    BY <2>2, <2>5, <2>6, <2>9
<1> QED
  BY <1>1, <1>2, <1>3

(* A regular expression token is body, marker and flags of the lexeme, "n" *)
(* for no flags.                                                           *)
LEMMA RegexText ==
  ASSUME source \in Seq(Char), start \in Nat \ {0}, Cursor \in Int, Cursor <= Len(source),
         NEW type, NEW view \in Seq(Marked), FoundAsRegex(type, view, Cursor)
  PROVE  \E n \in 1..Len(Lexeme) :
           LET flags == SubSeq(Lexeme, n + 1, Len(Lexeme)) IN
           /\ Lexeme[1] = "/" /\ n > 1 /\ Lexeme[n] = "/"
           /\ view = SubSeq(Lexeme, 2, n - 1) \o <<"marker">>
                      \o (IF flags = <<>> THEN <<"n">> ELSE flags)
<1>1. PICK k : k = Cursor - start
  OBVIOUS
<1>2. PICK b \in 1..k :
        /\ source[start + b] = "/" /\ view[b] = "marker"
        /\ \A i \in 1..k : i # b => view[i] = source[start + i]
        /\ IF b = k THEN Len(view) = b + 1 /\ view[b + 1] = "n" ELSE Len(view) = k
  BY <1>1 DEF FoundAsRegex
<1>3. /\ k \in Nat /\ b \in Nat /\ 1 <= b /\ b <= k /\ start <= Cursor
      /\ Cursor - start + 1 = k + 1 /\ source[start] = "/"
  BY <1>1, <1>2 DEF FoundAsRegex
<1>4. PICK l : l = Lexeme
  OBVIOUS
<1>5. /\ l \in Seq(Marked) /\ Len(l) = k + 1
      /\ \A i \in 1..k + 1 : l[i] = source[start + i - 1]
  BY <1>3, <1>4, LexemeText
<1>6. PICK n \in 1..k + 1 : n = b + 1 /\ n - 1 = b /\ n > 1
  <2>1. b + 1 \in 1..k + 1 /\ b + 1 - 1 = b /\ b + 1 > 1
    BY <1>3
  <2> QED
    BY <2>1
<1>7. l[1] = "/" /\ l[n] = "/"
  <2>1. 1 \in 1..k + 1 /\ start + 1 - 1 = start /\ start + n - 1 = start + b
    BY <1>3, <1>6
  <2> QED
    BY <1>2, <1>3, <1>5, <2>1
<1>8. \A i \in 1..k + 1 : l[i] \in Marked
  BY <1>5
(* The body.                                                               *)
<1>9. PICK body : body = SubSeq(l, 2, n - 1)
  OBVIOUS
<1>10. /\ body \in Seq(Marked) /\ Len(body) = b - 1
       /\ \A i \in 1..b - 1 : body[i] = source[start + i]
  <2>1. 2 \in Int /\ b \in Int /\ \A i \in 2..b : l[i] \in Marked
    BY <1>3, <1>8
  <2>2. /\ body \in Seq(Marked) /\ Len(body) = IF 2 <= b THEN b - 2 + 1 ELSE 0
        /\ \A i \in 1..b - 2 + 1 : body[i] = l[2 + i - 1]
    BY <1>6, <1>9, <2>1, SubSeqProperties
  <2>3. Len(body) = b - 1 /\ b - 2 + 1 = b - 1
    BY <1>3, <2>2
  <2>4. \A i \in 1..b - 1 : 2 + i - 1 \in 1..k + 1 /\ start + (2 + i - 1) - 1 = start + i
    BY <1>3
  <2> QED
    BY <1>5, <2>2, <2>3, <2>4
(* The flags.                                                              *)
<1>11. PICK flags : flags = SubSeq(l, n + 1, Len(l))
  OBVIOUS
<1>12. /\ flags \in Seq(Marked) /\ Len(flags) = k - b
       /\ \A i \in 1..k - b : flags[i] = source[start + b + i]
  <2>a. PICK m \in Int : m = n + 1
    BY <1>3, <1>6
  <2>b. PICK e \in Int : e = k + 1
    BY <1>3
  <2>1. m = n + 1 /\ e = k + 1 /\ e - m + 1 = k - b
    BY <1>3, <1>6, <2>a, <2>b
  <2>2. flags = SubSeq(l, m, e) /\ \A i \in m..e : l[i] \in Marked
    <3>1. \A i \in m..e : i \in 1..k + 1
      BY <1>3, <1>6, <2>1
    <3> QED
      BY <1>5, <1>8, <1>11, <2>1, <3>1
  <2>3. /\ flags \in Seq(Marked)
        /\ Len(flags) = IF m <= e THEN e - m + 1 ELSE 0
        /\ \A i \in 1..e - m + 1 : flags[i] = l[m + i - 1]
    BY <2>2, SubSeqProperties
  <2>4. Len(flags) = k - b
    BY <1>3, <1>6, <2>1, <2>3
  <2>5. \A i \in 1..k - b : m + i - 1 \in 1..k + 1 /\ start + (m + i - 1) - 1 = start + b + i
    BY <1>3, <1>6, <2>1
  <2> QED
    BY <1>5, <2>1, <2>3, <2>4, <2>5
<1>13. PICK tail : tail = IF flags = <<>> THEN <<"n">> ELSE flags
  OBVIOUS
<1>14. /\ tail \in Seq(Marked) /\ Len(view) = b + Len(tail)
       /\ \A i \in 1..Len(tail) : view[b + i] = tail[i]
  <2>1. CASE b = k
    <3>1. flags = <<>>
      BY <1>3, <1>12, <2>1
    <3>2. tail = <<"n">> /\ "n" \in Marked
      BY <1>13, <3>1 DEF Marked
    <3>3. tail \in Seq(Marked) /\ Len(tail) = 1 /\ tail[1] = "n"
      BY <3>2
    <3> QED
      BY <1>2, <2>1, <3>3
  <2>2. CASE b # k
    <3>1. k - b >= 1 /\ b + (k - b) = k
      BY <1>3, <2>2
    <3>2. tail = flags
      <4>1. Len(<<>>) = 0
        OBVIOUS
      <4> QED
        BY <1>12, <1>13, <3>1, <4>1
    <3>3. \A i \in 1..k - b : b + i \in 1..k /\ b + i # b /\ start + (b + i) = start + b + i
      BY <1>3
    <3> QED
      BY <1>2, <1>12, <2>2, <3>1, <3>2, <3>3
  <2> QED
    BY <2>1, <2>2
(* Put together.                                                           *)
<1>15. <<"marker">> \in Seq(Marked) /\ Len(<<"marker">>) = 1 /\ <<"marker">>[1] = "marker"
  BY DEF Marked
<1>16. PICK h : h = body \o <<"marker">>
  OBVIOUS
<1>17. h \in Seq(Marked) /\ Len(h) = b /\ \A i \in 1..b : h[i] = view[i]
  <2>1. /\ h \in Seq(Marked) /\ Len(h) = Len(body) + 1
        /\ \A i \in 1..Len(body) + 1 :
             h[i] = IF i <= Len(body) THEN body[i] ELSE <<"marker">>[i - Len(body)]
    BY <1>10, <1>15, <1>16, ConcatProperties
  <2>2. Len(body) + 1 = b /\ b - Len(body) = 1
    BY <1>3, <1>10
  <2>3. ASSUME NEW i \in 1..b PROVE h[i] = view[i]
    <3>1. CASE i = b
      <4>1. ~(i <= Len(body)) /\ i - Len(body) = 1
        BY <1>3, <1>10, <2>2, <3>1
      <4> QED
        BY <1>2, <1>15, <2>1, <2>2, <2>3, <3>1, <4>1
    <3>2. CASE i # b
      <4>1. i <= Len(body) /\ i \in 1..b - 1 /\ i \in 1..k
        BY <1>3, <1>10, <2>3, <3>2
      <4> QED
        BY <1>2, <1>10, <2>1, <2>2, <2>3, <3>2, <4>1
    <3> QED
      BY <3>1, <3>2
  <2> QED
    BY <2>1, <2>2, <2>3
<1>18. PICK w : w = h \o tail
  OBVIOUS
<1>19. /\ w \in Seq(Marked) /\ Len(w) = Len(view)
       /\ \A i \in 1..Len(view) : w[i] = IF i <= b THEN h[i] ELSE tail[i - b]
  <2>1. /\ w \in Seq(Marked) /\ Len(w) = Len(h) + Len(tail)
        /\ \A i \in 1..Len(h) + Len(tail) : w[i] = IF i <= Len(h) THEN h[i] ELSE tail[i - Len(h)]
    BY <1>14, <1>17, <1>18, ConcatProperties
  <2> QED
    BY <1>14, <1>17, <2>1
<1>20. ASSUME NEW i \in 1..Len(view) PROVE view[i] = w[i]
  <2>1. CASE i <= b
    <3>1. i \in 1..b
      BY <1>3, <1>20, <2>1
    <3> QED
      BY <1>17, <1>19, <1>20, <2>1, <3>1
  <2>2. CASE ~(i <= b)
    <3>1. i - b \in 1..Len(tail) /\ b + (i - b) = i
      <4>1. Len(tail) \in Nat /\ i <= b + Len(tail)
        BY <1>14, <1>20
      <4> QED
        BY <1>3, <1>20, <2>2, <4>1
    <3> QED
      BY <1>14, <1>19, <1>20, <2>2, <3>1
  <2> QED
    BY <2>1, <2>2
<1>21. view = w
  BY <1>19, <1>20, SameSequence
<1>22. view = SubSeq(l, 2, n - 1) \o <<"marker">>
                \o (IF SubSeq(l, n + 1, Len(l)) = <<>> THEN <<"n">> ELSE SubSeq(l, n + 1, Len(l)))
  BY <1>9, <1>11, <1>13, <1>16, <1>18, <1>21
<1> QED
  BY <1>4, <1>5, <1>6, <1>7, <1>22

(* What a token shows is what was consumed for it: the lexeme itself for   *)
(* names and operators, the lexeme without its quotes for strings, and so  *)
(* on for each type.                                                       *)
THEOREM TokenizerTellsTheText == Spec => []TokenText
<1>1. ASSUME Typed, ClassFree => Tape, HasToken /\ ClassFree => Answer PROVE TokenText
  <2> SUFFICES ASSUME HasToken, ClassFree, Answer, Tape PROVE
        /\ token.type # "END_OF_FILE" => from < start
        /\ token.type \notin {"END_OF_FILE", "ERROR", "INVALID",
                               "STRING", "TEMPLATE", "REGEX", "NUMBER"}
             => token.view = Lexeme
        /\ token.type = "INVALID" => Len(Lexeme) = 1
        /\ token.type \in {"STRING", "TEMPLATE"}
             => Lexeme = <<Lexeme[1]>> \o token.view \o <<Lexeme[1]>>
        /\ token.type = "NUMBER"
             => \/ token.view = Lexeme
                \/ Cursor < Len(source) /\ token.view = Append(Lexeme, source[Cursor + 1])
        /\ token.type = "REGEX"
             => \E n \in 1..Len(Lexeme) :
                  LET flags == SubSeq(Lexeme, n + 1, Len(Lexeme)) IN
                  /\ Lexeme[1] = "/" /\ n > 1 /\ Lexeme[n] = "/"
                  /\ token.view = SubSeq(Lexeme, 2, n - 1) \o <<"marker">>
                                   \o (IF flags = <<>> THEN <<"n">> ELSE flags)
    BY <1>1 DEF TokenText
  <2>1. /\ source \in Seq(Char) /\ Len(source) \in Nat /\ from \in 0..Len(source)
        /\ Cursor \in Int /\ Cursor <= Len(source) /\ token.view \in Seq(Marked)
    BY <1>1, StreamTypes DEF Tape, Typed, TypeOK
  <2>2. PICK type, view : type = token.type /\ view = token.view
    OBVIOUS
  <2>3. Answered(type, view, Cursor) /\ view \in Seq(Marked)
    BY <2>1, <2>2 DEF Answer
  <2>4. ASSUME type # "END_OF_FILE" PROVE from < start /\ start \in Nat \ {0}
    <3>1. start \in from + 1..Len(source)
      BY <2>3, <2>4, ByType
    <3> QED
      BY <2>1, <3>1
  <2>5. ASSUME type \notin OtherTypes PROVE view = Lexeme
    <3>1. FoundAsOperator(type, view, Cursor) \/ FoundAsName(type, view, Cursor)
      BY <2>3, <2>5, ByType
    <3>2. FoundHere(view) /\ view # <<>> /\ Cursor = start + Len(view) - 1
      <4>1. <<view, type>>[1] = view
        OBVIOUS
      <4> QED
        BY <3>1, <4>1, OperatorsNotEmpty DEF FoundAsOperator, FoundAsName
    <3>3. type # "END_OF_FILE"
      BY <2>5 DEF OtherTypes
    <3> QED
      BY <2>1, <2>3, <2>4, <3>2, <3>3, ViewIsLexeme
  <2>6. ASSUME type = "INVALID" PROVE Len(Lexeme) = 1
    <3>1. start \in Nat \ {0} /\ Cursor = start
      BY <2>3, <2>4, <2>6, ByType
    <3>2. start <= Cursor /\ Cursor - start + 1 = 1
      BY <3>1
    <3> QED
      BY <2>1, <3>1, <3>2, LexemeText
  <2>7. ASSUME type \in {"STRING", "TEMPLATE"}
        PROVE  Lexeme = <<Lexeme[1]>> \o view \o <<Lexeme[1]>>
    BY <2>1, <2>3, <2>4, <2>7, ByType, StringText
  <2>8. ASSUME type = "NUMBER"
        PROVE  \/ view = Lexeme
               \/ Cursor < Len(source) /\ view = Append(Lexeme, source[Cursor + 1])
    BY <2>1, <2>3, <2>4, <2>8, ByType, NumberText
  <2>9. ASSUME type = "REGEX"
        PROVE  \E n \in 1..Len(Lexeme) :
                 LET flags == SubSeq(Lexeme, n + 1, Len(Lexeme)) IN
                 /\ Lexeme[1] = "/" /\ n > 1 /\ Lexeme[n] = "/"
                 /\ view = SubSeq(Lexeme, 2, n - 1) \o <<"marker">>
                            \o (IF flags = <<>> THEN <<"n">> ELSE flags)
    <3>1. FoundAsRegex(type, view, Cursor) /\ start \in Nat \ {0}
      BY <2>3, <2>4, <2>9, ByType
    <3> QED
      BY <2>1, <2>3, <3>1, RegexText
  <2>10. OtherTypes = {"NUMBER", "STRING", "TEMPLATE", "REGEX", "END_OF_FILE", "ERROR", "INVALID"}
    BY DEF OtherTypes
  <2>11. token.type \notin {"END_OF_FILE", "ERROR", "INVALID",
                             "STRING", "TEMPLATE", "REGEX", "NUMBER"} => token.view = Lexeme
    BY <2>2, <2>5, <2>10
  <2> QED
    BY <2>2, <2>4, <2>6, <2>7, <2>8, <2>9, <2>11
<1> QED
  BY <1>1, AlwaysAnswered, PTL

=============================================================================
