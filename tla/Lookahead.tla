------------------------------ MODULE Lookahead ------------------------------
(***************************************************************************)
(* What a CharacterStream promises its user (include/jast/scanner.h): the  *)
(* text still to be read is one list.  readchar() takes its head, putback  *)
(* puts a character in front of it, and past the end every read gives EOF. *)
(***************************************************************************)
EXTENDS Sequences

CONSTANTS Char, EOF, Texts

VARIABLES
  rest,  \* the characters still to come, the next one first
  got    \* what the last readchar() answered

Init == rest \in Texts /\ got = EOF

ReadChar == rest # <<>> /\ got' = Head(rest) /\ rest' = Tail(rest)

ReadAtEnd == rest = <<>> /\ got' = EOF /\ UNCHANGED rest

Putback(c) == rest' = <<c>> \o rest /\ UNCHANGED got

Next == ReadChar \/ ReadAtEnd \/ \E c \in Char \union {EOF} : Putback(c)

Spec == Init /\ [][Next]_<<rest, got>>

=============================================================================
