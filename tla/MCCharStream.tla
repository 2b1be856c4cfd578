---- MODULE MCCharStream ----
(* CharStream on every text of at most three letters and bytes 0xFF.       *)
EXTENDS CharStream

MCTexts == UNION {[1..n -> Char \union {EOF}] : n \in 0..3}

=============================================================================
