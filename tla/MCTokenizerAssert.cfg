CONSTANTS
  EOF = "EOF"
  Keywords <- MCKeywords
  Char <- MCChar
  Texts <- MCTexts
  NextTexts <- MCNextTexts
  Modes = {TRUE, FALSE}
  MaxSize = 31
  Wide = 4
  Deep = 4
SPECIFICATION Spec
INVARIANT NeverAborts
