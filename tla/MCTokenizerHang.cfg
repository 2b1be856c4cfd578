CONSTANTS
  EOF = "EOF"
  Keywords <- MCKeywords
  Char <- MCChar
  Texts <- MCTexts
  NextTexts <- MCNextTexts
  Modes = {TRUE, FALSE}
  MaxSize = 31
  Wide = 2
  Deep = 2
SPECIFICATION FairSpec
PROPERTY AlwaysReturns
