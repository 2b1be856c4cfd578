CONSTANTS
  Char = {"a", "b"}
  EOF = "EOF"
  Texts <- MCTexts
  MaxBuffer = 4
SPECIFICATION Spec
INVARIANT TypeOK
PROPERTY ImplementsLookahead
