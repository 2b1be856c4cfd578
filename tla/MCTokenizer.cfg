CONSTANTS
  EOF = "EOF"
  Keywords <- MCKeywords
  Char <- MCChar
  Texts <- MCTexts
  NextTexts <- MCNextTexts
  Modes = {TRUE, FALSE}
  MaxSize = 31
  Wide = 4
  Deep = 5
SPECIFICATION FairSpec
INVARIANTS
  TypeOK Conserved SeekTracksCursor PositionExact AssertsHold
  SkipsOnlyTrivia TokenText MaximalMunch SlashMode EndsAtEnd
PROPERTY Returns
