CONSTANTS
  Names <- MCNames
  Alphabets <- MCTexts
SPECIFICATION FairSpec
INVARIANTS
  TypeOK FlagFollowsLoops SlashReadRightly BracketsNest TreeFollowsPrecedence NothingDropped
  NearestElse
PROPERTY Finishes
