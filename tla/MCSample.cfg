CONSTANTS
  Names <- MCNames
  Alphabets <- MCTexts
SPECIFICATION SampleSpec
INVARIANTS TabRestored BracesAlign OpenBracesAreIfElses ShowsTheText FailsOnlyFor
PROPERTY Ends
