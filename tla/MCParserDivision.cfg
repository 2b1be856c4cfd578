CONSTANTS
  Names <- MCNames
  Alphabets <- MCExpressions
SPECIFICATION Spec
INVARIANT DivisionExpected
