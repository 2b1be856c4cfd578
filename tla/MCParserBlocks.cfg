CONSTANTS
  Names <- MCNames
  Alphabets <- MCStatements
SPECIFICATION Spec
INVARIANT BlocksBegin
