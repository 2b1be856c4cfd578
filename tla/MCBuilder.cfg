CONSTANTS
  Null = Null
  first = first
  second = second
  member = member
  ast = ast
  global = global
  inner = inner
  x = x
  Places = {member}
  Locals <- MCLocals
  Objects <- MCObjects
  Vars <- MCVars
  ScopeIds = {global, inner}
  Global = global
  Identifiers = {x}
SPECIFICATION BSpec
INVARIANTS TypeOK CountExact HeldIsAlive StackIsChain NodesLive
PROPERTIES AllFreed ImplementsOwnership
