CONSTANT Trees <- MCTrees
CONSTANT Height <- MCHeight
CONSTANT Pairs <- MCPairs
SPECIFICATION Spec
INVARIANTS MatchIffEqual TrueMeansAlike MatchFailsOnlyFor Symmetric
