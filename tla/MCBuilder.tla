----------------------------- MODULE MCBuilder -----------------------------
EXTENDS Builder

CONSTANTS first, second, member, inner, global, x

MCObjects == 1..3
MCLocals == {first, second}
MCVars == MCLocals \union {ast} \union {Cell(o) : o \in MCObjects}

=============================================================================
