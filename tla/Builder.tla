------------------------------ MODULE Builder ------------------------------
(***************************************************************************)
(* The AST builder of src/jast/ast-builder.cc with the factory, from the   *)
(* construction of a ParserBuilder to its destruction, as samples/parse.cc *)
(* goes about it.  The parser's local handles are Locals; what parse       *)
(* functions do with them is any sequence of makings, copies, assignments, *)
(* insertions and releases.                                                *)
(***************************************************************************)
EXTENDS Handles, Scopes

CONSTANTS
  Locals,  \* the handles of the parse functions
  ast      \* the handle of main

ASSUME AstIsNoLocal == ast \notin Locals

(* The element of ASTBuilder::exprs_ that holds a node.                    *)
Cell(o) == <<o, "exprs_">>

Cells == {Cell(o) : o \in Objects}

ASSUME VarsAreThese == Vars = Locals \union {ast} \union Cells
ASSUME CellsAreNoLocals == (Locals \union {ast}) \intersect Cells = {}

VARIABLES
  exprs_,  \* the objects saved, in the order of the list
  kind,    \* what each object was made as: "node", "list" or "declaration"
  phase    \* "parsing", "closing" or "ended"

builder == <<exprs_, kind, phase>>
vars == <<handles, scopes, builder>>

BInit ==
  /\ HInit /\ SInit
  /\ exprs_ = <<>>
  /\ kind = [o \in Objects |-> "none"]
  /\ phase = "parsing"

Saved == {exprs_[i] : i \in 1..Len(exprs_)}

(* A node the builder has made and not yet saved.                          *)
Unsaved == {o \in Objects : kind[o] = "node" /\ life[o] = "alive"} \ Saved

(* The parser is at work, not the builder on its behalf.                   *)
Parsing == phase = "parsing" /\ Unsaved = {}

(* There is a handle for what a call returns.                              *)
Room == \E s \in Locals : ptr[s] = Null

-----------------------------------------------------------------------------

(* The ASTBuilder::NewX that save: made in the current scope.              *)
NewNode(o) ==
  /\ Parsing /\ Room /\ New(o)
  /\ kind' = [kind EXCEPT ![o] = "node"]
  /\ InCurrentScope(o)
  /\ UNCHANGED <<exprs_, phase>>

(* NewExpressionList and NewClausesList                                    *)
NewList(o) ==
  /\ Parsing /\ Room /\ New(o)
  /\ kind' = [kind EXCEPT ![o] = "list"]
  /\ UNCHANGED <<scopes, exprs_, phase>>

(* Declarations, which the parser has the factory make.                    *)
NewDeclaration(o) ==
  /\ Parsing /\ Room /\ New(o)
  /\ kind' = [kind EXCEPT ![o] = "declaration"]
  /\ InCurrentScope(o)
  /\ UNCHANGED <<exprs_, phase>>

(* Members are copied from arguments; a list starts empty.                 *)
Construct ==
  /\ \E s \in Locals :
       \/ Wrap(s)
       \/ \E p \in Places : building # Null /\ kind[building] # "list" /\ InitMember(p, s)
  /\ UNCHANGED <<scopes, builder>>

(* Mutant of Save: a bare pointer is saved.                                *)
SaveBare(s) ==
  /\ Idle /\ ptr[s] \in Unsaved
  /\ exprs_' = Append(exprs_, ptr[s])
  /\ UNCHANGED <<handles, scopes, kind, phase>>

Save(s) ==
  /\ ptr[s] \in Unsaved
  /\ Copy(s, Cell(ptr[s]))
  /\ exprs_' = Append(exprs_, ptr[s])
  /\ UNCHANGED <<scopes, kind, phase>>

Is(s, what) == ptr[s] # Null /\ kind[ptr[s]] = what

(* What a parse function does with its handles.                            *)
UseHandles ==
  /\ Parsing
  /\ \E s \in Locals :
       \/ Destroy(s)
       \/ \E t \in Locals : Copy(s, t) \/ Assign(s, t)
       \/ \E t \in Locals, p \in Places :
            Is(s, "list") /\ ~Is(t, "list") /\ Insert(s, p, t)
  /\ UNCHANGED <<scopes, builder>>

(* The calls that go on by themselves.                                     *)
Continue ==
  /\ FinishAssign \/ Deleting
  /\ UNCHANGED <<scopes, builder>>

(* The scope manager is given saved nodes that the parser has at hand.     *)
Nodes == {ptr[s] : s \in {t \in Locals : Is(t, "node")}}

UseScopes ==
  /\ Parsing /\ Idle
  /\ \/ \E s \in ScopeIds, o \in Nodes \union {Null} : NewScope(s, o)
     \/ PopScope
     \/ \E n \in Identifiers, o \in Nodes : Push(n, o)
  /\ UNCHANGED <<handles, builder>>

(* ast = ParseProgram(parser): the handle it returns is the last it has,   *)
Return(s) ==
  /\ Parsing /\ Is(s, "node")
  /\ \A t \in Locals \ {s} : ptr[t] = Null
  /\ Assign(ast, s)
  /\ phase' = "closing"
  /\ UNCHANGED <<scopes, exprs_, kind>>

(* or a SyntaxError goes through all of its functions to main.             *)
Throw ==
  /\ Parsing /\ Idle
  /\ phase' = "closing"
  /\ UNCHANGED <<handles, scopes, exprs_, kind>>

(* The handles of ParseProgram go,                                         *)
Unwind(s) ==
  /\ phase = "closing" /\ Destroy(s)
  /\ UNCHANGED <<scopes, builder>>

ParserIsGone == phase = "closing" /\ \A s \in Locals : ptr[s] = Null

(* main returns: ~Ref of ast,                                              *)
DropTree ==
  /\ ParserIsGone /\ Destroy(ast)
  /\ UNCHANGED <<scopes, builder>>

(* Mutant of DropSaved: the list is cleared without its handles.           *)
ForgetSaved ==
  /\ ParserIsGone /\ Idle /\ ptr[ast] = Null /\ exprs_ # <<>>
  /\ exprs_' = Tail(exprs_)
  /\ UNCHANGED <<handles, scopes, kind, phase>>

(* then ~ASTBuilder, exprs_ from its front on,                             *)
DropSaved ==
  /\ ParserIsGone /\ ptr[ast] = Null /\ exprs_ # <<>>
  /\ Destroy(Cell(exprs_[1]))
  /\ exprs_' = Tail(exprs_)
  /\ UNCHANGED <<scopes, kind, phase>>

End ==
  /\ ParserIsGone /\ Idle /\ ptr[ast] = Null /\ exprs_ = <<>>
  /\ phase' = "ended"
  /\ UNCHANGED <<handles, scopes, exprs_, kind>>

Closing == (\E s \in Locals : Unwind(s)) \/ DropTree \/ DropSaved \/ End

BNext ==
  \/ \E o \in Objects : NewNode(o) \/ NewList(o) \/ NewDeclaration(o)
  \/ \E s \in Locals : Save(s) \/ Return(s)
  \/ Construct \/ UseHandles \/ Continue \/ UseScopes \/ Throw \/ Closing
  \/ phase = "ended" /\ UNCHANGED vars

(* Once main returns, its destructors run to their end.                    *)
BSpec == BInit /\ [][BNext]_vars /\ WF_vars(Continue) /\ WF_vars(Closing)

-----------------------------------------------------------------------------

TypeOK ==
  /\ HTypeOK /\ STypeOK
  /\ exprs_ \in Seq(Objects)
  /\ kind \in [Objects -> {"none", "node", "list", "declaration"}]
  /\ phase \in {"parsing", "closing", "ended"}

(* While the parser is at work, whatever it does with its own handles,     *)
(* each node the builder has made lives, and with it every node whose      *)
(* address a scope or a symbol table keeps: they are given saved nodes.    *)
NodesLive ==
  phase = "parsing" =>
    /\ \A o \in Objects : kind[o] = "node" => life[o] \in {"new", "alive"}
    /\ \A s \in made :
         /\ root[s] # Null => life[root[s]] = "alive"
         /\ \A n \in Identifiers : Exists(s, n) => life[Get(s, n)] = "alive"

(* When the program closes all memory is given back: declarations and      *)
(* lists, which nobody saves, and the nodes of an abandoned parse, too.    *)
AllFreed ==
  phase = "closing" ~>
    phase = "ended" /\ \A o \in Objects : life[o] \in {"unborn", "dead"}

ImplementsOwnership == Owned!Spec

=============================================================================
