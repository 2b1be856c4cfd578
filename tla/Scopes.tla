------------------------------- MODULE Scopes -------------------------------
(***************************************************************************)
(* The scope manager of src/jast/scope.cc: a stack of scopes, each with    *)
(* the node it starts at and a symbol table.  Both keep nodes by address.  *)
(***************************************************************************)
EXTENDS Integers, Sequences, Heap

CONSTANTS
  ScopeIds,    \* the scopes
  Global,      \* the scope of the parser context
  Identifiers  \* the names of symbols

ASSUME GlobalIsScope == Global \in ScopeIds
ASSUME NullIsNoScope == Null \notin ScopeIds

VARIABLES
  made,         \* the scopes there are
  parent,       \* Scope::parent_
  root,         \* Scope::root_
  entries,      \* SymT::entries_, Null for a name that is not there
  current,      \* ScopeManager::current_
  scope_stack,  \* ScopeManager::scope_stack_
  scope         \* Expression::scope_ of each node

scopes == <<made, parent, root, entries, current, scope_stack, scope>>

SInit ==
  /\ made = {Global}
  /\ parent = [s \in ScopeIds |-> Null]
  /\ root = [s \in ScopeIds |-> Null]
  /\ entries = [s \in ScopeIds |-> [n \in Identifiers |-> Null]]
  /\ current = Global
  /\ scope_stack = <<>>
  /\ scope = [o \in Objects |-> Null]

(* Mutant of NewScope: the new scope is pushed, not the current one.       *)
NewScopePushingNew(s, value) ==
  /\ s \notin made
  /\ made' = made \union {s}
  /\ parent' = [parent EXCEPT ![s] = current]
  /\ root' = [root EXCEPT ![s] = value]
  /\ scope' = IF value = Null THEN scope ELSE [scope EXCEPT ![value] = s]
  /\ scope_stack' = Append(scope_stack, s)
  /\ current' = s
  /\ UNCHANGED entries

(* A scope that begins at a node, which is told, or at none.               *)
NewScope(s, value) ==
  /\ s \notin made
  /\ made' = made \union {s}
  /\ parent' = [parent EXCEPT ![s] = current]
  /\ root' = [root EXCEPT ![s] = value]
  /\ scope' = IF value = Null THEN scope ELSE [scope EXCEPT ![value] = s]
  /\ scope_stack' = Append(scope_stack, current)
  /\ current' = s
  /\ UNCHANGED entries

(* The caller has made a scope that it has not popped; the code relies on  *)
(* it.  The scope that is popped is never deleted.                         *)
PopScope ==
  /\ scope_stack # <<>>
  /\ current' = scope_stack[Len(scope_stack)]
  /\ scope_stack' = SubSeq(scope_stack, 1, Len(scope_stack) - 1)
  /\ UNCHANGED <<made, parent, root, entries, scope>>

(* SymT::Push into the current scope's symbol table.                       *)
Push(name, value) ==
  /\ entries' = [entries EXCEPT ![current][name] = value]
  /\ UNCHANGED <<made, parent, root, current, scope_stack, scope>>

(* SymT::Exists and SymT::Get                                              *)
Exists(s, name) == entries[s][name] # Null
Get(s, name) == entries[s][name]

(* A node is made in the current scope.                                    *)
InCurrentScope(o) ==
  /\ scope' = [scope EXCEPT ![o] = current]
  /\ UNCHANGED <<made, parent, root, entries, current, scope_stack>>

-----------------------------------------------------------------------------

STypeOK ==
  /\ made \subseteq ScopeIds
  /\ parent \in [ScopeIds -> made \union {Null}]
  /\ root \in [ScopeIds -> Objects \union {Null}]
  /\ entries \in [ScopeIds -> [Identifiers -> Objects \union {Null}]]
  /\ current \in made
  /\ scope_stack \in Seq(made)
  /\ scope \in [Objects -> made \union {Null}]

(* The stack, with the current scope on top, is the chain of parents from  *)
(* the global scope on, however scopes were pushed and popped.             *)
StackIsChain ==
  LET path == Append(scope_stack, current)
  IN  /\ path[1] = Global /\ parent[Global] = Null
      /\ \A i \in 1..Len(scope_stack) : parent[path[i + 1]] = path[i]

=============================================================================
