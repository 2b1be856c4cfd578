------------------------------- MODULE Sample -------------------------------
(***************************************************************************)
(* The program of samples/parse.cc: it parses a text and prints the tree,  *)
(* or reports the error.                                                   *)
(***************************************************************************)
EXTENDS DumpAST

SampleInit ==
  /\ Init
  /\ visits = <<>> /\ tab = 0 /\ line = Fresh /\ opened = <<>> /\ shown = <<>>
  /\ fate = "parsing"

Parse == Step /\ UNCHANGED printer

(* main's catch: "Error", and the program returns -1.                      *)
ReportError ==
  /\ fate = "parsing" /\ status = "error"
  /\ fate' = "reported"
  /\ UNCHANGED <<vars, visits, tab, line, opened, shown>>

Begun(node) == [todo |-> Visit(node), tab0 |-> tab]

(* "Parsed correctly", and ast->Accept(&p).                                *)
PrintTree ==
  /\ fate = "parsing" /\ status = "done"
  /\ fate' = "printing"
  /\ visits' = <<Begun(ret)>>
  /\ UNCHANGED <<vars, tab, line, opened, shown>>

-----------------------------------------------------------------------------

Visiting == fate = "printing" /\ visits # <<>>
Todo == visits[Len(visits)].todo
Now(what) == Visiting /\ Todo # <<>> /\ Todo[1].do = what

Onward == [visits EXCEPT ![Len(visits)].todo = Tail(@)]

Indentation == IF line = Fresh THEN 0 ELSE line

os_tabbed ==
  /\ Now("tabbed")
  /\ line' = IF line = Fresh THEN tab ELSE line
  /\ visits' = Onward /\ UNCHANGED <<vars, tab, opened, shown, fate>>

MoveTab ==
  /\ \/ Now("tab++") /\ tab' = tab + 1
     \/ Now("tab--") /\ tab' = tab - 1
  /\ visits' = Onward /\ UNCHANGED <<vars, line, opened, shown, fate>>

(* A line ends: one that opens a brace, closes one or does neither.        *)
EndLine ==
  /\ \/ Now("open") /\ opened' = Append(opened, Indentation)
     \/ Now("close") /\ opened' = SubSeq(opened, 1, Len(opened) - 1)
     \/ Now("line") /\ UNCHANGED opened
  /\ line' = Fresh
  /\ visits' = Onward /\ UNCHANGED <<vars, tab, shown, fate>>

ShowToken ==
  /\ \/ Now("show")
     \/ Now("name") /\ IsIdentifier(Todo[1].of)
  /\ shown' = Append(shown, Todo[1].of.at)
  /\ line' = Indentation
  /\ visits' = Onward /\ UNCHANGED <<vars, tab, opened, fate>>

(* AsIdentifier() of any other node fails its assertion.                   *)
FailAsIdentifier ==
  /\ Now("name") /\ ~IsIdentifier(Todo[1].of)
  /\ fate' = "abort"
  /\ UNCHANGED <<vars, visits, tab, line, opened, shown>>

(* Mutant of VisitChild: a loop never steps past an empty statement.       *)
VisitEmptyAgain ==
  /\ Now("accept") /\ Todo[1].of # Null
  /\ visits' = Append(IF Todo[1].of = Undefined THEN visits ELSE Onward, Begun(Todo[1].of))
  /\ UNCHANGED <<vars, tab, line, opened, shown, fate>>

VisitChild ==
  /\ Now("accept") /\ Todo[1].of # Null
  /\ visits' = Append(Onward, Begun(Todo[1].of))
  /\ UNCHANGED <<vars, tab, line, opened, shown, fate>>

(* Accept through a null handle.                                           *)
Dereference ==
  /\ Now("accept") /\ Todo[1].of = Null
  /\ fate' = "crash"
  /\ UNCHANGED <<vars, visits, tab, line, opened, shown>>

Leave ==
  /\ Visiting /\ Todo = <<>>
  /\ visits' = SubSeq(visits, 1, Len(visits) - 1)
  /\ fate' = IF Len(visits) = 1 THEN "printed" ELSE "printing"
  /\ UNCHANGED <<vars, tab, line, opened, shown>>

Act ==
  \/ Parse \/ ReportError \/ PrintTree \/ os_tabbed \/ MoveTab \/ EndLine \/ ShowToken
  \/ FailAsIdentifier \/ VisitChild \/ Dereference \/ Leave

Ended == fate \in {"printed", "reported", "crash", "abort"} /\ UNCHANGED <<vars, printer>>

SampleNext == Act \/ Ended

(* The program runs on one thread and waits for nothing.                   *)
SampleSpec == SampleInit /\ [][SampleNext]_<<vars, printer>> /\ WF_<<vars, printer>>(Act)

-----------------------------------------------------------------------------

(* Every Visit, of whatever it is made up, leaves the indentation as it    *)
(* has found it, and no line is indented to the left of the margin.        *)
TabRestored ==
  /\ tab >= 0
  /\ Visiting /\ Todo = <<>> => tab = visits[Len(visits)].tab0
  /\ fate = "printed" => tab = 0 /\ line = Fresh

(* A closing brace stands under the line that opened it, in trees without  *)
(* an if-else, whose true body stays open, and without a switch, whose     *)
(* expression is not indented.                                             *)
BracesAlign ==
  Now("close") /\ ~Has("ELSE") /\ ~Has("SWITCH") =>
    opened # <<>> /\ opened[Len(opened)] = line

(* The printer dereferences a null handle only in an object literal that   *)
(* begins with a name and no value, and it fails an assertion only for a   *)
(* catch whose parameter is no single name: whatever else the parser       *)
(* leaves out of a node, the printer asks for first.                       *)
FailsOnlyFor ==
  /\ fate = "crash" =>
       \E i \in 1..here - 2 : IsObject(i) /\ input[i + 2] \in {"COMMA", "RBRACE"}
  /\ fate = "abort" =>
       \E i \in 1..here - 3 :
         /\ input[i] = "CATCH"
         /\ ~(TypeOf(input[i + 2]) = "IDENTIFIER" /\ input[i + 3] = "RPAREN")

(* Every run of the program comes to its end.                              *)
Ends == <>(fate \in {"printed", "reported", "crash", "abort"})

=============================================================================
