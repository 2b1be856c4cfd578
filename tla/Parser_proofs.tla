--------------------------- MODULE Parser_proofs ---------------------------
(***************************************************************************)
(* What the parser does for every set of texts and every depth of nesting. *)
(* Its flag follows its for statements: the invariant says, beside the     *)
(* property itself, what the stack must be like for it to be preserved.    *)
(* The first call is never a loop's, and a for statement's frame keeps the *)
(* flag it restores as long as the statement is being parsed.  From the    *)
(* same invariant, the parser's types: tokens come from the text, each is  *)
(* read in one of the two modes, and every call in progress began at a     *)
(* token that has been read.  Then the tokens: an accepted text has its    *)
(* brackets nested, and a slash is read as what its place makes of it.     *)
(* Both need invariants of the whole stack of calls: which brackets each   *)
(* call holds, and where the function it is in was called from.            *)
(***************************************************************************)
EXTENDS Parser, SequenceTheorems, WellFoundedInduction, TLAPS

Entry == {"Program", "Program.statement"}

IsSequence(s) == s \in Seq({s[i] : i \in 1..Len(s)})

(* Invariant of the stack: calls begin at ParseProgram, a frame of a for   *)
(* statement holds at least the flag to restore, and the stack is left     *)
(* only at the end.                                                        *)
StackOK ==
  /\ IsSequence(stack)
  /\ forIn \in BOOLEAN
  /\ status \in {"running", "throwing", "done", "error"}
  /\ stack = <<>> <=> status \in {"done", "error"}
  /\ \A k \in 1..Len(stack) :
       /\ stack[k].at \in Labels
       /\ stack[k].at \in Entry <=> k = 1
       /\ stack[k].at \in ForLabels => IsSequence(stack[k].mem) /\ stack[k].mem # <<>>

Inv == StackOK /\ FlagFollowsLoops

(* A frame that may take the place of the innermost one.                   *)
Fits(label, locals) ==
  /\ label \in Labels
  /\ label \in Entry <=> Top.at \in Entry
  /\ label \in ForLabels <=> Top.at \in ForLabels
  /\ label \in ForLabels => IsSequence(locals) /\ locals # <<>> /\ locals[1] = mem[1]

(* A label calls begin at, outside of loops.                               *)
Begins(label) == label \in Labels \ (Entry \union ForLabels)

(* A sequence of anything is one of its own elements.                      *)
LEMMA OwnElements ==
  ASSUME NEW S, NEW s \in Seq(S) PROVE IsSequence(s)
<1> DEFINE T == {s[i] : i \in 1..Len(s)}
<1>1. s \in [1..Len(s) -> S] /\ Len(s) \in Nat
  OBVIOUS
<1>2. \A i \in 1..Len(s) : s[i] \in T
  OBVIOUS
<1> HIDE DEF T
<1>3. s \in [1..Len(s) -> T]
  BY <1>1, <1>2
<1>4. s \in Seq(T)
  BY <1>1, <1>3
<1> QED
  BY <1>4 DEF IsSequence, T

(* The first n elements of a sequence.                                     *)
LEMMA Prefix ==
  ASSUME NEW s, IsSequence(s), NEW n \in 0..Len(s)
  PROVE  /\ Len(s) \in Nat
         /\ IsSequence(SubSeq(s, 1, n)) /\ Len(SubSeq(s, 1, n)) = n
         /\ \A k \in 1..n : SubSeq(s, 1, n)[k] = s[k]
<1> DEFINE S == {s[i] : i \in 1..Len(s)}
           short == SubSeq(s, 1, n)
<1>1. s \in Seq(S)
  BY DEF IsSequence
<1> HIDE DEF S
<1>2. Len(s) \in Nat /\ 1 \in Int /\ n \in Int /\ n >= 0 /\ n <= Len(s)
  BY <1>1
<1>3. \A i \in 1..n : s[i] \in S
  BY <1>1, <1>2
<1>4. /\ short \in Seq(S)
      /\ Len(short) = IF 1 <= n THEN n - 1 + 1 ELSE 0
      /\ \A i \in 1..n - 1 + 1 : short[i] = s[1 + i - 1]
  BY <1>2, <1>3, SubSeqProperties
<1> HIDE DEF short
<1>5. Len(short) = n
  <2>1. CASE n = 0
    BY <1>4, <2>1
  <2>2. CASE n # 0
    <3>1. 1 <= n /\ n - 1 + 1 = n
      BY <1>2, <2>2
    <3> QED
      BY <1>4, <3>1
  <2> QED
    BY <2>1, <2>2
<1>6. ASSUME NEW k \in 1..n PROVE short[k] = s[k]
  <2>1. k \in 1..n - 1 + 1 /\ 1 + k - 1 = k
    BY <1>2, <1>6
  <2> QED
    BY <1>4, <2>1
<1>7. IsSequence(short)
  BY <1>4, OwnElements
<1> QED
  BY <1>2, <1>5, <1>6, <1>7 DEF short

(* The callers are the stack without its top.                              *)
LEMMA CallersAre ==
  ASSUME IsSequence(stack), stack # <<>>
  PROVE  /\ Len(stack) \in Nat /\ Len(stack) >= 1
         /\ IsSequence(Callers) /\ Len(Callers) = Len(stack) - 1
         /\ \A k \in 1..Len(stack) - 1 : Callers[k] = stack[k]
<1>1. Len(stack) \in Nat /\ Len(stack) >= 1
  BY DEF IsSequence
<1>2. Len(stack) - 1 \in 0..Len(stack)
  BY <1>1
<1> QED
  BY <1>1, <1>2, Prefix DEF Callers

(* One more element on top of a sequence.                                  *)
LEMMA OneMore ==
  ASSUME NEW s, NEW e, IsSequence(s)
  PROVE  /\ Len(s) \in Nat
         /\ IsSequence(Append(s, e)) /\ Len(Append(s, e)) = Len(s) + 1
         /\ \A k \in 1..Len(s) : Append(s, e)[k] = s[k]
         /\ Append(s, e)[Len(s) + 1] = e
<1> DEFINE S == {s[i] : i \in 1..Len(s)}
           T == S \union {e}
<1>1. s \in Seq(S)
  BY DEF IsSequence
<1> HIDE DEF S
<1>2. s \in Seq(T) /\ e \in T /\ Len(s) \in Nat
  BY <1>1
<1> HIDE DEF T
<1>3. Append(s, e) \in Seq(T)
  BY <1>2
<1>4. IsSequence(Append(s, e))
  BY <1>3, OwnElements
<1> QED
  BY <1>2, <1>4

-----------------------------------------------------------------------------
(* Steps of a running parse.                                               *)

(* The frame k of a stack s belongs to a for statement being parsed.       *)
Looping(s, k) == k \in 1..Len(s) /\ s[k].at \in ForLabels

(* What StackOK says of the frame k of a stack s.                          *)
FrameOK(s, k) ==
  /\ s[k].at \in Labels
  /\ s[k].at \in Entry <=> k = 1
  /\ s[k].at \in ForLabels => IsSequence(s[k].mem) /\ s[k].mem # <<>>

(* A step that leaves the flag alone must leave the for statements and     *)
(* what they remember.                                                     *)
LEMMA SameLoops ==
  ASSUME Inv, status = "running", UNCHANGED <<forIn, status>>,
         IsSequence(stack'), stack' # <<>>,
         \A k \in 1..Len(stack') : FrameOK(stack', k),
         \A k \in Nat : Looping(stack', k) <=> Looping(stack, k),
         \A k \in Nat : Looping(stack, k) => stack'[k].mem[1] = stack[k].mem[1]
  PROVE  Inv'
<1>1. StackOK'
  BY DEF Inv, StackOK, FrameOK
<1>2. Len(stack) \in Nat /\ Len(stack') \in Nat
  BY DEF Inv, StackOK, IsSequence
<1>3. Loops' = Loops
  BY <1>2 DEF Loops, InLoop, Looping
<1>4. ASSUME NEW k \in 1..Len(stack'), InLoop(k)'
      PROVE  (stack[k].mem[1] = (\E j \in 1..k - 1 : InLoop(j)))'
  <2>1. k \in 1..Len(stack) /\ InLoop(k) /\ stack'[k].mem[1] = stack[k].mem[1]
    BY <1>2, <1>4 DEF InLoop, Looping
  <2>2. stack[k].mem[1] = (\E j \in 1..k - 1 : InLoop(j))
    BY <2>1 DEF Inv, FlagFollowsLoops
  <2>3. ASSUME NEW j \in 1..k - 1 PROVE InLoop(j) <=> InLoop(j)'
    <3>1. j \in 1..Len(stack) /\ j \in 1..Len(stack') /\ j \in Nat
      BY <1>2, <2>1, <1>4
    <3> QED
      BY <3>1 DEF InLoop, Looping
  <2> QED
    BY <2>1, <2>2, <2>3
<1>5. FlagFollowsLoops'
  BY <1>3, <1>4 DEF Inv, FlagFollowsLoops
<1> QED
  BY <1>1, <1>5 DEF Inv

(* What is known of the stack of a running parse.                          *)
LEMMA Running ==
  ASSUME Inv, status = "running"
  PROVE  /\ IsSequence(stack) /\ stack # <<>>
         /\ Len(stack) \in Nat /\ Len(stack) >= 1
         /\ IsSequence(Callers) /\ Len(Callers) = Len(stack) - 1
         /\ \A k \in 1..Len(stack) - 1 : Callers[k] = stack[k]
         /\ \A k \in 1..Len(stack) : FrameOK(stack, k)
         /\ Top = stack[Len(stack)] /\ mem = Top.mem
<1>1. /\ IsSequence(stack) /\ stack # <<>>
      /\ \A k \in 1..Len(stack) : FrameOK(stack, k)
  BY DEF Inv, StackOK, FrameOK
<1> QED
  BY <1>1, CallersAre DEF Top, mem

(* The innermost call goes on.                                             *)
LEMMA GotoKeeps ==
  ASSUME Inv, status = "running", NEW label, NEW locals,
         Fits(label, locals), Goto(label, locals)
  PROVE  Inv'
<1> DEFINE n == Len(stack)
           f == Frame(label, locals, Top.from)
<1>1. /\ IsSequence(stack') /\ Len(stack') = n
      /\ \A k \in 1..n - 1 : stack'[k] = stack[k]
      /\ stack'[n] = f
  BY Running, OneMore DEF Goto
<1>2. f.at = label /\ f.mem = locals
  BY DEF Frame
<1> HIDE DEF f
<1>3. ASSUME NEW k \in 1..n PROVE /\ FrameOK(stack', k)
                                  /\ Looping(stack', k) <=> Looping(stack, k)
                                  /\ Looping(stack, k) => stack'[k].mem[1] = stack[k].mem[1]
  <2>1. CASE k = n
    BY <1>1, <1>2, <1>3, <2>1, Running DEF Fits, FrameOK, Looping
  <2>2. CASE k # n
    <3>1. stack'[k] = stack[k]
      BY <1>1, <1>3, <2>2, Running
    <3> QED
      BY <1>1, <1>3, <3>1, Running DEF FrameOK, Looping
  <2> QED
    BY <2>1, <2>2
<1>4. ASSUME NEW k \in Nat, k \notin 1..n PROVE ~Looping(stack', k) /\ ~Looping(stack, k)
  BY <1>1, <1>4 DEF Looping
<1>5. stack' # <<>>
  BY <1>1, Running
<1>6. UNCHANGED <<forIn, status>>
  BY DEF Goto
<1> QED
  BY <1>1, <1>3, <1>4, <1>5, <1>6, SameLoops

(* It calls another function, whose first frame has any locals.            *)
LEMMA PushKeeps ==
  ASSUME Inv, status = "running", NEW label, NEW locals, NEW function, NEW more, NEW first,
         Fits(label, locals), Begins(function), UNCHANGED <<forIn, status>>,
         stack' = Callers \o <<Frame(label, locals, Top.from), Frame(function, more, first)>>
  PROVE  Inv'
<1> DEFINE n == Len(stack)
           f == Frame(label, locals, Top.from)
           g == Frame(function, more, first)
           s == Append(Callers, f)
<1>1. /\ IsSequence(s) /\ Len(s) = n
      /\ \A k \in 1..n - 1 : s[k] = stack[k]
      /\ s[n] = f
  BY Running, OneMore
<1>2. stack' = Append(s, g)
  BY Running DEF IsSequence
<1>3. f.at = label /\ f.mem = locals /\ g.at = function
  BY DEF Frame
<1> HIDE DEF f, g, s
<1>4. /\ IsSequence(stack') /\ Len(stack') = n + 1
      /\ \A k \in 1..n : stack'[k] = s[k]
      /\ stack'[n + 1] = g
  <2>1. /\ IsSequence(Append(s, g)) /\ Len(Append(s, g)) = Len(s) + 1
        /\ \A k \in 1..Len(s) : Append(s, g)[k] = s[k]
        /\ Append(s, g)[Len(s) + 1] = g
    BY <1>1, OneMore
  <2> QED
    BY <1>1, <1>2, <2>1
<1>5. ASSUME NEW k \in 1..n PROVE /\ FrameOK(stack', k)
                                  /\ Looping(stack', k) <=> Looping(stack, k)
                                  /\ Looping(stack, k) => stack'[k].mem[1] = stack[k].mem[1]
  <2>1. CASE k = n
    <3>1. stack'[k] = f
      BY <1>1, <1>4, <2>1, Running
    <3> QED
      BY <1>4, <1>3, <1>5, <2>1, <3>1, Running DEF Fits, FrameOK, Looping
  <2>2. CASE k # n
    <3>1. stack'[k] = stack[k]
      BY <1>1, <1>4, <1>5, <2>2, Running
    <3> QED
      BY <1>4, <1>5, <3>1, Running DEF FrameOK, Looping
  <2> QED
    BY <2>1, <2>2
<1>6. FrameOK(stack', n + 1) /\ ~Looping(stack', n + 1) /\ ~Looping(stack, n + 1)
  BY <1>3, <1>4, Running DEF FrameOK, Looping, Begins
<1>7. ASSUME NEW k \in Nat, k \notin 1..n, k # n + 1
      PROVE  ~Looping(stack', k) /\ ~Looping(stack, k)
  BY <1>4, <1>7, Running DEF Looping
<1>8. stack' # <<>>
  BY <1>4, Running
<1>9. ASSUME NEW k \in 1..Len(stack') PROVE FrameOK(stack', k)
  <2>1. k \in 1..n \/ k = n + 1
    BY <1>4, <1>9, Running
  <2> QED
    BY <1>5, <1>6, <2>1
<1>10. \A k \in Nat : Looping(stack', k) <=> Looping(stack, k)
  BY <1>5, <1>6, <1>7
<1>11. \A k \in Nat : Looping(stack, k) => stack'[k].mem[1] = stack[k].mem[1]
  BY <1>5, <1>6, <1>7
<1> QED
  BY <1>4, <1>8, <1>9, <1>10, <1>11, SameLoops

LEMMA CallKeeps ==
  ASSUME Inv, status = "running", NEW function, NEW label, NEW locals,
         Fits(label, locals), Begins(function), Call(function, label, locals)
  PROVE  Inv'
<1>1. stack' = Callers \o <<Frame(label, locals, Top.from), Frame(function, <<>>, Len(input'))>>
  BY DEF Call
<1>2. UNCHANGED <<forIn, status>>
  BY DEF Call
<1> QED
  BY <1>1, <1>2, PushKeeps

(* It returns, and is no for statement.                                    *)
LEMMA ReturnKeeps ==
  ASSUME Inv, status = "running", Top.at \notin Entry \union ForLabels, NEW value,
         Return(value)
  PROVE  Inv'
<1> DEFINE n == Len(stack)
<1>1. IsSequence(stack') /\ Len(stack') = n - 1 /\ \A k \in 1..n - 1 : stack'[k] = stack[k]
  BY Running DEF Return
<1>2. n # 1
  BY Running DEF FrameOK
<1>3. ~Looping(stack, n) /\ ~Looping(stack', n)
  BY <1>1, Running DEF Looping
<1>4. ASSUME NEW k \in 1..n - 1
      PROVE  FrameOK(stack', k) /\ (Looping(stack', k) <=> Looping(stack, k))
  BY <1>1, <1>4, Running DEF FrameOK, Looping
<1>5. ASSUME NEW k \in Nat, k \notin 1..n - 1, k # n
      PROVE  ~Looping(stack', k) /\ ~Looping(stack, k)
  BY <1>1, <1>5, Running DEF Looping
<1>6. stack' # <<>>
  BY <1>1, <1>2, Running
<1>7. \A k \in Nat : Looping(stack', k) <=> Looping(stack, k)
  BY <1>3, <1>4, <1>5
<1>8. ASSUME NEW k \in Nat, Looping(stack, k) PROVE stack'[k].mem[1] = stack[k].mem[1]
  <2>1. k \in 1..n - 1
    BY <1>3, <1>5, <1>8
  <2> QED
    BY <1>1, <2>1
<1>9. UNCHANGED <<forIn, status>>
  BY DEF Return
<1> QED
  BY <1>1, <1>4, <1>6, <1>7, <1>8, <1>9, SameLoops

LEMMA ThrowKeeps ==
  ASSUME Inv, status = "running", Throw
  PROVE  Inv'
  BY DEF Throw, Inv, StackOK, FlagFollowsLoops, Loops, InLoop

-----------------------------------------------------------------------------
(* The parse functions.                                                    *)

(* The labels outside of ParseProgram and of loops.                        *)
Plain == Labels \ (Entry \union ForLabels)

(* Whatever a function does between plain labels keeps the invariant.      *)
LEMMA PlainSteps ==
  ASSUME Inv, status = "running", Top.at \in Plain
  PROVE  /\ \A label \in Plain : \A locals : Goto(label, locals) => Inv'
         /\ \A function \in Plain, label \in Plain :
              \A locals : Call(function, label, locals) => Inv'
         /\ \A value : Return(value) => Inv'
         /\ Throw => Inv'
<1>1. ASSUME NEW label \in Plain, NEW locals PROVE Fits(label, locals) /\ Begins(label)
  BY <1>1 DEF Fits, Begins, Plain
<1>2. Top.at \notin Entry \union ForLabels
  BY DEF Plain
<1> QED
  BY <1>1, <1>2, GotoKeeps, CallKeeps, ReturnKeeps, ThrowKeeps

LEMMA ExpressionSteps ==
  ASSUME Inv, Expressions
  PROVE  Inv'
<1>1. CASE ParseCommaExpression
  <2>1. {"Comma", "Assign", "Comma.next"} \subseteq Plain
    BY DEF Plain, Labels, Entry, ForLabels
  <2> QED
    BY <1>1, <2>1, PlainSteps DEF ParseCommaExpression, At
<1>2. CASE ParseAssignExpression
  <2>1. {"Assign", "Ternary", "Assign.left", "Assign.right"} \subseteq Plain
    BY DEF Plain, Labels, Entry, ForLabels
  <2> QED
    BY <1>2, <2>1, PlainSteps DEF ParseAssignExpression, At
<1>3. CASE ParseTernaryExpression
  <2>1. {"Ternary", "Binary", "Ternary.first", "Assign", "Ternary.second",
         "Ternary.third"} \subseteq Plain
    BY DEF Plain, Labels, Entry, ForLabels
  <2> QED
    BY <1>3, <2>1, PlainSteps DEF ParseTernaryExpression, At, EatAs, Eat
<1>4. CASE ParseBinaryExpression
  <2>1. {"Binary", "Unary", "Binary.left", "Rhs"} \subseteq Plain
    BY DEF Plain, Labels, Entry, ForLabels
  <2> QED
    BY <1>4, <2>1, PlainSteps DEF ParseBinaryExpression, At
<1>5. CASE ParseBinaryExpressionRhs
  <2>1. {"Rhs", "Unary", "Rhs.operand", "Rhs.merge"} \subseteq Plain
    BY DEF Plain, Labels, Entry, ForLabels
  <2>2. ASSUME At("Rhs.operand"), UNCHANGED <<forIn, status>>, NEW level, NEW lhs, NEW first,
               stack' = Callers \o <<Frame("Rhs.merge", mem, Top.from),
                                     Frame("Rhs", <<level, lhs>>, first)>>
        PROVE  Inv'
    <3>1. Fits("Rhs.merge", mem) /\ Begins("Rhs")
      BY <2>1, <2>2 DEF Fits, Begins, Plain, At
    <3> QED
      BY <2>2, <3>1, PushKeeps DEF At
  <2> QED
    BY <1>5, <2>1, <2>2, PlainSteps DEF ParseBinaryExpressionRhs, At
<1>6. CASE ParseUnaryExpression
  <2>1. {"Unary", "Unary.operand", "LeftHandSide", "Unary.postfix"} \subseteq Plain
    BY DEF Plain, Labels, Entry, ForLabels
  <2> QED
    BY <1>6, <2>1, PlainSteps DEF ParseUnaryExpression, At
<1>7. CASE ParseNewExpression
  <2>1. {"LeftHandSide", "New.target", "Member"} \subseteq Plain
    BY DEF Plain, Labels, Entry, ForLabels
  <2> QED
    BY <1>7, <2>1, PlainSteps DEF ParseNewExpression, At, Become
<1>8. CASE ParseMemberExpression
  <2>1. {"Member", "Primary", "Member.first", "Member.next", "Dot", "Assign",
         "Index", "Arguments"} \subseteq Plain
    BY DEF Plain, Labels, Entry, ForLabels
  <2> QED
    BY <1>8, <2>1, PlainSteps DEF ParseMemberExpression, At
<1>9. CASE ParseDotExpression
  <2>1. {"Dot", "Member.next"} \subseteq Plain
    BY DEF Plain, Labels, Entry, ForLabels
  <2> QED
    BY <1>9, <2>1, PlainSteps DEF ParseDotExpression, At
<1>10. CASE ParseIndexExpression
  <2>1. {"Index", "Member.next"} \subseteq Plain
    BY DEF Plain, Labels, Entry, ForLabels
  <2> QED
    BY <1>10, <2>1, PlainSteps DEF ParseIndexExpression, At, EatAs
<1>11. CASE ParseArgumentList
  <2>1. {"Arguments", "Member.next", "Assign", "Arguments.next"} \subseteq Plain
    BY DEF Plain, Labels, Entry, ForLabels
  <2> QED
    BY <1>11, <2>1, PlainSteps DEF ParseArgumentList, At, EatAs
<1>12. CASE ParsePrimary
  <2>1. {"Primary", "Comma", "Paren", "Array", "Object", "Function"} \subseteq Plain
    BY DEF Plain, Labels, Entry, ForLabels
  <2> QED
    BY <1>12, <2>1, PlainSteps DEF ParsePrimary, At, Become, EatAs
<1>13. CASE ParseArrayLiteral
  <2>1. {"Array", "Assign", "Array.next"} \subseteq Plain
    BY DEF Plain, Labels, Entry, ForLabels
  <2> QED
    BY <1>13, <2>1, PlainSteps DEF ParseArrayLiteral, At, EatAs, Eat
<1>14. CASE ParseObjectLiteral
  <2>1. {"Object", "Object.name", "Object.value", "Assign", "Object.assign",
         "Method", "Object.next"} \subseteq Plain
    BY DEF Plain, Labels, Entry, ForLabels
  <2> QED
    BY <1>14, <2>1, PlainSteps DEF ParseObjectLiteral, At, EatAs, Eat
<1>15. CASE ParseObjectMethod
  <2>1. {"Method", "Parameters", "Method.body", "Block", "Method.end"} \subseteq Plain
    BY DEF Plain, Labels, Entry, ForLabels
  <2> QED
    BY <1>15, <2>1, PlainSteps DEF ParseObjectMethod, At
<1> QED
  BY <1>1, <1>2, <1>3, <1>4, <1>5, <1>6, <1>7, <1>8,
     <1>9, <1>10, <1>11, <1>12, <1>13, <1>14, <1>15 DEF Expressions

(* The frames a step keeps are as they were.                               *)
LEMMA Below ==
  ASSUME Inv, NEW m \in 0..Len(stack), IsSequence(stack'), m <= Len(stack'),
         \A k \in 1..m : stack'[k] = stack[k]
  PROVE  \A k \in 1..m :
           /\ FrameOK(stack', k)
           /\ InLoop(k)' <=> InLoop(k)
           /\ InLoop(k)' => (stack[k].mem[1] = (\E j \in 1..k - 1 : InLoop(j)))'
<1> TAKE k \in 1..m
<1>1. Len(stack) \in Nat /\ k \in 1..Len(stack) /\ m \in Nat
  BY DEF Inv, StackOK, IsSequence
<1>2. FrameOK(stack', k) /\ (InLoop(k)' <=> InLoop(k))
  BY <1>1 DEF Inv, StackOK, FrameOK, InLoop
<1>3. ASSUME InLoop(k) PROVE (stack[k].mem[1] = (\E j \in 1..k - 1 : InLoop(j)))'
  <2>1. stack[k].mem[1] = (\E j \in 1..k - 1 : InLoop(j))
    BY <1>1, <1>3 DEF Inv, FlagFollowsLoops
  <2>2. ASSUME NEW j \in 1..k - 1 PROVE InLoop(j) <=> InLoop(j)'
    <3>1. j \in 1..m
      BY <1>1
    <3> QED
      BY <3>1 DEF InLoop
  <2> QED
    BY <2>1, <2>2
<1> QED
  BY <1>2, <1>3

(* Leaving the innermost for statement, at its end or by a SyntaxError.    *)
LEMMA LeaveLoop ==
  ASSUME Inv, status \in {"running", "throwing"}, UNCHANGED status,
         NEW k \in Loops, \A j \in Loops : j <= k,
         stack' = SubSeq(stack, 1, k - 1), forIn' = stack[k].mem[1]
  PROVE  Inv'
<1>1. IsSequence(stack) /\ Len(stack) \in Nat /\ k \in 1..Len(stack) /\ InLoop(k)
  BY DEF Inv, StackOK, IsSequence, Loops
<1>2. k # 1
  BY <1>1 DEF Inv, StackOK, InLoop, Entry, ForLabels
<1>3. k - 1 \in 0..Len(stack) /\ k - 1 \in Nat /\ k - 1 >= 1 /\ k - 1 <= k - 1
  BY <1>1, <1>2
<1>4. /\ IsSequence(stack') /\ Len(stack') = k - 1
      /\ \A i \in 1..k - 1 : stack'[i] = stack[i]
  BY <1>1, <1>3, Prefix
<1>5. \A i \in 1..k - 1 :
        /\ FrameOK(stack', i)
        /\ InLoop(i)' <=> InLoop(i)
        /\ InLoop(i)' => (stack[i].mem[1] = (\E j \in 1..i - 1 : InLoop(j)))'
  BY <1>3, <1>4, Below
<1>6. forIn' = (\E j \in 1..k - 1 : InLoop(j))
  BY <1>1 DEF Inv, FlagFollowsLoops
<1>7. forIn' = (Loops # {})'
  BY <1>4, <1>5, <1>6 DEF Loops
<1>8. FlagFollowsLoops'
  BY <1>4, <1>5, <1>7 DEF FlagFollowsLoops
<1>9. stack' # <<>>
  BY <1>3, <1>4
<1>10. StackOK'
  BY <1>4, <1>5, <1>6, <1>9 DEF StackOK, FrameOK
<1> QED
  BY <1>8, <1>10 DEF Inv

(* Entering one: the flag goes up, and the frame has its old value.        *)
LEMMA EnterLoop ==
  ASSUME Inv, status = "running", Top.at \in Plain, UNCHANGED status, NEW first,
         stack' = Append(Callers, Frame("For.init", <<forIn>>, first)), forIn' = TRUE
  PROVE  Inv'
<1> DEFINE f == Frame("For.init", <<forIn>>, first)
<1> PICK n \in Nat : n = Len(stack) /\ n >= 1
  BY Running
<1>1. /\ IsSequence(stack') /\ Len(stack') = n
      /\ \A k \in 1..n - 1 : stack'[k] = stack[k]
      /\ stack'[n] = f
  BY Running, OneMore
<1>2. f.at = "For.init" /\ f.mem = <<forIn>>
  BY DEF Frame
<1> HIDE DEF f
<1>3. n - 1 \in 0..n /\ n - 1 <= Len(stack') /\ n \in Nat /\ n >= 1
  BY <1>1, Running
<1>4. \A i \in 1..n - 1 :
        /\ FrameOK(stack', i)
        /\ InLoop(i)' <=> InLoop(i)
        /\ InLoop(i)' => (stack[i].mem[1] = (\E j \in 1..i - 1 : InLoop(j)))'
  BY <1>1, <1>3, Below
<1>5. InLoop(n)' /\ ~InLoop(n) /\ n # 1
  BY <1>1, <1>2, Running DEF InLoop, ForLabels, Plain, FrameOK
<1>6. IsSequence(<<forIn>>) /\ <<forIn>>[1] = forIn /\ <<forIn>> # <<>>
  <2>1. <<forIn>> \in Seq({forIn})
    OBVIOUS
  <2> QED
    BY <2>1, OwnElements
<1>7. FrameOK(stack', n)
  BY <1>1, <1>2, <1>5, <1>6 DEF FrameOK, Labels, Entry, ForLabels
<1>8. forIn = (\E j \in 1..n - 1 : InLoop(j))
  <2>1. forIn = (\E j \in 1..n : InLoop(j))
    BY DEF Inv, FlagFollowsLoops, Loops
  <2> QED
    BY <1>3, <1>5, <2>1
<1>9. stack'[n].mem[1] = (\E j \in 1..n - 1 : InLoop(j)')
  BY <1>1, <1>2, <1>4, <1>6, <1>8
<1>10. ASSUME NEW k \in 1..n, InLoop(k)'
       PROVE  (stack[k].mem[1] = (\E j \in 1..k - 1 : InLoop(j)))'
  <2>1. CASE k = n
    BY <1>9, <2>1
  <2>2. CASE k # n
    <3>1. k \in 1..n - 1
      BY <1>3, <2>2
    <3> QED
      BY <1>4, <1>10, <3>1
  <2> QED
    BY <2>1, <2>2
<1>11. (Loops # {})'
  BY <1>1, <1>3, <1>5 DEF Loops
<1>12. FlagFollowsLoops'
  BY <1>1, <1>10, <1>11 DEF FlagFollowsLoops
<1>13. ASSUME NEW k \in 1..n PROVE FrameOK(stack', k)
  <2>1. k = n \/ k \in 1..n - 1
    BY <1>3, <1>13
  <2> QED
    BY <1>4, <1>7, <2>1
<1>14. stack' # <<>>
  BY <1>1, <1>3
<1>15. StackOK'
  BY <1>1, <1>13, <1>14 DEF StackOK, FrameOK
<1> QED
  BY <1>12, <1>15 DEF Inv

(* Locals of a for statement that keep the flag to restore.                *)
Keeps(locals) == IsSequence(locals) /\ locals # <<>> /\ locals[1] = mem[1]

(* What a for statement does between its own labels.                       *)
LEMMA LoopSteps ==
  ASSUME Inv, status = "running", Top.at \in ForLabels
  PROVE  /\ Keeps(mem)
         /\ \A part : Keeps(Append(mem, part))
         /\ \A a, b, c : Keeps(<<mem[1], a, b, c>>)
         /\ \A label \in ForLabels : \A locals :
              Keeps(locals) /\ Goto(label, locals) => Inv'
         /\ \A function \in Plain, label \in ForLabels : \A locals :
              Keeps(locals) /\ Call(function, label, locals) => Inv'
         /\ Throw => Inv'
<1>1. IsSequence(mem) /\ mem # <<>>
  BY Running DEF FrameOK
<1>2. Len(mem) \in Nat /\ Len(mem) >= 1
  BY <1>1 DEF IsSequence
<1>3. ASSUME NEW part PROVE Keeps(Append(mem, part))
  <2>1. /\ IsSequence(Append(mem, part)) /\ Len(Append(mem, part)) = Len(mem) + 1
        /\ \A k \in 1..Len(mem) : Append(mem, part)[k] = mem[k]
    BY <1>1, OneMore
  <2>2. Append(mem, part)[1] = mem[1]
    BY <1>2, <2>1
  <2>3. Append(mem, part) # <<>>
    BY <1>2, <2>1
  <2> QED
    BY <2>1, <2>2, <2>3 DEF Keeps
<1>4. ASSUME NEW a, NEW b, NEW c PROVE Keeps(<<mem[1], a, b, c>>)
  <2>1. <<mem[1], a, b, c>> \in Seq({mem[1], a, b, c})
    OBVIOUS
  <2>2. <<mem[1], a, b, c>> # <<>> /\ <<mem[1], a, b, c>>[1] = mem[1]
    OBVIOUS
  <2> QED
    BY <2>1, <2>2, OwnElements DEF Keeps
<1>5. ASSUME NEW label \in ForLabels, NEW locals, Keeps(locals) PROVE Fits(label, locals)
  BY <1>5 DEF Fits, Keeps, Labels, Entry, ForLabels
<1>6. ASSUME NEW function \in Plain PROVE Begins(function)
  BY <1>6 DEF Begins, Plain
<1> QED
  BY <1>1, <1>3, <1>4, <1>5, <1>6, GotoKeeps, CallKeeps, ThrowKeeps DEF Keeps

LEMMA ForSteps ==
  ASSUME Inv, ParseForStatement
  PROVE  Inv'
<1>1. {"For", "For.open", "Statement", "Variable", "Comma", "Assign"} \subseteq Plain
  BY DEF Plain, Labels, Entry, ForLabels
<1>2. \A label \in ForLabels : label \notin Plain
  BY DEF Plain
<1>3. ASSUME NEW inexpr, Top.at \in ForLabels, status = "running", ParseForInStatement(inexpr)
      PROVE  Inv'
  BY <1>1, <1>3, LoopSteps DEF ParseForInStatement, EatAs, Eat, ForLabels
<1>4. ASSUME At("For") \/ At("For.open") PROVE Inv'
  <2>1. CASE At("For")
    BY <1>1, <2>1, PlainSteps DEF ParseForStatement, At, ForLabels
  <2>2. CASE At("For.open")
    BY <1>1, <2>2, PlainSteps, EnterLoop DEF ParseForStatement, At
  <2> QED
    BY <1>4, <2>1, <2>2
<1>5. ASSUME At("For.body") PROVE Inv'
  <2>1. stack' = Callers /\ forIn' = mem[1] /\ UNCHANGED status
    BY <1>5 DEF ParseForStatement, At, ReturnRestoring
  <2>2. Len(stack) \in Loops /\ \A j \in Loops : j <= Len(stack)
    BY <1>5, Running DEF Loops, InLoop, At, ForLabels
  <2> QED
    BY <1>5, <2>1, <2>2, LeaveLoop, Running DEF At, Callers
<1>6. ASSUME Top.at \in ForLabels \ {"For.body"}, status = "running" PROVE Inv'
  <2>1. ForLabels = {"For.init", "For.head", "For.in", "For.condition", "For.second",
                     "For.update", "For.third", "For.body"}
    BY DEF ForLabels
  <2>2. CASE Top.at = "For.init"
    BY <1>1, <1>6, <2>1, <2>2, LoopSteps DEF ParseForStatement, At
  <2>3. CASE Top.at = "For.head"
    BY <1>1, <1>3, <1>6, <2>1, <2>3, LoopSteps DEF ParseForStatement, At, EatAs, Eat
  <2>4. CASE Top.at = "For.in"
    BY <1>3, <1>6, <2>4 DEF ParseForStatement, At
  <2>5. CASE Top.at = "For.condition"
    BY <1>1, <1>6, <2>1, <2>5, LoopSteps DEF ParseForStatement, At
  <2>6. CASE Top.at = "For.second"
    BY <1>1, <1>6, <2>1, <2>6, LoopSteps DEF ParseForStatement, At, EatAs, Eat
  <2>7. CASE Top.at = "For.update"
    BY <1>1, <1>6, <2>1, <2>7, LoopSteps DEF ParseForStatement, At
  <2>8. CASE Top.at = "For.third"
    BY <1>1, <1>6, <2>1, <2>8, LoopSteps DEF ParseForStatement, At, EatAs, Eat
  <2> QED
    BY <1>6, <2>1, <2>2, <2>3, <2>4, <2>5, <2>6, <2>7, <2>8
<1> QED
  BY <1>4, <1>5, <1>6 DEF ParseForStatement, At, ForLabels

LEMMA StatementSteps ==
  ASSUME Inv, Statements
  PROVE  Inv'
<1>1. CASE ParseStatement
  <2>1. {"Statement", "Comma", "Expression.end"} \subseteq Plain
    BY DEF Plain, Labels, Entry, ForLabels
  <2>2. {"If", "For", "Function", "Block", "Return", "While", "Do", "Variable", "Switch",
         "Break", "Try", "Throw"} \subseteq Plain
    BY DEF Plain, Labels, Entry, ForLabels
  <2>3. ASSUME NEW t PROVE StatementOf(t) \in Plain \union {"Expression"}
    BY <2>2 DEF StatementOf
  <2> QED
    BY <1>1, <2>1, <2>3, PlainSteps DEF ParseStatement, At, Become, EatAs, Eat
<1>2. CASE ParseIfStatement
  <2>1. {"If", "If.open", "Comma", "If.close", "Statement", "If.body", "If.else"} \subseteq Plain
    BY DEF Plain, Labels, Entry, ForLabels
  <2> QED
    BY <1>2, <2>1, PlainSteps DEF ParseIfStatement, At, EatAs, Eat
<1>3. CASE ParseForStatement
  BY <1>3, ForSteps
<1>4. CASE ParseWhileStatement
  <2>1. {"While", "While.open", "Comma", "While.close", "Statement", "While.body"} \subseteq Plain
    BY DEF Plain, Labels, Entry, ForLabels
  <2> QED
    BY <1>4, <2>1, PlainSteps DEF ParseWhileStatement, At, EatAs, Eat
<1>5. CASE ParseDoWhileStatement
  <2>1. {"Do", "Statement", "Do.while", "Do.open", "Comma", "Do.close", "Do.end"} \subseteq Plain
    BY DEF Plain, Labels, Entry, ForLabels
  <2> QED
    BY <1>5, <2>1, PlainSteps DEF ParseDoWhileStatement, At, EatAs, Eat
<1>6. CASE ParseParameterList
  <2>1. {"Parameters", "Parameters.first", "Parameters.name", "Parameters.next"} \subseteq Plain
    BY DEF Plain, Labels, Entry, ForLabels
  <2> QED
    BY <1>6, <2>1, PlainSteps DEF ParseParameterList, At, EatAs, Eat
<1>7. CASE ParseFunctionStatement
  <2>1. {"Function", "Function.name", "Parameters", "Function.body", "Statement",
         "Function.end"} \subseteq Plain
    BY DEF Plain, Labels, Entry, ForLabels
  <2> QED
    BY <1>7, <2>1, PlainSteps DEF ParseFunctionStatement, At
<1>8. CASE ParseBlockStatement
  <2>1. {"Block", "Block.next", "Statement", "Block.statement"} \subseteq Plain
    BY DEF Plain, Labels, Entry, ForLabels
  <2> QED
    BY <1>8, <2>1, PlainSteps DEF ParseBlockStatement, Open, At
<1>9. CASE ParseReturnStatement
  <2>1. {"Return", "Return.value", "Comma", "Return.end"} \subseteq Plain
    BY DEF Plain, Labels, Entry, ForLabels
  <2> QED
    BY <1>9, <2>1, PlainSteps DEF ParseReturnStatement, At, EatAs, Eat
<1>10. CASE ParseDeclaration
  <2>1. {"Declaration", "Declaration.name", "Assign", "Declaration.value"} \subseteq Plain
    BY DEF Plain, Labels, Entry, ForLabels
  <2> QED
    BY <1>10, <2>1, PlainSteps DEF ParseDeclaration, At, EatAs, Eat
<1>11. CASE ParseVariableStatement
  <2>1. {"Variable", "Declaration", "Variable.next"} \subseteq Plain
    BY DEF Plain, Labels, Entry, ForLabels
  <2> QED
    BY <1>11, <2>1, PlainSteps DEF ParseVariableStatement, At, EatAs, Eat
<1>12. CASE ParseCaseBlock
  <2>1. {"Case", "Assign", "Case.first", "Case.do", "Case.colon", "Case.while",
         "Statement", "Case.statement"} \subseteq Plain
    BY DEF Plain, Labels, Entry, ForLabels
  <2> QED
    BY <1>12, <2>1, PlainSteps DEF ParseCaseBlock, At, EatAs, Eat
<1>13. CASE ParseDefaultClause
  <2>1. {"Default", "Default.colon", "Statement", "Default.while"} \subseteq Plain
    BY DEF Plain, Labels, Entry, ForLabels
  <2> QED
    BY <1>13, <2>1, PlainSteps DEF ParseDefaultClause, At, EatAs, Eat
<1>14. CASE ParseSwitchStatement
  <2>1. {"Switch", "Switch.open", "Assign", "Switch.close", "Switch.brace",
         "Switch.clause", "Case", "Switch.case", "Default", "Switch.default"} \subseteq Plain
    BY DEF Plain, Labels, Entry, ForLabels
  <2> QED
    BY <1>14, <2>1, PlainSteps DEF ParseSwitchStatement, At, EatAs, Eat
<1>15. CASE ParseBreakStatement
  <2>1. {"Break", "Break.label"} \subseteq Plain
    BY DEF Plain, Labels, Entry, ForLabels
  <2> QED
    BY <1>15, <2>1, PlainSteps DEF ParseBreakStatement, At
<1>16. CASE ParseTryCatchStatement
  <2>1. {"Try", "Block", "Try.catch", "Try.open", "Comma", "Try.close",
         "Try.handler", "Try.finally", "Try.end"} \subseteq Plain
    BY DEF Plain, Labels, Entry, ForLabels
  <2> QED
    BY <1>16, <2>1, PlainSteps DEF ParseTryCatchStatement, At, EatAs, Eat
<1>17. CASE ParseThrowStatement
  <2>1. {"Throw", "Comma", "Throw.end"} \subseteq Plain
    BY DEF Plain, Labels, Entry, ForLabels
  <2> QED
    BY <1>17, <2>1, PlainSteps DEF ParseThrowStatement, At
<1> QED
  BY <1>1, <1>2, <1>3, <1>4, <1>5, <1>6, <1>7, <1>8,
     <1>9, <1>10, <1>11, <1>12, <1>13, <1>14, <1>15, <1>16, <1>17 DEF Statements

-----------------------------------------------------------------------------
(* The rest of Next.                                                       *)

LEMMA ProgramSteps ==
  ASSUME Inv, ParseProgram
  PROVE  Inv'
<1>1. /\ status = "running" /\ Top.at \in Entry
      /\ \/ \E locals : Call("Statement", "Program.statement", locals)
         \/ \E locals : Goto("Program", locals)
         \/ stack' = Callers /\ status' = "done" /\ UNCHANGED forIn
  BY DEF ParseProgram, At, Entry
<1>2. ASSUME NEW locals, NEW label \in Entry PROVE Fits(label, locals)
  BY <1>1, <1>2 DEF Fits, Labels, Entry, ForLabels
<1>3. Begins("Statement") /\ {"Program", "Program.statement"} \subseteq Entry
  BY DEF Begins, Labels, Entry, ForLabels
<1>4. ASSUME stack' = Callers, status' = "done", UNCHANGED forIn PROVE Inv'
  <2>1. Len(stack) = 1
    BY <1>1, Running DEF FrameOK
  <2>2. Len(stack') = 0 /\ IsSequence(stack')
    BY <1>1, <1>4, <2>1, Running
  <2>3. stack' = <<>>
    BY <2>2 DEF IsSequence
  <2>4. Loops = {}
    BY <1>1, <2>1, Running DEF Loops, InLoop, Entry, ForLabels
  <2>5. (Loops = {})'
    BY <2>2 DEF Loops
  <2> QED
    BY <1>4, <2>2, <2>3, <2>4, <2>5 DEF Inv, StackOK, FlagFollowsLoops
<1> QED
  BY <1>1, <1>2, <1>3, <1>4, CallKeeps, GotoKeeps

(* Among the for statements in progress one is the innermost.              *)
LEMMA InnermostExists ==
  ASSUME Inv, Loops # {}
  PROVE  Innermost \in Loops /\ \A j \in Loops : j <= Innermost
<1> DEFINE Less == {pair \in Nat \X Nat : pair[1] < pair[2]}
<1>1. PICK n \in Nat : Loops \subseteq 1..n
  BY DEF Inv, StackOK, IsSequence, Loops
<1>2. \A k \in Loops : k \in Int /\ n - k \in Nat
  BY <1>1
<1> DEFINE Depths == {n - k : k \in Loops}
<1>3. Depths \subseteq Nat /\ Depths # {}
  BY <1>2
<1>4. \A j \in Loops : n - j \in Depths
  OBVIOUS
<1>5. \A d \in Depths : \E k \in Loops : d = n - k
  OBVIOUS
<1>6. IsWellFoundedOn(Less, Nat)
  BY NatLessThanWellFounded DEF OpToRel
<1> HIDE DEF Depths, Less
<1>7. PICK d \in Depths : \A e \in Depths : ~(<<e, d>> \in Less)
  BY <1>3, <1>6, WFMin
<1>8. ASSUME NEW e \in Depths PROVE d <= e
  <2>1. d \in Nat /\ e \in Nat /\ ~(<<e, d>> \in Less)
    BY <1>3, <1>7, <1>8
  <2>2. ~(e < d)
    BY <2>1 DEF Less
  <2> QED
    BY <2>1, <2>2
<1>9. PICK k \in Loops : d = n - k
  BY <1>5
<1>10. ASSUME NEW j \in Loops PROVE j <= k
  <2>1. d <= n - j
    BY <1>4, <1>8
  <2> QED
    BY <1>2, <1>9, <2>1
<1> QED
  BY <1>9, <1>10 DEF Innermost

LEMMA InvInit == Init => Inv
<1> SUFFICES ASSUME Init PROVE Inv
  OBVIOUS
<1>1. stack = <<Frame("Program", <<>>, 1)>> /\ forIn = FALSE /\ status = "running"
  BY DEF Init
<1>2. IsSequence(stack) /\ Len(stack) = 1 /\ stack[1].at = "Program"
  <2>1. stack \in Seq({Frame("Program", <<>>, 1)})
    BY <1>1
  <2> QED
    BY <1>1, <2>1, OwnElements DEF Frame
<1>3. StackOK
  <2>1. "Program" \in Labels /\ "Program" \in Entry /\ "Program" \notin ForLabels
    BY DEF Labels, Entry, ForLabels
  <2>2. stack # <<>> /\ \A k \in 1..Len(stack) : k = 1
    BY <1>2
  <2> QED
    BY <1>1, <1>2, <2>1, <2>2 DEF StackOK
<1>4. ASSUME NEW k \in 1..Len(stack) PROVE ~InLoop(k)
  BY <1>2, <1>4 DEF InLoop, ForLabels
<1> QED
  BY <1>1, <1>3, <1>4 DEF Inv, FlagFollowsLoops, Loops

LEMMA InvNext == Inv /\ [Next]_vars => Inv'
<1> SUFFICES ASSUME Inv, [Next]_vars PROVE Inv'
  OBVIOUS
<1>1. CASE ParseProgram
  BY <1>1, ProgramSteps
<1>2. CASE Expressions
  BY <1>2, ExpressionSteps
<1>3. CASE Statements
  BY <1>3, StatementSteps
<1>4. CASE UnwindLoop
  <2>1. /\ status = "throwing" /\ Loops # {} /\ UNCHANGED status
        /\ stack' = SubSeq(stack, 1, Innermost - 1) /\ forIn' = stack[Innermost].mem[1]
    BY <1>4 DEF UnwindLoop
  <2> QED
    BY <2>1, InnermostExists, LeaveLoop
<1>5. CASE UnwindRest
  <2>1. stack' = <<>> /\ status' = "error" /\ Loops = {} /\ UNCHANGED forIn
    BY <1>5 DEF UnwindRest
  <2>2. IsSequence(<<>>) /\ Len(<<>>) = 0
    <3>1. <<>> \in Seq({}) /\ Len(<<>>) = 0
      OBVIOUS
    <3> QED
      BY <3>1, OwnElements
  <2>3. (Loops = {})'
    BY <2>1, <2>2 DEF Loops
  <2> QED
    BY <2>1, <2>2, <2>3 DEF Inv, StackOK, FlagFollowsLoops
<1>6. CASE Finished \/ UNCHANGED vars
  BY <1>6 DEF Finished, vars, Inv, StackOK, FlagFollowsLoops, Loops, InLoop
<1> QED
  BY <1>1, <1>2, <1>3, <1>4, <1>5, <1>6 DEF Next, Step

(* ParserFlags says for-in exactly while a for statement is being parsed,  *)
(* whatever the text: nested loops, functions in loop bodies and a         *)
(* SyntaxError anywhere leave no flag behind (ForInLoopParsingEnvironment). *)
THEOREM FlagFollows == Spec => []FlagFollowsLoops
<1>1. Inv => FlagFollowsLoops
  BY DEF Inv
<1> QED
  BY InvInit, InvNext, <1>1, PTL DEF Spec

-----------------------------------------------------------------------------
(* Types.                                                                  *)

(* The tokens a text can deliver.                                          *)
Delivered(source) ==
  {"END_OF_FILE"} \union source.tokens \union {source.start[n] : n \in 1..Len(source.start)}

ReadOK ==
  /\ text \in Alphabets
  /\ input \in Seq(Delivered(text)) /\ input # <<>>
  /\ division \in Seq(BOOLEAN) /\ Len(division) = Len(input)
  /\ braces \subseteq 1..Len(input)

FromOK == \A k \in 1..Len(stack) : stack[k].from \in 1..Len(input)

Typed == Inv /\ ReadOK /\ FromOK

(* What a step does to the tokens that have been read.                     *)
Grows == ReadOK' /\ Len(input') \in Nat /\ Len(input') >= Len(input)

(* Every token delivered is one of the text.                               *)
LEMMA DeliverableTokens ==
  ASSUME ReadOK, NEW not_regex \in BOOLEAN
  PROVE  Deliverable(not_regex) \subseteq Delivered(text)
<1>1. text.start \in Seq(STRING) /\ Len(input) \in Nat /\ here = Len(input)
  BY AlphabetsAreTexts DEF ReadOK, here
<1>2. Len(text.start) \in Nat
  BY <1>1
<1>3. here < Len(text.start) => here + 1 \in 1..Len(text.start)
  BY <1>1, <1>2
<1> QED
  BY <1>3 DEF Deliverable, Delivered

LEMMA ReadingSteps ==
  ASSUME ReadOK
  PROVE  /\ Keep => Grows
         /\ advance(FALSE) => Grows
         /\ advance(TRUE) => Grows
         /\ Open => Grows
         /\ Throw => Grows
<1>1. input \in Seq(Delivered(text)) /\ Len(input) \in Nat /\ Len(input) >= 1
  BY DEF ReadOK
<1>2. ASSUME Keep PROVE Grows
  BY <1>1, <1>2 DEF Keep, reading, Grows, ReadOK
<1>3. ASSUME NEW not_regex \in BOOLEAN, NEW t \in Deliverable(not_regex),
             input' = Append(input, t), division' = Append(division, not_regex),
             braces' \subseteq braces \union {here}, UNCHANGED text
      PROVE  Grows
  <2>1. t \in Delivered(text)
    BY <1>3, DeliverableTokens
  <2>2. input' \in Seq(Delivered(text)) /\ Len(input') = Len(input) + 1
    BY <1>1, <1>3, <2>1
  <2>3. division' \in Seq(BOOLEAN) /\ Len(division') = Len(input')
    BY <1>3, <2>2 DEF ReadOK
  <2>4. braces' \subseteq 1..Len(input')
    BY <1>1, <1>3, <2>2 DEF ReadOK, here
  <2>5. input' # <<>>
    BY <1>1, <2>2
  <2> QED
    BY <1>1, <1>3, <2>2, <2>3, <2>4, <2>5 DEF Grows, ReadOK
<1> QED
  <2>1. FALSE \in BOOLEAN /\ TRUE \in BOOLEAN
    OBVIOUS
  <2>2. advance(FALSE) => Grows
    BY <1>3, <2>1 DEF advance
  <2>3. advance(TRUE) => Grows
    BY <1>3, <2>1 DEF advance
  <2>4. Open => Grows
    BY <1>3, <2>1 DEF Open
  <2> QED
    BY <1>2, <2>2, <2>3, <2>4 DEF Throw

(* Frames are those of the callers and new ones, whose calls began where   *)
(* the old top's did or begin at the current token.                        *)
LEMMA FrameSteps ==
  ASSUME Inv, ReadOK, FromOK, status = "running", Grows
  PROVE  /\ \A label, locals : Goto(label, locals) => FromOK'
         /\ \A function, label, locals : Call(function, label, locals) => FromOK'
         /\ \A value : Return(value) => FromOK'
         /\ \A value : ReturnRestoring(value) => FromOK'
         /\ Throw => FromOK'
         /\ \A label, locals : stack' = Append(Callers, Frame(label, locals, Top.from)) => FromOK'
         /\ \A label, locals, function, more :
              stack' = Callers \o <<Frame(label, locals, Top.from), Frame(function, more, here)>>
                => FromOK'
<1>1. /\ Len(input) \in Nat /\ Len(input) >= 1
      /\ Len(input') \in Nat /\ Len(input') >= Len(input)
  BY DEF ReadOK, Grows
<1>2. PICK n \in Nat : n = Len(stack) /\ n >= 1
  BY Running
<1>3. Top.from \in 1..Len(input')
  BY <1>1, <1>2, Running DEF FromOK
<1>4. \A k \in 1..n : stack[k].from \in 1..Len(input')
  BY <1>1, <1>2 DEF FromOK
<1>5. /\ IsSequence(Callers) /\ Len(Callers) = n - 1
      /\ \A k \in 1..n - 1 : Callers[k].from \in 1..Len(input')
  BY <1>2, <1>4, Running
<1>6. ASSUME stack' = Callers PROVE FromOK'
  BY <1>5, <1>6 DEF FromOK
<1>7. ASSUME NEW f, f.from = Top.from, stack' = Append(Callers, f) PROVE FromOK'
  <2>1. /\ Len(stack') = n
        /\ \A k \in 1..n - 1 : stack'[k].from \in 1..Len(input')
        /\ stack'[n].from \in 1..Len(input')
    BY <1>2, <1>3, <1>5, <1>7, OneMore
  <2>2. ASSUME NEW k \in 1..n PROVE stack'[k].from \in 1..Len(input')
    <3>1. k = n \/ k \in 1..n - 1
      BY <1>2, <2>2
    <3> QED
      BY <2>1, <3>1
  <2> QED
    BY <2>1, <2>2 DEF FromOK
<1>8. ASSUME NEW f, NEW g, f.from = Top.from, g.from \in 1..Len(input'),
             stack' = Callers \o <<f, g>>
      PROVE  FromOK'
  <2>1. IsSequence(Append(Callers, f)) /\ Len(Append(Callers, f)) = n
        /\ \A k \in 1..n - 1 : Append(Callers, f)[k] = Callers[k]
        /\ Append(Callers, f)[n] = f
    BY <1>2, <1>5, OneMore
  <2>2. stack' = Append(Append(Callers, f), g)
    BY <1>5, <1>8 DEF IsSequence
  <2>3. /\ Len(stack') = n + 1 /\ stack'[n + 1] = g
        /\ \A k \in 1..n : stack'[k] = Append(Callers, f)[k]
    BY <2>1, <2>2, OneMore
  <2>4. ASSUME NEW k \in 1..n + 1 PROVE stack'[k].from \in 1..Len(input')
    <3>1. k = n + 1 \/ k = n \/ k \in 1..n - 1
      BY <1>2, <2>4
    <3>2. k \in 1..n - 1 => stack'[k] = Callers[k]
      BY <1>2, <2>1, <2>3
    <3>3. stack'[n] = f
      BY <1>2, <2>1, <2>3
    <3> QED
      BY <1>3, <1>5, <1>8, <2>3, <3>1, <3>2, <3>3
  <2> QED
    BY <2>3, <2>4 DEF FromOK
<1>9. ASSUME NEW label, NEW locals, Goto(label, locals) PROVE FromOK'
  BY <1>7, <1>9 DEF Goto, Frame
<1>10. ASSUME NEW function, NEW label, NEW locals, Call(function, label, locals) PROVE FromOK'
  <2> DEFINE f == Frame(label, locals, Top.from)
             g == Frame(function, <<>>, Len(input'))
  <2>1. f.from = Top.from /\ g.from \in 1..Len(input')
    BY <1>1 DEF Frame
  <2>2. stack' = Callers \o <<f, g>>
    BY <1>10 DEF Call
  <2> HIDE DEF f, g
  <2> QED
    BY <1>8, <2>1, <2>2
<1>11. Throw => FromOK'
  BY <1>2, <1>4 DEF Throw, FromOK
<1>12. \A value : Return(value) \/ ReturnRestoring(value) => FromOK'
  BY <1>6 DEF Return, ReturnRestoring
<1>13. \A label, locals : Goto(label, locals) => FromOK'
  BY <1>9
<1>14. \A function, label, locals : Call(function, label, locals) => FromOK'
  BY <1>10
<1>15. \A label, locals : stack' = Append(Callers, Frame(label, locals, Top.from)) => FromOK'
  BY <1>7 DEF Frame
<1>16. ASSUME NEW label, NEW locals, NEW function, NEW more,
              stack' = Callers \o <<Frame(label, locals, Top.from), Frame(function, more, here)>>
       PROVE  FromOK'
  <2> DEFINE f == Frame(label, locals, Top.from)
             g == Frame(function, more, here)
  <2>1. f.from = Top.from /\ g.from \in 1..Len(input')
    BY <1>1 DEF Frame, here
  <2>2. stack' = Callers \o <<f, g>>
    BY <1>16
  <2> HIDE DEF f, g
  <2> QED
    BY <1>8, <2>1, <2>2
<1> QED
  BY <1>11, <1>12, <1>13, <1>14, <1>15, <1>16

-----------------------------------------------------------------------------
(* The parse functions.                                                    *)

(* A step of a running parse reads and moves as above.                     *)
Moves == Grows /\ FromOK'

LEMMA ExpressionsTyped ==
  ASSUME Inv, ReadOK, FromOK, Expressions
  PROVE  Moves
<1>1. CASE ParseCommaExpression
  BY <1>1, ReadingSteps, FrameSteps DEF Moves, ParseCommaExpression, At
<1>2. CASE ParseAssignExpression
  BY <1>2, ReadingSteps, FrameSteps DEF Moves, ParseAssignExpression, At
<1>3. CASE ParseTernaryExpression
  BY <1>3, ReadingSteps, FrameSteps DEF Moves, ParseTernaryExpression, At, EatAs, Eat
<1>4. CASE ParseBinaryExpression
  BY <1>4, ReadingSteps, FrameSteps DEF Moves, ParseBinaryExpression, At
<1>5. CASE ParseBinaryExpressionRhs
  BY <1>5, ReadingSteps, FrameSteps DEF Moves, ParseBinaryExpressionRhs, At
<1>6. CASE ParseUnaryExpression
  BY <1>6, ReadingSteps, FrameSteps DEF Moves, ParseUnaryExpression, At
<1>7. CASE ParseNewExpression
  BY <1>7, ReadingSteps, FrameSteps DEF Moves, ParseNewExpression, At, Become
<1>8. CASE ParseMemberExpression
  BY <1>8, ReadingSteps, FrameSteps DEF Moves, ParseMemberExpression, At
<1>9. CASE ParseDotExpression
  BY <1>9, ReadingSteps, FrameSteps DEF Moves, ParseDotExpression, At
<1>10. CASE ParseIndexExpression
  BY <1>10, ReadingSteps, FrameSteps DEF Moves, ParseIndexExpression, At, EatAs
<1>11. CASE ParseArgumentList
  BY <1>11, ReadingSteps, FrameSteps DEF Moves, ParseArgumentList, At, EatAs
<1>12. CASE ParsePrimary
  BY <1>12, ReadingSteps, FrameSteps DEF Moves, ParsePrimary, At, Become, EatAs
<1>13. CASE ParseArrayLiteral
  BY <1>13, ReadingSteps, FrameSteps DEF Moves, ParseArrayLiteral, At, EatAs, Eat
<1>14. CASE ParseObjectLiteral
  BY <1>14, ReadingSteps, FrameSteps DEF Moves, ParseObjectLiteral, At, EatAs, Eat
<1>15. CASE ParseObjectMethod
  BY <1>15, ReadingSteps, FrameSteps DEF Moves, ParseObjectMethod, At
<1> QED
  BY <1>1, <1>2, <1>3, <1>4, <1>5, <1>6, <1>7, <1>8,
     <1>9, <1>10, <1>11, <1>12, <1>13, <1>14, <1>15 DEF Expressions

LEMMA StatementsTyped ==
  ASSUME Inv, ReadOK, FromOK, Statements
  PROVE  Moves
<1>1. CASE ParseStatement
  BY <1>1, ReadingSteps, FrameSteps DEF Moves, ParseStatement, At, Become, EatAs, Eat
<1>2. CASE ParseIfStatement
  BY <1>2, ReadingSteps, FrameSteps DEF Moves, ParseIfStatement, At, EatAs, Eat
<1>3. CASE ParseForStatement
  BY <1>3, ReadingSteps, FrameSteps
     DEF Moves, ParseForStatement, At, EatAs, Eat, ParseForInStatement
<1>4. CASE ParseWhileStatement
  BY <1>4, ReadingSteps, FrameSteps DEF Moves, ParseWhileStatement, At, EatAs, Eat
<1>5. CASE ParseDoWhileStatement
  BY <1>5, ReadingSteps, FrameSteps DEF Moves, ParseDoWhileStatement, At, EatAs, Eat
<1>6. CASE ParseParameterList
  BY <1>6, ReadingSteps, FrameSteps DEF Moves, ParseParameterList, At, EatAs, Eat
<1>7. CASE ParseFunctionStatement
  BY <1>7, ReadingSteps, FrameSteps DEF Moves, ParseFunctionStatement, At
<1>8. CASE ParseBlockStatement
  BY <1>8, ReadingSteps, FrameSteps DEF Moves, ParseBlockStatement, At, Open
<1>9. CASE ParseReturnStatement
  BY <1>9, ReadingSteps, FrameSteps DEF Moves, ParseReturnStatement, At, EatAs, Eat
<1>10. CASE ParseDeclaration
  BY <1>10, ReadingSteps, FrameSteps DEF Moves, ParseDeclaration, At, EatAs, Eat
<1>11. CASE ParseVariableStatement
  BY <1>11, ReadingSteps, FrameSteps DEF Moves, ParseVariableStatement, At, EatAs, Eat
<1>12. CASE ParseCaseBlock
  BY <1>12, ReadingSteps, FrameSteps DEF Moves, ParseCaseBlock, At, EatAs, Eat
<1>13. CASE ParseDefaultClause
  BY <1>13, ReadingSteps, FrameSteps DEF Moves, ParseDefaultClause, At, EatAs, Eat
<1>14. CASE ParseSwitchStatement
  BY <1>14, ReadingSteps, FrameSteps DEF Moves, ParseSwitchStatement, At, EatAs, Eat
<1>15. CASE ParseBreakStatement
  BY <1>15, ReadingSteps, FrameSteps DEF Moves, ParseBreakStatement, At
<1>16. CASE ParseTryCatchStatement
  BY <1>16, ReadingSteps, FrameSteps DEF Moves, ParseTryCatchStatement, At, EatAs, Eat
<1>17. CASE ParseThrowStatement
  BY <1>17, ReadingSteps, FrameSteps DEF Moves, ParseThrowStatement, At
<1> QED
  BY <1>1, <1>2, <1>3, <1>4, <1>5, <1>6, <1>7, <1>8, <1>9,
     <1>10, <1>11, <1>12, <1>13, <1>14, <1>15, <1>16, <1>17 DEF Statements

-----------------------------------------------------------------------------
(* All of Next.                                                            *)

LEMMA TypedNext ==
  ASSUME Typed, [Next]_vars
  PROVE  (ReadOK /\ FromOK)'
<1>1. Inv /\ ReadOK /\ FromOK /\ Inv'
  BY InvNext DEF Typed
<1>2. CASE Expressions
  BY <1>1, <1>2, ExpressionsTyped DEF Moves, Grows
<1>3. CASE Statements
  BY <1>1, <1>3, StatementsTyped DEF Moves, Grows
<1>4. CASE ParseProgram
  <2>1. status = "running" /\ Grows
    BY <1>1, <1>4, ReadingSteps DEF ParseProgram, At
  <2>2. \/ \E locals : Call("Statement", "Program.statement", locals)
        \/ \E locals : Goto("Program", locals)
        \/ stack' = Callers
    BY <1>4 DEF ParseProgram
  <2>3. stack' = Callers => FromOK'
    <3>1. stack' = Callers => \A k \in 1..Len(stack') : stack'[k] = stack[k] /\ k \in 1..Len(stack)
      BY <1>1, <2>1, Running
    <3> QED
      BY <1>1, <2>1, <3>1 DEF FromOK, Grows, ReadOK
  <2> QED
    BY <1>1, <2>1, <2>2, <2>3, FrameSteps DEF Grows
<1>5. CASE UnwindLoop
  <2>1. Grows /\ Loops # {} /\ stack' = SubSeq(stack, 1, Innermost - 1)
    BY <1>1, <1>5, ReadingSteps DEF UnwindLoop
  <2>2. Innermost \in 1..Len(stack) /\ Len(stack) \in Nat /\ IsSequence(stack)
    <3>1. Innermost \in Loops
      BY <1>1, <2>1, InnermostExists
    <3>2. Loops \subseteq 1..Len(stack)
      BY DEF Loops
    <3> QED
      BY <1>1, <3>1, <3>2 DEF Inv, StackOK, IsSequence
  <2>3. Innermost - 1 \in 0..Len(stack)
    BY <2>2
  <2>4. \A k \in 1..Len(stack') : stack'[k] = stack[k] /\ k \in 1..Len(stack)
    BY <2>1, <2>2, <2>3, Prefix
  <2>5. ReadOK' /\ 1..Len(input) \subseteq 1..Len(input')
    BY <1>1, <2>1 DEF Grows, ReadOK
  <2> QED
    BY <1>1, <2>4, <2>5 DEF FromOK
<1>6. CASE UnwindRest
  <2>1. Grows /\ stack' = <<>>
    BY <1>1, <1>6, ReadingSteps DEF UnwindRest
  <2>2. Len(stack') = 0
    BY <2>1
  <2> QED
    BY <2>1, <2>2 DEF FromOK, Grows
<1>7. CASE Finished \/ UNCHANGED vars
  BY <1>1, <1>7 DEF Finished, vars, reading, ReadOK, FromOK
<1> QED
  BY <1>2, <1>3, <1>4, <1>5, <1>6, <1>7 DEF Next, Step

LEMMA TypedInit == Init => Typed
<1> SUFFICES ASSUME Init PROVE Typed
  OBVIOUS
<1>1. text \in Alphabets /\ text.start \in Seq(STRING)
  BY AlphabetsAreTexts DEF Init
<1>2. PICK t \in {"END_OF_FILE"} \union
                   IF text.start = <<>> THEN text.tokens ELSE {text.start[1]} : input = <<t>>
  BY DEF Init
<1>3. text.start # <<>> => 1 \in 1..Len(text.start)
  BY <1>1
<1>4. t \in Delivered(text)
  BY <1>2, <1>3 DEF Delivered
<1>5. input \in Seq(Delivered(text)) /\ input # <<>> /\ Len(input) = 1
  BY <1>2, <1>4
<1>6. division \in Seq(BOOLEAN) /\ Len(division) = 1 /\ braces = {}
  BY DEF Init
<1>7. stack = <<Frame("Program", <<>>, 1)>>
  BY DEF Init
<1>8. FromOK
  BY <1>5, <1>7 DEF FromOK, Frame
<1> QED
  BY InvInit, <1>1, <1>5, <1>6, <1>8 DEF Typed, ReadOK

(* Tokens are those of the text, read in one mode each; calls are at known *)
(* labels and began at a token that was read; the stack empties exactly    *)
(* when the parse has ended, whether by a tree or by a SyntaxError.        *)
THEOREM ParserTypes == Spec => []TypeOK
<1>1. Typed /\ [Next]_vars => Typed'
  BY TypedNext, InvNext DEF Typed
<1>2. Typed => TypeOK
  <2> SUFFICES ASSUME Typed PROVE TypeOK
    OBVIOUS
  <2>1. /\ input \in Seq(Delivered(text)) /\ input # <<>>
        /\ division \in Seq(BOOLEAN) /\ Len(division) = Len(input)
        /\ braces \subseteq 1..Len(input)
    BY DEF Typed, ReadOK
  <2>2. \A i \in 1..Len(input) : input[i] \in Delivered(text)
    BY <2>1
  <2>3. \A i \in 1..Len(input) : input[i] = "END_OF_FILE" \/ input[i] \in text.tokens
                                    \/ \E n \in 1..Len(text.start) : input[i] = text.start[n]
    BY <2>2 DEF Delivered
  <2>4. division \in [1..Len(input) -> BOOLEAN]
    BY <2>1
  <2>5. \A k \in 1..Len(stack) : stack[k].at \in Labels /\ stack[k].from \in 1..Len(input)
    BY DEF Typed, Inv, StackOK, FromOK
  <2>6. /\ forIn \in BOOLEAN /\ status \in {"running", "throwing", "done", "error"}
        /\ stack = <<>> <=> status \in {"done", "error"}
    BY DEF Typed, Inv, StackOK
  <2> QED
    BY <2>1, <2>3, <2>4, <2>5, <2>6 DEF TypeOK
<1> QED
  BY TypedInit, <1>1, <1>2, PTL DEF Spec

-----------------------------------------------------------------------------
(* Brackets.                                                               *)

(* Brackets, and the tokens a label leaves open.                           *)
BracketTypes == {"LPAREN", "RPAREN", "LBRACK", "RBRACK", "LBRACE", "RBRACE"}

ParenLabels ==
  {"Arguments", "Arguments.next", "Paren", "If.close", "While.close", "Do.close", "For.init",
   "For.head", "For.in", "For.condition", "For.second", "For.update", "For.third",
   "Parameters.first", "Parameters.name", "Parameters.next", "Switch.close", "Try.close"}

BrackLabels == {"Index", "Array", "Array.next"}

BraceLabels ==
  {"Object", "Object.name", "Object.value", "Object.assign", "Object.next", "Block.next",
   "Block.statement", "Switch.clause", "Switch.case", "Switch.default"}

(* The bracket a call has open at a label.                                 *)
Holds(label) ==
  IF label \in ParenLabels THEN "LPAREN"
  ELSE IF label \in BrackLabels THEN "LBRACK"
  ELSE IF label \in BraceLabels THEN "LBRACE"
  ELSE "none"

(* One more open bracket, or none.                                         *)
Push(s, t) == IF t = "none" THEN s ELSE Append(s, t)

(* Where functions begin that take their first token unseen.               *)
Starts ==
  {"If", "For", "While", "Do", "Function", "Return", "Variable", "Break", "Try", "Throw",
   "Switch", "Case", "Default"}

(* ParseBinaryExpressionRhs, whose first local is the level it goes on at. *)
RhsLabels == {"Rhs", "Rhs.operand", "Rhs.merge"}

LevelOK(locals) ==
  IsSequence(locals) /\ locals # <<>> /\ locals[1] \in Int /\ locals[1] >= 1

(* What the token i is to the parser's brackets: what a block takes for    *)
(* its brace counts as one.                                                *)
Bracket(i) == IF i \in braces THEN "LBRACE" ELSE TypeOf(input[i])

(* A scan of the first n tokens that meets no bracket out of place.        *)
ScansTo(open, n) ==
  /\ open \in [0..n -> Seq(Opening)]
  /\ open[0] = <<>>
  /\ \A i \in 1..n : open[i] = Nest(open[i - 1], Bracket(i))

(* What is open where a call begins is what was open where its caller      *)
(* did and what the caller holds; nothing else.                            *)
Nesting(open) ==
  /\ ScansTo(open, here - 1)
  /\ stack[1].from = 1
  /\ \A k \in 1..Len(stack) - 1 :
       open[stack[k + 1].from - 1] = Push(open[stack[k].from - 1], Holds(stack[k].at))
  /\ open[here - 1] = Push(open[Top.from - 1], Holds(Top.at))

(* What the labels of the stack say of their tokens and locals: no token   *)
(* a function takes unseen is a bracket.                                   *)
Settled ==
  /\ braces \subseteq 1..here - 1
  /\ \A k \in 1..Len(stack) - 1 : stack[k].at \notin Starts
  /\ Top.at \in Starts => peek \notin BracketTypes
  /\ \A k \in 1..Len(stack) : stack[k].at \in RhsLabels => LevelOK(stack[k].mem)

(* The invariant: the tokens read nest, and the calls in progress tell     *)
(* which brackets are open.                                                *)
Balanced ==
  /\ status = "running" => Settled /\ \E open : Nesting(open)
  /\ status = "done" => \E open : ScansTo(open, here) /\ open[here] = <<>>

(* Reading the token t at a label that has x open leads to one with y.     *)
Turns(t, x, y) ==
  \/ t \in Opening /\ x = "none" /\ y = t
  \/ x \in Opening /\ t \in BracketTypes /\ Partner(t) = x /\ y = "none"
  \/ t \notin BracketTypes /\ y = x

(* The scan `wide` goes on where `open` has stopped, over the tokens of a  *)
(* step that leaves its call with y open.                                  *)
ReadTo(open, wide, y) ==
  /\ ScansTo(wide, here - 1)'
  /\ \A i \in 0..here - 1 : wide[i] = open[i]
  /\ wide[here' - 1] = Push(open[Top.from - 1], y)
  /\ (braces \subseteq 1..here - 1)'
  /\ here' \in Nat /\ here' >= here

(* The last of a sequence taken off again.                                 *)
LEMMA Unnest ==
  ASSUME NEW base \in Seq(Opening), NEW t \in Opening
  PROVE  /\ Append(base, t) # <<>> /\ Len(Append(base, t)) - 1 = Len(base)
         /\ Append(base, t)[Len(Append(base, t))] = t
         /\ SubSeq(Append(base, t), 1, Len(Append(base, t)) - 1) = base
<1> DEFINE s == Append(base, t)
<1>1. s \in Seq(Opening) /\ Len(s) = Len(base) + 1 /\ Len(base) \in Nat
  OBVIOUS
<1>2. \A i \in 1..Len(base) : s[i] = base[i]
  OBVIOUS
<1>3. s[Len(s)] = t /\ s # <<>>
  BY <1>1
<1>4. Len(s) - 1 = Len(base)
  BY <1>1
<1>5. Len(base) \in 0..Len(s)
  BY <1>1
<1>6. IsSequence(s)
  BY <1>1, OwnElements
<1> HIDE DEF s
<1>7. /\ IsSequence(SubSeq(s, 1, Len(base))) /\ Len(SubSeq(s, 1, Len(base))) = Len(base)
      /\ \A k \in 1..Len(base) : SubSeq(s, 1, Len(base))[k] = s[k]
  BY <1>5, <1>6, Prefix
<1>8. SubSeq(s, 1, Len(base)) = base
  <2> DEFINE r == SubSeq(s, 1, Len(base))
  <2>1. \E S : r \in Seq(S)
    BY <1>7 DEF IsSequence
  <2>2. Len(r) = Len(base) /\ \A k \in 1..Len(base) : r[k] = base[k]
    BY <1>2, <1>7
  <2> HIDE DEF r
  <2>3. PICK S : r \in Seq(S)
    BY <2>1
  <2>4. r \in [1..Len(base) -> S] /\ base \in [1..Len(base) -> Opening]
    BY <2>2, <2>3
  <2>5. r = base
    BY <2>2, <2>4
  <2> QED
    BY <2>5 DEF r
<1> QED
  BY <1>3, <1>4, <1>8 DEF s

(* A token a label may read, on the open brackets.                         *)
LEMMA NestTurns ==
  ASSUME NEW base \in Seq(Opening), NEW x \in Opening \union {"none"},
         NEW t, NEW y, Turns(t, x, y)
  PROVE  /\ y \in Opening \union {"none"}
         /\ Nest(Push(base, x), t) = Push(base, y)
         /\ Push(base, y) \in Seq(Opening)
<1>1. "none" \notin Opening /\ Opening \subseteq BracketTypes
  BY DEF Opening, BracketTypes
<1>2. y \in Opening \union {"none"}
  BY DEF Turns
<1>3. Push(base, y) \in Seq(Opening)
  BY <1>2 DEF Push
<1>4. CASE t \in Opening /\ x = "none" /\ y = t
  BY <1>1, <1>4 DEF Nest, Push
<1>5. CASE x \in Opening /\ t \in BracketTypes /\ Partner(t) = x /\ y = "none"
  <2>1. Partner(t) # "none" /\ t \notin Opening
    BY <1>1, <1>5 DEF Partner, Opening
  <2>2. Push(base, x) = Append(base, x) /\ Push(base, y) = base
    BY <1>1, <1>5 DEF Push
  <2> QED
    BY <1>5, <2>1, <2>2, Unnest DEF Nest
<1>6. CASE t \notin BracketTypes /\ y = x
  <2>1. Partner(t) = "none" /\ t \notin Opening
    BY <1>1, <1>6 DEF Partner, BracketTypes
  <2> QED
    BY <1>2, <1>3, <1>6, <2>1 DEF Nest
<1> QED
  BY <1>2, <1>3, <1>4, <1>5, <1>6 DEF Turns

(* Reading one token, whose bracket is t.                                  *)
LEMMA ReadsOne ==
  ASSUME Typed, status = "running", Settled, NEW open, Nesting(open),
         NEW next, NEW t, NEW y, Turns(t, Holds(Top.at), y), NEW n, n = here,
         input' = Append(input, next), Bracket(n)' = t,
         braces' \in {braces, braces \union {here}}
  PROVE  \E wide : ReadTo(open, wide, y)
<1>0. n \in Nat /\ n >= 1
  BY DEF Typed, ReadOK, here
<1>1. here' = n + 1 /\ \A i \in 1..n : input'[i] = input[i]
  BY DEF Typed, ReadOK, here
<1>2. ASSUME NEW i \in 1..n - 1 PROVE Bracket(i)' = Bracket(i)
  <2>1. i \in 1..n /\ i # here
    BY <1>0
  <2>2. i \in braces' <=> i \in braces
    BY <2>1
  <2> QED
    BY <1>1, <2>1, <2>2 DEF Bracket, TypeOf
<1>3. (braces \subseteq 1..here - 1)'
  <2>1. braces \subseteq 1..n - 1 /\ here' - 1 = n
    BY <1>0, <1>1 DEF Settled
  <2> QED
    BY <1>0, <2>1
<1> PICK base, x : base = open[Top.from - 1] /\ x = Holds(Top.at)
  OBVIOUS
<1>4. base \in Seq(Opening) /\ open[n - 1] = Push(base, x)
  <2>1. Top.from - 1 \in 0..n - 1
    <3>1. Top.from \in 1..n
      BY Running DEF Typed, FromOK, here
    <3> QED
      BY <1>0, <3>1
  <2> QED
    BY <2>1 DEF Nesting, ScansTo
<1>5. x \in Opening \union {"none"}
  BY DEF Holds, Opening
<1> DEFINE wide == [i \in 0..n |-> IF i = n THEN Push(base, y) ELSE open[i]]
<1>6. Nest(open[n - 1], t) = Push(base, y) /\ Push(base, y) \in Seq(Opening)
  BY <1>4, <1>5, NestTurns
<1>7. \A i \in 0..n - 1 : wide[i] = open[i] /\ i # n /\ i \in 0..n
  BY <1>0
<1>8. wide[n] = Push(base, y) /\ wide \in [0..n -> Seq(Opening)]
  BY <1>0, <1>6 DEF Nesting, ScansTo
<1> HIDE DEF wide
<1>9. ASSUME NEW i \in 1..n PROVE wide[i] = Nest(wide[i - 1], Bracket(i)')
  <2>1. i - 1 \in 0..n - 1
    BY <1>0
  <2>2. wide[i - 1] = open[i - 1]
    BY <1>7, <2>1
  <2>3. CASE i = n
    BY <1>6, <1>8, <2>2, <2>3
  <2>4. CASE i # n
    <3>1. i \in 1..n - 1 /\ i \in 0..n - 1
      BY <1>0, <2>4
    <3>2. open[i] = Nest(open[i - 1], Bracket(i))
      BY <3>1 DEF Nesting, ScansTo
    <3> QED
      BY <1>2, <1>7, <2>2, <3>1, <3>2
  <2> QED
    BY <2>3, <2>4
<1>10. wide[0] = <<>>
  <2>1. 0 \in 0..n - 1
    BY <1>0
  <2> QED
    BY <1>7, <2>1 DEF Nesting, ScansTo
<1>11. here' - 1 = n /\ here' \in Nat /\ here' >= here
  BY <1>0, <1>1
<1>12. ScansTo(wide, here - 1)'
  BY <1>8, <1>9, <1>10, <1>11 DEF ScansTo
<1>13. ReadTo(open, wide, y)
  BY <1>3, <1>7, <1>8, <1>11, <1>12 DEF ReadTo
<1> QED
  BY <1>13

(* What a step does with the token there is.                               *)
Reading(y) ==
  \/ Keep /\ y = Holds(Top.at)
  \/ (advance(TRUE) \/ advance(FALSE)) /\ Turns(peek, Holds(Top.at), y)

(* A step's tokens extend the scan.                                        *)
LEMMA ReadingNests ==
  ASSUME Typed, status = "running", Settled, NEW open, Nesting(open), NEW y, Reading(y)
  PROVE  \E wide : ReadTo(open, wide, y)
<1>0. here \in Nat /\ here >= 1 /\ here \notin braces
  BY DEF Settled, Typed, ReadOK, here
<1>1. CASE Keep /\ y = Holds(Top.at)
  <2>1. here' = here /\ braces' = braces /\ input' = input
    BY <1>1 DEF Keep, reading, here
  <2>2. \A i : Bracket(i)' = Bracket(i)
    BY <2>1 DEF Bracket, TypeOf
  <2>3. ScansTo(open, here - 1)'
    BY <2>1, <2>2 DEF ScansTo, Nesting
  <2>4. ReadTo(open, open, y)
    BY <1>0, <1>1, <2>1, <2>3 DEF ReadTo, Nesting, Settled
  <2> QED
    BY <2>4
<1>2. ASSUME advance(TRUE) \/ advance(FALSE), Turns(peek, Holds(Top.at), y)
      PROVE  \E wide : ReadTo(open, wide, y)
  <2>1. PICK next : input' = Append(input, next) /\ braces' = braces
    BY <1>2 DEF advance
  <2>2. PICK n \in Nat : n = here /\ n >= 1
    BY <1>0
  <2>3. Bracket(n)' = peek
    <3>1. input'[n] = input[n]
      BY <2>1, <2>2 DEF Typed, ReadOK, here
    <3> QED
      BY <1>0, <2>1, <2>2, <3>1 DEF Bracket, TypeOf, peek
  <2> QED
    BY <1>2, <2>1, <2>2, <2>3, ReadsOne
<1> QED
  BY <1>1, <1>2 DEF Reading

(* The scan up to the beginning of each call stays as it was.              *)
LEMMA Beginnings ==
  ASSUME Typed, status = "running", Settled, NEW open, Nesting(open), NEW wide, NEW y,
         ReadTo(open, wide, y)
  PROVE  \A k \in 1..Len(stack) : wide[stack[k].from - 1] = open[stack[k].from - 1]
<1> TAKE k \in 1..Len(stack)
<1>1. stack[k].from \in 1..here /\ here \in Nat
  BY DEF Typed, FromOK, ReadOK, here
<1>2. stack[k].from - 1 \in 0..here - 1
  BY <1>1
<1> QED
  BY <1>2 DEF ReadTo

(* The innermost call goes on,                                             *)
LEMMA GotoNests ==
  ASSUME Typed, status = "running", Settled, NEW open, Nesting(open), NEW wide, NEW y,
         ReadTo(open, wide, y), NEW label, NEW locals, Holds(label) = y,
         stack' = Append(Callers, Frame(label, locals, Top.from))
  PROVE  Nesting(wide)'
<1> PICK n \in Nat : n = Len(stack) /\ n >= 1
  BY Running DEF Typed
<1>0. \A k \in 1..n : wide[stack[k].from - 1] = open[stack[k].from - 1]
  BY Beginnings
<1> DEFINE f == Frame(label, locals, Top.from)
<1>1. /\ Len(stack') = n
      /\ \A k \in 1..n - 1 : stack'[k] = stack[k]
      /\ stack'[n] = f
  BY Running, OneMore DEF Typed
<1>2. f.at = label /\ f.from = stack[n].from
  BY Running DEF Frame, Typed
<1> HIDE DEF f
<1>3. \A k \in 1..n : stack'[k].from = stack[k].from
  <2> TAKE k \in 1..n
  <2>1. k = n \/ k \in 1..n - 1
    OBVIOUS
  <2> QED
    BY <1>1, <1>2, <2>1
<1>4. stack'[1].from = 1
  BY <1>3 DEF Nesting
<1>5. ASSUME NEW k \in 1..n - 1
      PROVE  wide[stack'[k + 1].from - 1] = Push(wide[stack'[k].from - 1], Holds(stack'[k].at))
  <2>1. k \in 1..n /\ k + 1 \in 1..n /\ stack'[k] = stack[k]
    BY <1>1
  <2>2. open[stack[k + 1].from - 1] = Push(open[stack[k].from - 1], Holds(stack[k].at))
    BY DEF Nesting
  <2>3. wide[stack'[k + 1].from - 1] = open[stack[k + 1].from - 1]
    BY <1>0, <1>3, <2>1
  <2>4. wide[stack'[k].from - 1] = open[stack[k].from - 1]
    BY <1>0, <1>3, <2>1
  <2> QED
    BY <2>1, <2>2, <2>3, <2>4
<1>6. wide[here' - 1] = Push(wide[Top'.from - 1], Holds(Top'.at))
  <2>1. Top' = f /\ Top = stack[n]
    BY <1>1 DEF Top
  <2>2. wide[Top.from - 1] = open[Top.from - 1]
    BY <1>0, <2>1
  <2> QED
    BY <1>2, <2>1, <2>2 DEF ReadTo
<1>7. ScansTo(wide, here - 1)'
  BY DEF ReadTo
<1> QED
  BY <1>1, <1>4, <1>5, <1>6, <1>7 DEF Nesting

(* Two frames instead of the innermost one.                                *)
LEMMA Pushed ==
  ASSUME Inv, status = "running", NEW f, NEW g, stack' = Callers \o <<f, g>>
  PROVE  /\ IsSequence(stack') /\ Len(stack') = Len(stack) + 1
         /\ \A k \in 1..Len(stack) - 1 : stack'[k] = stack[k]
         /\ stack'[Len(stack)] = f /\ stack'[Len(stack) + 1] = g
<1> PICK n \in Nat : n = Len(stack) /\ n >= 1
  BY Running
<1> DEFINE s == Append(Callers, f)
<1>1. /\ IsSequence(s) /\ Len(s) = n
      /\ \A k \in 1..n - 1 : s[k] = stack[k]
      /\ s[n] = f
  BY Running, OneMore
<1>2. stack' = Append(s, g)
  BY Running DEF IsSequence
<1> HIDE DEF s
<1>3. /\ IsSequence(stack') /\ Len(stack') = n + 1
      /\ \A k \in 1..n : stack'[k] = s[k]
      /\ stack'[n + 1] = g
  <2>1. /\ IsSequence(Append(s, g)) /\ Len(Append(s, g)) = Len(s) + 1
        /\ \A k \in 1..Len(s) : Append(s, g)[k] = s[k]
        /\ Append(s, g)[Len(s) + 1] = g
    BY <1>1, OneMore
  <2> QED
    BY <1>1, <1>2, <2>1
<1>4. ASSUME NEW k \in 1..n - 1 PROVE stack'[k] = stack[k]
  <2>1. k \in 1..n
    OBVIOUS
  <2>2. stack'[k] = s[k]
    BY <1>3, <2>1
  <2>3. s[k] = stack[k]
    BY <1>1
  <2> QED
    BY <2>2, <2>3
<1>5. stack'[n] = f
  BY <1>1, <1>3
<1> QED
  BY <1>3, <1>4, <1>5

(* calls another function,                                                 *)
LEMMA CallNests ==
  ASSUME Typed, status = "running", Settled, NEW open, Nesting(open), NEW wide, NEW y,
         ReadTo(open, wide, y), NEW label, NEW locals, Holds(label) = y,
         NEW function, NEW more, Holds(function) = "none",
         stack' = Callers \o <<Frame(label, locals, Top.from), Frame(function, more, here')>>
  PROVE  Nesting(wide)'
<1> PICK n \in Nat : n = Len(stack) /\ n >= 1
  BY Running DEF Typed
<1>0. \A k \in 1..n : wide[stack[k].from - 1] = open[stack[k].from - 1]
  BY Beginnings
<1> PICK last : last = here'
  OBVIOUS
<1> DEFINE f == Frame(label, locals, Top.from)
           g == Frame(function, more, last)
<1>1. /\ Len(stack') = n + 1
      /\ \A k \in 1..n - 1 : stack'[k] = stack[k]
      /\ stack'[n] = f /\ stack'[n + 1] = g
  BY Pushed DEF Typed
<1>2. /\ f.at = label /\ f.from = stack[n].from
      /\ g.at = function /\ g.from = last
  BY Running DEF Frame, Typed
<1> HIDE DEF f, g
<1>3. \A k \in 1..n : stack'[k].from = stack[k].from
  <2> TAKE k \in 1..n
  <2>1. k = n \/ k \in 1..n - 1
    OBVIOUS
  <2> QED
    BY <1>1, <1>2, <2>1
<1>4. stack'[1].from = 1
  BY <1>3 DEF Nesting
<1>5. ASSUME NEW k \in 1..n
      PROVE  wide[stack'[k + 1].from - 1] = Push(wide[stack'[k].from - 1], Holds(stack'[k].at))
  <2>1. CASE k = n
    <3>1. wide[last - 1] = Push(open[stack[n].from - 1], y)
      BY Running DEF ReadTo, Typed
    <3>2. wide[stack[n].from - 1] = open[stack[n].from - 1]
      BY <1>0
    <3> QED
      BY <1>1, <1>2, <2>1, <3>1, <3>2
  <2>2. CASE k # n
    <3>1. k \in 1..n /\ k + 1 \in 1..n /\ k \in 1..n - 1
      BY <2>2
    <3>2. open[stack[k + 1].from - 1] = Push(open[stack[k].from - 1], Holds(stack[k].at))
      BY <3>1 DEF Nesting
    <3>3. wide[stack'[k + 1].from - 1] = open[stack[k + 1].from - 1]
      BY <1>0, <1>3, <3>1
    <3>4. wide[stack'[k].from - 1] = open[stack[k].from - 1]
      BY <1>0, <1>3, <3>1
    <3> QED
      BY <1>1, <3>1, <3>2, <3>3, <3>4
  <2> QED
    BY <2>1, <2>2
<1>6. wide[here' - 1] = Push(wide[Top'.from - 1], Holds(Top'.at))
  <2>1. Top' = g
    BY <1>1 DEF Top
  <2> QED
    BY <1>2, <2>1 DEF Push
<1>7. ScansTo(wide, here - 1)'
  BY DEF ReadTo
<1> QED
  BY <1>1, <1>4, <1>5, <1>6, <1>7 DEF Nesting

(* or returns with its own brackets closed.                                *)
LEMMA ReturnNests ==
  ASSUME Typed, status = "running", Settled, NEW open, Nesting(open), NEW wide,
         ReadTo(open, wide, "none"), Top.at \notin Entry, stack' = Callers
  PROVE  Nesting(wide)'
<1> PICK n \in Nat : n = Len(stack) /\ n >= 1
  BY Running DEF Typed
<1>0. \A k \in 1..n : wide[stack[k].from - 1] = open[stack[k].from - 1]
  BY Beginnings
<1>1. Len(stack') = n - 1 /\ \A k \in 1..n - 1 : stack'[k] = stack[k]
  BY Running DEF Typed
<1>2. n # 1
  BY Running DEF Typed, FrameOK
<1>3. stack'[1].from = 1
  BY <1>1, <1>2 DEF Nesting
<1>4. ASSUME NEW k \in 1..n - 1 - 1
      PROVE  wide[stack'[k + 1].from - 1] = Push(wide[stack'[k].from - 1], Holds(stack'[k].at))
  <2>1. k \in 1..n - 1 /\ k + 1 \in 1..n - 1 /\ k \in 1..n /\ k + 1 \in 1..n
    OBVIOUS
  <2>2. open[stack[k + 1].from - 1] = Push(open[stack[k].from - 1], Holds(stack[k].at))
    BY <2>1 DEF Nesting
  <2>3. wide[stack[k + 1].from - 1] = open[stack[k + 1].from - 1]
    BY <1>0, <2>1
  <2>4. wide[stack[k].from - 1] = open[stack[k].from - 1]
    BY <1>0, <2>1
  <2> QED
    BY <1>1, <2>1, <2>2, <2>3, <2>4
<1>5. wide[here' - 1] = Push(wide[Top'.from - 1], Holds(Top'.at))
  <2>1. Top' = stack[n - 1] /\ Top = stack[n] /\ n - 1 \in 1..n - 1 /\ n - 1 + 1 = n
    BY <1>1, <1>2 DEF Top
  <2>2. open[stack[n].from - 1] = Push(open[stack[n - 1].from - 1], Holds(stack[n - 1].at))
    BY <2>1 DEF Nesting
  <2>3. wide[here' - 1] = open[stack[n].from - 1]
    BY <2>1 DEF ReadTo, Push
  <2>4. wide[stack[n - 1].from - 1] = open[stack[n - 1].from - 1]
    BY <1>0, <2>1
  <2> QED
    BY <2>1, <2>2, <2>3, <2>4
<1>6. ScansTo(wide, here - 1)'
  BY DEF ReadTo
<1> QED
  BY <1>1, <1>3, <1>4, <1>5, <1>6 DEF Nesting

-----------------------------------------------------------------------------

(* A frame that may be put on the stack with a step, and one that may be   *)
(* its top.                                                                *)
LocalsFit(label, locals) == label \in RhsLabels => LevelOK(locals)

MayStart(label) == label \in Starts => Keep /\ peek \notin BracketTypes

(* The innermost call goes on: the whole invariant.                        *)
LEMMA ReplacedBalanced ==
  ASSUME Typed, status = "running", Settled, UNCHANGED status, NEW open, Nesting(open),
         NEW label, NEW locals, LocalsFit(label, locals), MayStart(label),
         NEW wide, ReadTo(open, wide, Holds(label)),
         stack' = Append(Callers, Frame(label, locals, Top.from))
  PROVE  Balanced'
<1> PICK n \in Nat : n = Len(stack) /\ n >= 1
  BY Running DEF Typed
<1>4. Nesting(wide)'
  BY GotoNests
<1> DEFINE f == Frame(label, locals, Top.from)
<1>5. /\ Len(stack') = n
      /\ \A k \in 1..n - 1 : stack'[k] = stack[k] /\ k \in 1..n
      /\ stack'[n] = f
  BY Running, OneMore DEF Typed
<1>6. f.at = label /\ f.mem = locals
  BY DEF Frame
<1> HIDE DEF f
<1>7. \A k \in 1..n - 1 : stack'[k].at \notin Starts
  BY <1>5 DEF Settled
<1>8. ASSUME NEW k \in 1..n, stack'[k].at \in RhsLabels PROVE LevelOK(stack'[k].mem)
  <2>1. k = n \/ k \in 1..n - 1
    OBVIOUS
  <2> QED
    BY <1>5, <1>6, <1>8, <2>1 DEF Settled, LocalsFit
<1>9. Top'.at \in Starts => (peek \notin BracketTypes)'
  <2>1. Top'.at = label
    BY <1>5, <1>6 DEF Top
  <2>2. Keep => peek' = peek
    BY DEF Keep, reading, peek, here, TypeOf
  <2> QED
    BY <2>1, <2>2 DEF MayStart
<1>10. Settled'
  BY <1>5, <1>7, <1>8, <1>9 DEF Settled, ReadTo
<1> QED
  BY <1>4, <1>10 DEF Balanced

LEMMA GotoBalanced ==
  ASSUME Typed, status = "running", Balanced, NEW label, NEW locals, UNCHANGED status,
         LocalsFit(label, locals), MayStart(label), Reading(Holds(label)),
         stack' = Append(Callers, Frame(label, locals, Top.from))
  PROVE  Balanced'
<1>1. Settled
  BY DEF Balanced
<1>2. PICK open : Nesting(open)
  BY DEF Balanced
<1>3. PICK wide : ReadTo(open, wide, Holds(label))
  BY <1>1, <1>2, ReadingNests
<1> QED
  BY <1>1, <1>2, <1>3, ReplacedBalanced

(* The same for a call and a return.                                       *)
LEMMA CallBalanced ==
  ASSUME Typed, status = "running", Balanced, NEW label, NEW locals, NEW function, NEW more,
         UNCHANGED status, LocalsFit(label, locals), label \notin Starts,
         LocalsFit(function, more), MayStart(function), Holds(function) = "none",
         Reading(Holds(label)),
         stack' = Callers \o <<Frame(label, locals, Top.from), Frame(function, more, here')>>
  PROVE  Balanced'
<1> PICK n \in Nat : n = Len(stack) /\ n >= 1
  BY Running DEF Typed
<1>1. Settled
  BY DEF Balanced
<1>2. PICK open : Nesting(open)
  BY DEF Balanced
<1>3. PICK wide : ReadTo(open, wide, Holds(label))
  BY <1>1, <1>2, ReadingNests
<1>4. Nesting(wide)'
  BY <1>1, <1>2, <1>3, CallNests
<1> PICK last : last = here'
  OBVIOUS
<1> DEFINE f == Frame(label, locals, Top.from)
           g == Frame(function, more, last)
<1>5. /\ Len(stack') = n + 1
      /\ \A k \in 1..n - 1 : stack'[k] = stack[k]
      /\ stack'[n] = f /\ stack'[n + 1] = g
  BY Pushed DEF Typed
<1>6. f.at = label /\ f.mem = locals /\ g.at = function /\ g.mem = more
  BY DEF Frame
<1> HIDE DEF f, g
<1>7. ASSUME NEW k \in 1..n PROVE stack'[k].at \notin Starts
  <2>1. k = n \/ (k \in 1..n - 1 /\ k \in 1..n)
    OBVIOUS
  <2> QED
    BY <1>1, <1>5, <1>6, <2>1 DEF Settled
<1>8. ASSUME NEW k \in 1..n + 1, stack'[k].at \in RhsLabels PROVE LevelOK(stack'[k].mem)
  <2>1. k = n + 1 \/ k = n \/ (k \in 1..n - 1 /\ k \in 1..n)
    OBVIOUS
  <2> QED
    BY <1>1, <1>5, <1>6, <1>8, <2>1 DEF Settled, LocalsFit
<1>9. Top'.at \in Starts => (peek \notin BracketTypes)'
  <2>1. Top'.at = function
    BY <1>5, <1>6 DEF Top
  <2>2. Keep => peek' = peek
    BY DEF Keep, reading, peek, here, TypeOf
  <2> QED
    BY <2>1, <2>2 DEF MayStart
<1>10. Settled'
  <2>1. n + 1 - 1 = n
    OBVIOUS
  <2>2. \A k \in 1..Len(stack') - 1 : stack'[k].at \notin Starts
    BY <1>5, <1>7, <2>1
  <2>3. \A k \in 1..Len(stack') : stack'[k].at \in RhsLabels => LevelOK(stack'[k].mem)
    BY <1>5, <1>8
  <2> QED
    BY <1>3, <1>5, <1>9, <2>2, <2>3 DEF Settled, ReadTo
<1> QED
  BY <1>4, <1>10 DEF Balanced

LEMMA ReturnBalanced ==
  ASSUME Typed, status = "running", Balanced, UNCHANGED status, Reading("none"),
         Top.at \notin Entry, stack' = Callers
  PROVE  Balanced'
<1> PICK n \in Nat : n = Len(stack) /\ n >= 1
  BY Running DEF Typed
<1>1. Settled
  BY DEF Balanced
<1>2. PICK open : Nesting(open)
  BY DEF Balanced
<1>3. PICK wide : ReadTo(open, wide, "none")
  BY <1>1, <1>2, ReadingNests
<1>4. Nesting(wide)'
  BY <1>1, <1>2, <1>3, ReturnNests
<1>5. Len(stack') = n - 1 /\ \A k \in 1..n - 1 : stack'[k] = stack[k] /\ k \in 1..n
  BY Running DEF Typed
<1>6. n # 1
  BY Running DEF Typed, FrameOK
<1>7. \A k \in 1..n - 1 : stack'[k].at \notin Starts
  BY <1>1, <1>5 DEF Settled
<1>8. \A k \in 1..n - 1 : stack'[k].at \in RhsLabels => LevelOK(stack'[k].mem)
  BY <1>1, <1>5 DEF Settled
<1>9. Top'.at \notin Starts
  <2>1. n - 1 \in 1..n - 1
    BY <1>6
  <2> QED
    BY <1>5, <1>7, <2>1 DEF Top
<1>10. \A k \in 1..n - 1 - 1 : k \in 1..n - 1
  OBVIOUS
<1>11. Settled'
  BY <1>3, <1>5, <1>7, <1>8, <1>9, <1>10 DEF Settled, ReadTo
<1> QED
  BY <1>4, <1>11 DEF Balanced

(* Whatever a function does, with what its label has open.                 *)
LEMMA BalancedSteps ==
  ASSUME Typed, status = "running", Balanced
  PROVE  /\ \A label, locals :
              Goto(label, locals) /\ LocalsFit(label, locals) /\ MayStart(label)
              /\ Reading(Holds(label)) => Balanced'
         /\ \A function, label, locals :
              Call(function, label, locals) /\ LocalsFit(label, locals) /\ label \notin Starts
              /\ function \notin RhsLabels /\ MayStart(function) /\ Holds(function) = "none"
              /\ Reading(Holds(label)) => Balanced'
         /\ \A value : Return(value) /\ Top.at \notin Entry /\ Reading("none") => Balanced'
         /\ \A value : ReturnRestoring(value) /\ Top.at \notin Entry /\ Reading("none")
              => Balanced'
         /\ Throw => Balanced'
         /\ Top.at \in Starts => peek \notin BracketTypes
         /\ Top.at \in RhsLabels => LevelOK(mem)
<1>1. ASSUME NEW label, NEW locals, Goto(label, locals), LocalsFit(label, locals),
             MayStart(label), Reading(Holds(label))
      PROVE  Balanced'
  BY <1>1, GotoBalanced DEF Goto
<1>2. ASSUME NEW function, NEW label, NEW locals, Call(function, label, locals),
             LocalsFit(label, locals), label \notin Starts, function \notin RhsLabels,
             MayStart(function), Holds(function) = "none", Reading(Holds(label))
      PROVE  Balanced'
  <2>1. stack' = Callers \o <<Frame(label, locals, Top.from), Frame(function, <<>>, here')>>
    BY <1>2 DEF Call, here
  <2>2. LocalsFit(function, <<>>) /\ UNCHANGED status
    BY <1>2 DEF Call, LocalsFit
  <2> QED
    BY <1>2, <2>1, <2>2, CallBalanced
<1>3. ASSUME NEW value, Return(value) \/ ReturnRestoring(value), Top.at \notin Entry,
             Reading("none")
      PROVE  Balanced'
  BY <1>3, ReturnBalanced DEF Return, ReturnRestoring
<1>4. Throw => Balanced'
  BY DEF Throw, Balanced
<1>5. Top.at \in Starts => peek \notin BracketTypes
  BY DEF Balanced, Settled
<1>6. Top.at \in RhsLabels => LevelOK(mem)
  BY Running DEF Balanced, Settled, Typed
<1> QED
  BY <1>1, <1>2, <1>3, <1>4, <1>5, <1>6

(* Tokens with a level are operators.                                      *)
LEMMA LevelOf ==
  ASSUME NEW t
  PROVE  /\ Precedence(t) \in Int /\ Precedence(t) >= 0
         /\ Precedence(t) >= 1 => t \notin BracketTypes
<1>1. ASSUME NEW p \in 1..13, t \in Levels[p] PROVE t \notin BracketTypes
  BY <1>1 DEF Levels, AssignTypes, BracketTypes
<1>2. CASE \E p \in 1..13 : t \in Levels[p]
  <2>1. Precedence(t) \in 1..13
    BY <1>2 DEF Precedence
  <2> QED
    BY <1>1, <1>2, <2>1
<1>3. CASE ~\E p \in 1..13 : t \in Levels[p]
  BY <1>3 DEF Precedence
<1> QED
  BY <1>2, <1>3

(* Levels are numbers from 1 up.                                           *)
LEMMA LevelsKept ==
  /\ \A level, value : level \in Int /\ level >= 1 => LevelOK(<<level, value>>)
  /\ \A locals, value : LevelOK(locals) => LevelOK(Append(locals, value))
<1>1. ASSUME NEW level, NEW value, level \in Int, level >= 1 PROVE LevelOK(<<level, value>>)
  <2>1. <<level, value>> \in Seq({level, value})
    OBVIOUS
  <2>2. <<level, value>> # <<>> /\ <<level, value>>[1] = level
    OBVIOUS
  <2> QED
    BY <1>1, <2>1, <2>2, OwnElements DEF LevelOK
<1>2. ASSUME NEW locals, NEW value, LevelOK(locals) PROVE LevelOK(Append(locals, value))
  <2>1. Len(locals) \in Nat /\ Len(locals) >= 1
    BY <1>2 DEF LevelOK, IsSequence
  <2>2. /\ IsSequence(Append(locals, value))
        /\ Len(Append(locals, value)) = Len(locals) + 1
        /\ \A k \in 1..Len(locals) : Append(locals, value)[k] = locals[k]
    BY <1>2, OneMore DEF LevelOK
  <2>3. Append(locals, value) # <<>> /\ Append(locals, value)[1] = locals[1]
    BY <2>1, <2>2
  <2> QED
    BY <1>2, <2>2, <2>3 DEF LevelOK
<1> QED
  BY <1>1, <1>2

(* Binary expressions: what they take for operators are no brackets.       *)
LEMMA LevelsBalanced ==
  ASSUME Typed, Balanced, ParseBinaryExpression \/ ParseBinaryExpressionRhs
  PROVE  Balanced'
<1> USE DEF LocalsFit, MayStart, Reading
<1>1. /\ \A label \in {"Binary", "Binary.left", "Unary"} :
           label \notin Starts \union RhsLabels \union Entry
      /\ \A label \in {"Rhs", "Rhs.operand", "Rhs.merge"} :
           label \in RhsLabels /\ label \notin Starts \union Entry
      /\ \A label \in {"Binary", "Binary.left", "Unary", "Rhs", "Rhs.operand", "Rhs.merge"} :
           Holds(label) = "none"
  BY DEF Starts, RhsLabels, Entry, Holds, ParenLabels, BrackLabels, BraceLabels
<1>2. CASE ParseBinaryExpression
  <2>1. 3 \in Int /\ 3 >= 1
    OBVIOUS
  <2> QED
    BY <1>1, <1>2, <2>1, BalancedSteps, LevelsKept DEF ParseBinaryExpression, At
<1>3. ASSUME At("Rhs"), ParseBinaryExpressionRhs PROVE Balanced'
  <2>1. mem[1] \in Int /\ mem[1] >= 1 /\ LevelOK(mem)
    BY <1>1, <1>3, BalancedSteps DEF At, LevelOK
  <2>2. Precedence(peek) >= mem[1] => Turns(peek, "none", "none")
    <3>1. Precedence(peek) \in Int /\ (Precedence(peek) >= 1 => peek \notin BracketTypes)
      BY LevelOf
    <3>2. Precedence(peek) >= mem[1] => Precedence(peek) >= 1
      BY <2>1, <3>1
    <3> QED
      BY <3>1, <3>2 DEF Turns
  <2>3. LevelOK(Append(mem, peek))
    BY <2>1, LevelsKept
  <2> QED
    BY <1>1, <1>3, <2>2, <2>3, BalancedSteps DEF ParseBinaryExpressionRhs, At
<1>4. ASSUME Top.at \in {"Rhs.operand", "Rhs.merge"}, status = "running",
             ParseBinaryExpressionRhs
      PROVE  Balanced'
  <2>1. mem[1] \in Int /\ mem[1] >= 1 /\ LevelOK(mem)
    BY <1>1, <1>4, BalancedSteps DEF LevelOK
  <2>2. \A value : LevelOK(<<mem[1], value>>)
    BY <2>1, LevelsKept
  <2>3. ASSUME NEW value, Keep, Goto("Rhs", <<mem[1], value>>) PROVE Balanced'
    BY <1>1, <1>4, <2>2, <2>3, BalancedSteps
  <2>4. ASSUME Keep, UNCHANGED status,
               stack' = Callers \o << Frame("Rhs.merge", mem, Top.from),
                                      Frame("Rhs", <<Precedence(mem[3]) + 1, ret>>, here) >>
        PROVE  Balanced'
    <3>1. LevelOK(<<Precedence(mem[3]) + 1, ret>>)
      <4>1. Precedence(mem[3]) + 1 \in Int /\ Precedence(mem[3]) + 1 >= 1
        BY LevelOf
      <4> QED
        BY <4>1, LevelsKept
    <3>2. here' = here
      BY <2>4 DEF Keep, reading, here
    <3> QED
      BY <1>1, <1>4, <2>1, <2>4, <3>1, <3>2, CallBalanced
  <2> QED
    BY <1>1, <1>4, <2>3, <2>4 DEF ParseBinaryExpressionRhs, At
<1> QED
  BY <1>2, <1>3, <1>4 DEF ParseBinaryExpressionRhs, At

(* A block takes its first token for a brace.                              *)
LEMMA BlockBalanced ==
  ASSUME Typed, Balanced, ParseBlockStatement
  PROVE  Balanced'
<1>1. /\ \A label \in {"Block", "Block.next", "Block.statement", "Statement"} :
           label \notin Starts \union RhsLabels \union Entry
      /\ Holds("Block") = "none" /\ Holds("Block.next") = "LBRACE"
      /\ Holds("Block.statement") = "LBRACE" /\ Holds("Statement") = "none"
  BY DEF Starts, RhsLabels, Entry, Holds, ParenLabels, BrackLabels, BraceLabels
<1>2. CASE At("Block")
  <2> PICK n \in Nat : n = Len(stack) /\ n >= 1
    BY <1>2, Running DEF Typed, At
  <2> PICK m \in Nat : m = here /\ m >= 1
    BY DEF Typed, ReadOK, here
  <2>1. Settled /\ status = "running" /\ Top.at = "Block"
    BY <1>2 DEF Balanced, At
  <2>2. PICK open : Nesting(open)
    BY <2>1 DEF Balanced
  <2>3. Open
    BY <1>1, <1>2 DEF ParseBlockStatement, At
  <2>4. PICK next : input' = Append(input, next)
    BY <2>3 DEF Open
  <2>5. braces' = braces \union {m} /\ Bracket(m)' = "LBRACE"
    BY <2>3 DEF Open, Bracket
  <2>6. Turns("LBRACE", Holds(Top.at), "LBRACE")
    BY <1>1, <2>1 DEF Turns, Opening
  <2>7. PICK wide : ReadTo(open, wide, "LBRACE")
    BY <2>1, <2>2, <2>4, <2>5, <2>6, ReadsOne
  <2>8. stack' = Append(Callers, Frame("Block.next", <<>>, Top.from)) /\ UNCHANGED status
    BY <2>3 DEF Open, Goto
  <2>9. ReadTo(open, wide, Holds("Block.next"))
    BY <1>1, <2>7
  <2> QED
    BY <1>1, <2>1, <2>2, <2>8, <2>9, ReplacedBalanced DEF LocalsFit, MayStart
<1>3. CASE Top.at \in {"Block.next", "Block.statement"} /\ status = "running"
  <2>1. Turns("RBRACE", "LBRACE", "none")
    BY DEF Turns, BracketTypes, Opening, Partner
  <2> QED
    BY <1>1, <1>3, <2>1, BalancedSteps DEF ParseBlockStatement, At, LocalsFit, MayStart, Reading
<1> QED
  BY <1>2, <1>3 DEF ParseBlockStatement, At

(* A for statement holds its parenthesis until its body.                   *)
LEMMA ForBalanced ==
  ASSUME Typed, Balanced, ParseForStatement
  PROVE  Balanced'
<1> USE DEF LocalsFit, MayStart, Reading
<1>1. /\ \A label \in {"For.open", "Statement", "Comma", "Assign"} :
           label \notin Starts \union RhsLabels \union Entry /\ Holds(label) = "none"
      /\ \A label \in {"For", "Variable"} :
           label \in Starts /\ label \notin RhsLabels \union Entry /\ Holds(label) = "none"
      /\ \A label \in {"For.init", "For.head", "For.in", "For.condition", "For.second",
                       "For.update", "For.third"} :
           label \notin Starts \union RhsLabels \union Entry /\ Holds(label) = "LPAREN"
      /\ "For.body" \notin Starts \union RhsLabels \union Entry /\ Holds("For.body") = "none"
  BY DEF Starts, RhsLabels, Entry, ForLabels, Holds, ParenLabels, BrackLabels, BraceLabels
<1>2. /\ \A t : t \notin BracketTypes => Turns(t, "none", "none")
      /\ Turns("LPAREN", "none", "LPAREN") /\ Turns("RPAREN", "LPAREN", "none")
      /\ Turns("SEMICOLON", "LPAREN", "LPAREN") /\ Turns("IN", "LPAREN", "LPAREN")
      /\ \A t \in DeclaratorTypes : t \notin BracketTypes
  BY DEF Turns, BracketTypes, Opening, Partner, DeclaratorTypes
<1>3. CASE At("For")
  BY <1>1, <1>2, <1>3, BalancedSteps DEF ParseForStatement, At
<1>4. CASE At("For.open")
  <2>1. CASE peek = "LPAREN"
    BY <1>1, <1>2, <1>4, <2>1, GotoBalanced DEF ParseForStatement, At
  <2>2. CASE peek # "LPAREN"
    BY <1>4, <2>2, BalancedSteps DEF ParseForStatement, At
  <2> QED
    BY <2>1, <2>2
<1>5. ASSUME NEW inexpr, Top.at \in {"For.head", "For.in"}, status = "running",
             ParseForInStatement(inexpr)
      PROVE  Balanced'
  BY <1>1, <1>2, <1>5, BalancedSteps DEF ParseForInStatement, EatAs, Eat
<1>6. CASE At("For.init")
  <2>1. \/ /\ peek \in DeclaratorTypes
           /\ Keep /\ Call("Variable", "For.head", mem)
        \/ /\ peek = "SEMICOLON"
           /\ advance(FALSE) /\ Goto("For.condition", Append(mem, Undefined))
        \/ Keep /\ Call("Comma", "For.head", mem)
    BY <1>6 DEF ParseForStatement, At
  <2> QED
    BY <1>1, <1>2, <1>6, <2>1, BalancedSteps DEF At
<1>7. CASE At("For.head")
  <2>1. \/ /\ peek = "IN"
           /\ advance(FALSE) /\ Call("Assign", "For.in", Append(mem, ret))
        \/ ParseForInStatement(ret)
        \/ Keep /\ Goto("For.condition", Append(mem, ret))
        \/ Eat("SEMICOLON", Goto("For.condition", Append(mem, ret)))
    BY <1>7 DEF ParseForStatement, At
  <2>2. CASE peek = "IN" /\ advance(FALSE) /\ Call("Assign", "For.in", Append(mem, ret))
    BY <1>1, <1>2, <1>7, <2>2, BalancedSteps DEF At
  <2>3. CASE ParseForInStatement(ret)
    BY <1>5, <1>7, <2>3 DEF At
  <2>4. CASE Keep /\ Goto("For.condition", Append(mem, ret))
    BY <1>1, <1>7, <2>4, BalancedSteps DEF At
  <2>5. CASE Eat("SEMICOLON", Goto("For.condition", Append(mem, ret)))
    BY <1>1, <1>2, <1>7, <2>5, BalancedSteps DEF At, EatAs, Eat
  <2> QED
    BY <2>1, <2>2, <2>3, <2>4, <2>5
<1>8. CASE At("For.in")
  BY <1>5, <1>8 DEF ParseForStatement, At
<1>9. CASE At("For.condition")
  BY <1>1, <1>2, <1>9, BalancedSteps DEF ParseForStatement, At
<1>10. CASE At("For.second")
  BY <1>1, <1>2, <1>10, BalancedSteps DEF ParseForStatement, At, EatAs, Eat
<1>11. CASE At("For.update")
  BY <1>1, <1>2, <1>11, BalancedSteps DEF ParseForStatement, At
<1>12. CASE At("For.third")
  BY <1>1, <1>2, <1>12, BalancedSteps DEF ParseForStatement, At, EatAs, Eat
<1>13. CASE At("For.body")
  BY <1>1, <1>13, BalancedSteps DEF ParseForStatement, At
<1> QED
  BY <1>3, <1>4, <1>6, <1>7, <1>8, <1>9, <1>10, <1>11, <1>12, <1>13
     DEF ParseForStatement, At

(* All parse functions of expressions                                      *)
LEMMA ExpressionsBalanced ==
  ASSUME Typed, Balanced, Expressions
  PROVE  Balanced'
<1> USE DEF LocalsFit, MayStart, Reading
<1>1. CASE ParseCommaExpression
  <2>1. /\ \A label \in {"Comma", "Comma.next", "Assign"} :
          label \notin Starts \union RhsLabels \union Entry
        /\ \A label \in {"Comma", "Comma.next", "Assign"} : Holds(label) = "none"
    BY DEF Starts, RhsLabels, Entry, Holds, ParenLabels, BrackLabels, BraceLabels
  <2>2. /\ Turns("COMMA", "none", "none")
    BY DEF Turns, BracketTypes, Opening, Partner
  <2> QED
    BY <1>1, <2>1, <2>2, BalancedSteps DEF ParseCommaExpression, At
<1>2. CASE ParseAssignExpression
  <2>1. /\ \A label \in {"Assign", "Ternary", "Assign.left", "Assign.right"} :
          label \notin Starts \union RhsLabels \union Entry
        /\ \A label \in {"Assign", "Ternary", "Assign.left", "Assign.right"} :
             Holds(label) = "none"
    BY DEF Starts, RhsLabels, Entry, Holds, ParenLabels, BrackLabels, BraceLabels
  <2>2. /\ (\A t \in AssignTypes : Turns(t, "none", "none"))
    BY DEF Turns, BracketTypes, Opening, Partner, AssignTypes
  <2> QED
    BY <1>2, <2>1, <2>2, BalancedSteps DEF ParseAssignExpression, At
<1>3. CASE ParseTernaryExpression
  <2>1. /\ \A label \in {"Ternary", "Binary", "Ternary.first", "Assign", "Ternary.second",
                            "Ternary.third"} :
          label \notin Starts \union RhsLabels \union Entry
        /\ \A label \in {"Ternary", "Binary", "Ternary.first", "Assign", "Ternary.second",
                            "Ternary.third"} : Holds(label) = "none"
    BY DEF Starts, RhsLabels, Entry, Holds, ParenLabels, BrackLabels, BraceLabels
  <2>2. /\ Turns("CONDITIONAL", "none", "none")
        /\ Turns("COLON", "none", "none")
    BY DEF Turns, BracketTypes, Opening, Partner
  <2> QED
    BY <1>3, <2>1, <2>2, BalancedSteps DEF ParseTernaryExpression, At, EatAs, Eat
<1>4. CASE ParseBinaryExpression \/ ParseBinaryExpressionRhs
  BY <1>4, LevelsBalanced
<1>5. CASE ParseUnaryExpression
  <2>1. /\ \A label \in {"Unary", "Unary.operand", "LeftHandSide", "Unary.postfix"} :
          label \notin Starts \union RhsLabels \union Entry
        /\ \A label \in {"Unary", "Unary.operand", "LeftHandSide", "Unary.postfix"} :
             Holds(label) = "none"
    BY DEF Starts, RhsLabels, Entry, Holds, ParenLabels, BrackLabels, BraceLabels
  <2>2. /\ \A t \in PrefixTypes \union {"ADD", "SUB"} : Turns(t, "none", "none")
        /\ \A t \in {"INC", "DEC"} : Turns(t, "none", "none")
    BY DEF Turns, BracketTypes, PrefixTypes
  <2> QED
    BY <1>5, <2>1, <2>2, BalancedSteps DEF ParseUnaryExpression, At
<1>6. CASE ParseNewExpression
  <2>1. /\ \A label \in {"LeftHandSide", "New.target", "Member"} :
          label \notin Starts \union RhsLabels \union Entry
        /\ \A label \in {"LeftHandSide", "New.target", "Member"} : Holds(label) = "none"
    BY DEF Starts, RhsLabels, Entry, Holds, ParenLabels, BrackLabels, BraceLabels
  <2>2. /\ Turns("NEW", "none", "none")
    BY DEF Turns, BracketTypes, Opening, Partner
  <2> QED
    BY <1>6, <2>1, <2>2, BalancedSteps DEF ParseNewExpression, At, Become
<1>7. CASE ParseMemberExpression
  <2>1. /\ \A label \in {"Member", "Primary", "Member.first", "Member.next", "Dot",
                         "Assign", "Index",
                            "Arguments"} :
          label \notin Starts \union RhsLabels \union Entry
        /\ \A label \in {"Member", "Primary", "Member.first", "Member.next", "Dot",
                         "Assign"} : Holds(label) = "none"
        /\ Holds("Arguments") = "LPAREN"
        /\ Holds("Index") = "LBRACK"
    BY DEF Starts, RhsLabels, Entry, Holds, ParenLabels, BrackLabels, BraceLabels
  <2>2. /\ Turns("PERIOD", "none", "none")
        /\ Turns("LBRACK", "none", "LBRACK")
        /\ Turns("LPAREN", "none", "LPAREN")
    BY DEF Turns, BracketTypes, Opening, Partner
  <2> QED
    BY <1>7, <2>1, <2>2, BalancedSteps DEF ParseMemberExpression, At
<1>8. CASE ParseDotExpression
  <2>1. /\ \A label \in {"Dot", "Member.next"} :
          label \notin Starts \union RhsLabels \union Entry
        /\ \A label \in {"Dot", "Member.next"} : Holds(label) = "none"
    BY DEF Starts, RhsLabels, Entry, Holds, ParenLabels, BrackLabels, BraceLabels
  <2>2. /\ (\A t \in KeywordTypes : Turns(t, "none", "none"))
        /\ (\A t \in {"IDENTIFIER"} : Turns(t, "none", "none"))
    BY DEF Turns, BracketTypes, Opening, Partner, KeywordTypes
  <2> QED
    BY <1>8, <2>1, <2>2, BalancedSteps DEF ParseDotExpression, At, IsKeyword
<1>9. CASE ParseIndexExpression
  <2>1. /\ \A label \in {"Index", "Member.next"} :
          label \notin Starts \union RhsLabels \union Entry
        /\ Holds("Member.next") = "none"
        /\ Holds("Index") = "LBRACK"
    BY DEF Starts, RhsLabels, Entry, Holds, ParenLabels, BrackLabels, BraceLabels
  <2>2. /\ Turns("RBRACK", "LBRACK", "none")
    BY DEF Turns, BracketTypes, Opening, Partner
  <2> QED
    BY <1>9, <2>1, <2>2, BalancedSteps DEF ParseIndexExpression, At, EatAs
<1>10. CASE ParseArgumentList
  <2>1. /\ \A label \in {"Arguments", "Arguments.next", "Member.next", "Assign"} :
          label \notin Starts \union RhsLabels \union Entry
        /\ \A label \in {"Member.next", "Assign"} : Holds(label) = "none"
        /\ \A label \in {"Arguments", "Arguments.next"} : Holds(label) = "LPAREN"
    BY DEF Starts, RhsLabels, Entry, Holds, ParenLabels, BrackLabels, BraceLabels
  <2>2. /\ Turns("COMMA", "LPAREN", "LPAREN")
        /\ Turns("RPAREN", "LPAREN", "none")
    BY DEF Turns, BracketTypes, Opening, Partner
  <2> QED
    BY <1>10, <2>1, <2>2, BalancedSteps DEF ParseArgumentList, At, EatAs
<1>11. CASE ParsePrimary
  <2>1. /\ \A label \in {"Primary", "Comma", "Paren", "Array", "Object"} :
          label \notin Starts \union RhsLabels \union Entry
        /\ "Function" \in Starts /\ "Function" \notin RhsLabels \union Entry
        /\ \A label \in {"Primary", "Comma", "Function"} : Holds(label) = "none"
        /\ Holds("Paren") = "LPAREN"
        /\ Holds("Array") = "LBRACK"
        /\ Holds("Object") = "LBRACE"
    BY DEF Starts, RhsLabels, Entry, Holds, ParenLabels, BrackLabels, BraceLabels
  <2>2. /\ Turns("LPAREN", "none", "LPAREN")
        /\ Turns("LBRACK", "none", "LBRACK")
        /\ Turns("LBRACE", "none", "LBRACE")
        /\ Turns("RPAREN", "LPAREN", "none")
        /\ (\A t \in LiteralTypes : Turns(t, "none", "none"))
        /\ "FUNCTION" \notin BracketTypes
    BY DEF Turns, BracketTypes, Opening, Partner, LiteralTypes
  <2> QED
    BY <1>11, <2>1, <2>2, BalancedSteps DEF ParsePrimary, At, Become, EatAs
<1>12. CASE ParseArrayLiteral
  <2>1. /\ \A label \in {"Array", "Assign", "Array.next"} :
          label \notin Starts \union RhsLabels \union Entry
        /\ Holds("Assign") = "none"
        /\ \A label \in {"Array", "Array.next"} : Holds(label) = "LBRACK"
    BY DEF Starts, RhsLabels, Entry, Holds, ParenLabels, BrackLabels, BraceLabels
  <2>2. /\ Turns("RBRACK", "LBRACK", "none")
        /\ Turns("COMMA", "LBRACK", "LBRACK")
    BY DEF Turns, BracketTypes, Opening, Partner
  <2> QED
    BY <1>12, <2>1, <2>2, BalancedSteps DEF ParseArrayLiteral, At, EatAs, Eat
<1>13. CASE ParseObjectLiteral
  <2>1. /\ \A label \in {"Object", "Object.name", "Object.value", "Assign",
                         "Object.assign", "Method",
                            "Object.next"} :
          label \notin Starts \union RhsLabels \union Entry
        /\ \A label \in {"Assign", "Method"} : Holds(label) = "none"
        /\ \A label \in {"Object", "Object.name", "Object.value", "Object.assign",
                         "Object.next"} : Holds(label) = "LBRACE"
    BY DEF Starts, RhsLabels, Entry, Holds, ParenLabels, BrackLabels, BraceLabels
  <2>2. /\ Turns("RBRACE", "LBRACE", "none")
        /\ Turns("COLON", "LBRACE", "LBRACE")
        /\ Turns("COMMA", "LBRACE", "LBRACE")
        /\ (\A t \in KeywordTypes : Turns(t, "LBRACE", "LBRACE"))
        /\ (\A t \in {"STRING", "IDENTIFIER", "NUMBER"} : Turns(t, "LBRACE", "LBRACE"))
    BY DEF Turns, BracketTypes, Opening, Partner, KeywordTypes
  <2> QED
    BY <1>13, <2>1, <2>2, BalancedSteps DEF ParseObjectLiteral, At, EatAs, Eat,
       IsPropertyName, IsKeyword
<1>14. CASE ParseObjectMethod
  <2>1. /\ \A label \in {"Method", "Parameters", "Method.body", "Block", "Method.end"} :
          label \notin Starts \union RhsLabels \union Entry
        /\ \A label \in {"Method", "Parameters", "Method.body", "Block", "Method.end"} :
             Holds(label) = "none"
    BY DEF Starts, RhsLabels, Entry, Holds, ParenLabels, BrackLabels, BraceLabels
  <2> QED
    BY <1>14, <2>1, BalancedSteps DEF ParseObjectMethod, At
<1> QED
  BY <1>1, <1>2, <1>3, <1>4, <1>5, <1>6, <1>7, <1>8, <1>9, <1>10, <1>11, <1>12, <1>13,
     <1>14 DEF Expressions

(* and of statements.                                                      *)
LEMMA StatementsBalanced ==
  ASSUME Typed, Balanced, Statements
  PROVE  Balanced'
<1> USE DEF LocalsFit, MayStart, Reading
<1>1. CASE ParseStatement
  <2>1. /\ \A label \in {"Statement", "Expression.end", "Comma", "Block"} :
          label \notin Starts \union RhsLabels \union Entry
        /\ \A label \in Starts : label \notin RhsLabels \union Entry /\ Holds(label) = "none"
        /\ \A label \in {"Statement", "Expression.end", "Comma", "Block"} : Holds(label) = "none"
    BY DEF Starts, RhsLabels, Entry, Holds, ParenLabels, BrackLabels, BraceLabels
  <2>2. Turns("SEMICOLON", "none", "none") /\ Turns("COLON", "none", "none")
    BY DEF Turns, BracketTypes
  <2>3. ASSUME NEW t, StatementOf(t) \notin {"Block", "Expression"}
        PROVE  StatementOf(t) \in Starts /\ t \notin BracketTypes
    BY <2>3 DEF StatementOf, Starts, BracketTypes, DeclaratorTypes
  <2> QED
    BY <1>1, <2>1, <2>2, <2>3, BalancedSteps DEF ParseStatement, At, Become, EatAs, Eat
<1>2. CASE ParseIfStatement
  <2>1. /\ \A label \in {"If.open", "Comma", "If.close", "Statement", "If.body", "If.else"} :
          label \notin Starts \union RhsLabels \union Entry
        /\ "If" \in Starts /\ "If" \notin RhsLabels \union Entry
        /\ \A label \in {"If", "If.open", "Comma", "Statement", "If.body", "If.else"} :
             Holds(label) = "none"
        /\ Holds("If.close") = "LPAREN"
    BY DEF Starts, RhsLabels, Entry, Holds, ParenLabels, BrackLabels, BraceLabels
  <2>2. /\ Turns("LPAREN", "none", "LPAREN")
        /\ Turns("RPAREN", "LPAREN", "none")
        /\ Turns("ELSE", "none", "none")
        /\ (\A t : t \notin BracketTypes => Turns(t, "none", "none"))
    BY DEF Turns, BracketTypes, Opening, Partner
  <2> QED
    BY <1>2, <2>1, <2>2, BalancedSteps DEF ParseIfStatement, At, EatAs, Eat
<1>3. CASE ParseForStatement
  BY <1>3, ForBalanced
<1>4. CASE ParseWhileStatement
  <2>1. /\ \A label \in {"While.open", "Comma", "While.close", "Statement", "While.body"} :
          label \notin Starts \union RhsLabels \union Entry
        /\ "While" \in Starts /\ "While" \notin RhsLabels \union Entry
        /\ \A label \in {"While", "While.open", "Comma", "Statement", "While.body"} :
             Holds(label) = "none"
        /\ Holds("While.close") = "LPAREN"
    BY DEF Starts, RhsLabels, Entry, Holds, ParenLabels, BrackLabels, BraceLabels
  <2>2. /\ Turns("LPAREN", "none", "LPAREN")
        /\ Turns("RPAREN", "LPAREN", "none")
        /\ (\A t : t \notin BracketTypes => Turns(t, "none", "none"))
    BY DEF Turns, BracketTypes, Opening, Partner
  <2> QED
    BY <1>4, <2>1, <2>2, BalancedSteps DEF ParseWhileStatement, At, EatAs, Eat
<1>5. CASE ParseDoWhileStatement
  <2>1. /\ \A label \in {"Statement", "Do.while", "Do.open", "Comma", "Do.close", "Do.end"} :
          label \notin Starts \union RhsLabels \union Entry
        /\ "Do" \in Starts /\ "Do" \notin RhsLabels \union Entry
        /\ \A label \in {"Do", "Statement", "Do.while", "Do.open", "Comma", "Do.end"} :
             Holds(label) = "none"
        /\ Holds("Do.close") = "LPAREN"
    BY DEF Starts, RhsLabels, Entry, Holds, ParenLabels, BrackLabels, BraceLabels
  <2>2. /\ Turns("WHILE", "none", "none")
        /\ Turns("LPAREN", "none", "LPAREN")
        /\ Turns("RPAREN", "LPAREN", "none")
        /\ Turns("SEMICOLON", "none", "none")
        /\ (\A t : t \notin BracketTypes => Turns(t, "none", "none"))
    BY DEF Turns, BracketTypes, Opening, Partner
  <2> QED
    BY <1>5, <2>1, <2>2, BalancedSteps DEF ParseDoWhileStatement, At, EatAs, Eat
<1>6. CASE ParseParameterList
  <2>1. /\ \A label \in {"Parameters", "Parameters.first", "Parameters.name",
                         "Parameters.next"} :
          label \notin Starts \union RhsLabels \union Entry
        /\ Holds("Parameters") = "none"
        /\ \A label \in {"Parameters.first", "Parameters.name", "Parameters.next"} :
             Holds(label) = "LPAREN"
    BY DEF Starts, RhsLabels, Entry, Holds, ParenLabels, BrackLabels, BraceLabels
  <2>2. /\ Turns("LPAREN", "none", "LPAREN")
        /\ Turns("RPAREN", "LPAREN", "none")
        /\ Turns("IDENTIFIER", "LPAREN", "LPAREN")
        /\ Turns("COMMA", "LPAREN", "LPAREN")
    BY DEF Turns, BracketTypes, Opening, Partner
  <2> QED
    BY <1>6, <2>1, <2>2, BalancedSteps DEF ParseParameterList, At, EatAs, Eat
<1>7. CASE ParseFunctionStatement
  <2>1. /\ \A label \in {"Function.name", "Parameters", "Function.body", "Statement",
                         "Function.end"} :
          label \notin Starts \union RhsLabels \union Entry
        /\ "Function" \in Starts /\ "Function" \notin RhsLabels \union Entry
        /\ \A label \in {"Function", "Function.name", "Parameters", "Function.body", "Statement",
                            "Function.end"} : Holds(label) = "none"
    BY DEF Starts, RhsLabels, Entry, Holds, ParenLabels, BrackLabels, BraceLabels
  <2>2. /\ Turns("IDENTIFIER", "none", "none")
        /\ (\A t : t \notin BracketTypes => Turns(t, "none", "none"))
    BY DEF Turns, BracketTypes, Opening, Partner
  <2> QED
    BY <1>7, <2>1, <2>2, BalancedSteps DEF ParseFunctionStatement, At
<1>8. CASE ParseBlockStatement
  BY <1>8, BlockBalanced
<1>9. CASE ParseReturnStatement
  <2>1. /\ \A label \in {"Return.value", "Comma", "Return.end"} :
          label \notin Starts \union RhsLabels \union Entry
        /\ "Return" \in Starts /\ "Return" \notin RhsLabels \union Entry
        /\ \A label \in {"Return", "Return.value", "Comma", "Return.end"} : Holds(label) = "none"
    BY DEF Starts, RhsLabels, Entry, Holds, ParenLabels, BrackLabels, BraceLabels
  <2>2. /\ Turns("SEMICOLON", "none", "none")
        /\ (\A t : t \notin BracketTypes => Turns(t, "none", "none"))
    BY DEF Turns, BracketTypes, Opening, Partner
  <2> QED
    BY <1>9, <2>1, <2>2, BalancedSteps DEF ParseReturnStatement, At, EatAs, Eat
<1>10. CASE ParseDeclaration
  <2>1. /\ \A label \in {"Declaration", "Declaration.name", "Assign", "Declaration.value"} :
          label \notin Starts \union RhsLabels \union Entry
        /\ \A label \in {"Declaration", "Declaration.name", "Assign", "Declaration.value"} :
             Holds(label) = "none"
    BY DEF Starts, RhsLabels, Entry, Holds, ParenLabels, BrackLabels, BraceLabels
  <2>2. /\ Turns("IDENTIFIER", "none", "none")
        /\ Turns("ASSIGN", "none", "none")
    BY DEF Turns, BracketTypes, Opening, Partner
  <2> QED
    BY <1>10, <2>1, <2>2, BalancedSteps DEF ParseDeclaration, At, EatAs, Eat
<1>11. CASE ParseVariableStatement
  <2>1. /\ \A label \in {"Declaration", "Variable.next"} :
          label \notin Starts \union RhsLabels \union Entry
        /\ "Variable" \in Starts /\ "Variable" \notin RhsLabels \union Entry
        /\ \A label \in {"Variable", "Declaration", "Variable.next"} : Holds(label) = "none"
    BY DEF Starts, RhsLabels, Entry, Holds, ParenLabels, BrackLabels, BraceLabels
  <2>2. /\ Turns("SEMICOLON", "none", "none")
        /\ Turns("COMMA", "none", "none")
        /\ (\A t : t \notin BracketTypes => Turns(t, "none", "none"))
    BY DEF Turns, BracketTypes, Opening, Partner
  <2> QED
    BY <1>11, <2>1, <2>2, BalancedSteps DEF ParseVariableStatement, At, EatAs, Eat
<1>12. CASE ParseCaseBlock
  <2>1. /\ \A label \in {"Assign", "Case.first", "Case.do", "Case.colon", "Case.while",
                         "Statement",
                            "Case.statement"} :
          label \notin Starts \union RhsLabels \union Entry
        /\ "Case" \in Starts /\ "Case" \notin RhsLabels \union Entry
        /\ \A label \in {"Case", "Assign", "Case.first", "Case.do", "Case.colon", "Case.while",
                            "Statement", "Case.statement"} : Holds(label) = "none"
    BY DEF Starts, RhsLabels, Entry, Holds, ParenLabels, BrackLabels, BraceLabels
  <2>2. /\ Turns("COLON", "none", "none")
        /\ Turns("CASE", "none", "none")
        /\ (\A t : t \notin BracketTypes => Turns(t, "none", "none"))
    BY DEF Turns, BracketTypes, Opening, Partner
  <2> QED
    BY <1>12, <2>1, <2>2, BalancedSteps DEF ParseCaseBlock, At, EatAs, Eat
<1>13. CASE ParseDefaultClause
  <2>1. /\ \A label \in {"Default.colon", "Statement", "Default.while"} :
          label \notin Starts \union RhsLabels \union Entry
        /\ "Default" \in Starts /\ "Default" \notin RhsLabels \union Entry
        /\ \A label \in {"Default", "Default.colon", "Statement", "Default.while"} :
             Holds(label) = "none"
    BY DEF Starts, RhsLabels, Entry, Holds, ParenLabels, BrackLabels, BraceLabels
  <2>2. /\ Turns("COLON", "none", "none")
        /\ (\A t : t \notin BracketTypes => Turns(t, "none", "none"))
    BY DEF Turns, BracketTypes, Opening, Partner
  <2> QED
    BY <1>13, <2>1, <2>2, BalancedSteps DEF ParseDefaultClause, At, EatAs, Eat
<1>14. CASE ParseSwitchStatement
  <2>1. /\ \A label \in {"Switch.open", "Assign", "Switch.close", "Switch.brace",
                         "Switch.clause",
                            "Switch.case", "Switch.default"} :
          label \notin Starts \union RhsLabels \union Entry
        /\ "Switch" \in Starts /\ "Switch" \notin RhsLabels \union Entry
        /\ "Case" \in Starts /\ "Case" \notin RhsLabels \union Entry
        /\ "Default" \in Starts /\ "Default" \notin RhsLabels \union Entry
        /\ \A label \in {"Switch", "Switch.open", "Assign", "Switch.brace", "Case",
                         "Default"} : Holds(label) = "none"
        /\ Holds("Switch.close") = "LPAREN"
        /\ \A label \in {"Switch.clause", "Switch.case", "Switch.default"} :
             Holds(label) = "LBRACE"
    BY DEF Starts, RhsLabels, Entry, Holds, ParenLabels, BrackLabels, BraceLabels
  <2>2. /\ Turns("LPAREN", "none", "LPAREN")
        /\ Turns("RPAREN", "LPAREN", "none")
        /\ Turns("LBRACE", "none", "LBRACE")
        /\ Turns("RBRACE", "LBRACE", "none")
        /\ "CASE" \notin BracketTypes
        /\ "DEFAULT" \notin BracketTypes
        /\ (\A t : t \notin BracketTypes => Turns(t, "none", "none"))
    BY DEF Turns, BracketTypes, Opening, Partner
  <2> QED
    BY <1>14, <2>1, <2>2, BalancedSteps DEF ParseSwitchStatement, At, EatAs, Eat
<1>15. CASE ParseBreakStatement
  <2>1. /\ \A label \in {"Break.label"} :
          label \notin Starts \union RhsLabels \union Entry
        /\ "Break" \in Starts /\ "Break" \notin RhsLabels \union Entry
        /\ \A label \in {"Break", "Break.label"} : Holds(label) = "none"
    BY DEF Starts, RhsLabels, Entry, Holds, ParenLabels, BrackLabels, BraceLabels
  <2>2. /\ (\A t : t \notin BracketTypes => Turns(t, "none", "none"))
    BY DEF Turns, BracketTypes, Opening, Partner
  <2> QED
    BY <1>15, <2>1, <2>2, BalancedSteps DEF ParseBreakStatement, At
<1>16. CASE ParseTryCatchStatement
  <2>1. /\ \A label \in {"Block", "Try.catch", "Try.open", "Comma", "Try.close", "Try.handler",
                            "Try.finally", "Try.end"} :
          label \notin Starts \union RhsLabels \union Entry
        /\ "Try" \in Starts /\ "Try" \notin RhsLabels \union Entry
        /\ \A label \in {"Try", "Block", "Try.catch", "Try.open", "Comma", "Try.handler",
                            "Try.finally", "Try.end"} : Holds(label) = "none"
        /\ Holds("Try.close") = "LPAREN"
    BY DEF Starts, RhsLabels, Entry, Holds, ParenLabels, BrackLabels, BraceLabels
  <2>2. /\ Turns("CATCH", "none", "none")
        /\ Turns("LPAREN", "none", "LPAREN")
        /\ Turns("RPAREN", "LPAREN", "none")
        /\ Turns("FINALLY", "none", "none")
        /\ (\A t : t \notin BracketTypes => Turns(t, "none", "none"))
    BY DEF Turns, BracketTypes, Opening, Partner
  <2> QED
    BY <1>16, <2>1, <2>2, BalancedSteps DEF ParseTryCatchStatement, At, EatAs, Eat
<1>17. CASE ParseThrowStatement
  <2>1. /\ \A label \in {"Comma", "Throw.end"} :
          label \notin Starts \union RhsLabels \union Entry
        /\ "Throw" \in Starts /\ "Throw" \notin RhsLabels \union Entry
        /\ \A label \in {"Throw", "Comma", "Throw.end"} : Holds(label) = "none"
    BY DEF Starts, RhsLabels, Entry, Holds, ParenLabels, BrackLabels, BraceLabels
  <2>2. /\ (\A t : t \notin BracketTypes => Turns(t, "none", "none"))
    BY DEF Turns, BracketTypes, Opening, Partner
  <2> QED
    BY <1>17, <2>1, <2>2, BalancedSteps DEF ParseThrowStatement, At
<1> QED
  BY <1>1, <1>2, <1>3, <1>4, <1>5, <1>6, <1>7, <1>8, <1>9, <1>10, <1>11, <1>12, <1>13,
     <1>14, <1>15, <1>16, <1>17 DEF Statements

(* The end: nothing is open where the program ends.                        *)
LEMMA ProgramBalanced ==
  ASSUME Typed, Balanced, ParseProgram
  PROVE  Balanced'
<1> USE DEF LocalsFit, MayStart, Reading
<1>1. /\ \A label \in {"Program", "Program.statement", "Statement"} :
           label \notin Starts \union RhsLabels /\ Holds(label) = "none"
  BY DEF Starts, RhsLabels, Holds, ParenLabels, BrackLabels, BraceLabels
<1>2. CASE status' # "done"
  BY <1>1, <1>2, BalancedSteps DEF ParseProgram, At
<1>3. CASE status' = "done"
  <2>1. /\ status = "running" /\ Top.at = "Program" /\ peek = "END_OF_FILE" /\ Keep
    BY <1>3 DEF ParseProgram, At, Call, Goto
  <2>2. Len(stack) = 1 /\ Top = stack[1]
    BY <2>1, Running DEF Typed, FrameOK, Entry
  <2>3. PICK open : Nesting(open)
    BY <2>1 DEF Balanced
  <2>4. PICK n \in Nat : n = here /\ n >= 1
    BY DEF Typed, ReadOK, here
  <2>5. open[n - 1] = <<>>
    BY <1>1, <2>1, <2>2, <2>3, <2>4 DEF Nesting, ScansTo, Push
  <2>6. Bracket(n) = "END_OF_FILE"
    <3>1. n \notin 1..n - 1
      BY <2>4
    <3> QED
      BY <2>1, <2>4, <3>1 DEF Balanced, Settled, Bracket, peek
  <2>7. Nest(<<>>, "END_OF_FILE") = <<>>
    BY DEF Nest, Opening, Partner
  <2> DEFINE wide == [i \in 0..n |-> IF i = n THEN <<>> ELSE open[i]]
  <2>8. <<>> \in Seq(Opening) /\ open \in [0..n - 1 -> Seq(Opening)]
    BY <2>3, <2>4 DEF Nesting, ScansTo
  <2>9. wide \in [0..n -> Seq(Opening)] /\ wide[n] = <<>>
    BY <2>4, <2>8
  <2>10. \A i \in 0..n - 1 : wide[i] = open[i]
    BY <2>4
  <2> HIDE DEF wide
  <2>11. wide[0] = <<>>
    <3>1. 0 \in 0..n - 1 /\ open[0] = <<>>
      BY <2>3, <2>4 DEF Nesting, ScansTo
    <3> QED
      BY <2>10, <3>1
  <2>12. ASSUME NEW i \in 1..n PROVE wide[i] = Nest(wide[i - 1], Bracket(i))
    <3>1. i - 1 \in 0..n - 1
      BY <2>4
    <3>2. wide[i - 1] = open[i - 1]
      BY <2>10, <3>1
    <3>3. CASE i = n
      BY <2>5, <2>6, <2>7, <2>9, <3>2, <3>3
    <3>4. CASE i # n
      <4>1. i \in 1..n - 1 /\ i \in 0..n - 1
        BY <3>4
      <4> QED
        BY <2>3, <2>4, <2>10, <3>2, <4>1 DEF Nesting, ScansTo
    <3> QED
      BY <3>3, <3>4
  <2>13. input' = input /\ braces' = braces /\ here' = here
    BY <2>1 DEF Keep, reading, here
  <2>14. \A i \in 1..n : Bracket(i)' = Bracket(i)
    BY <2>13 DEF Bracket, TypeOf
  <2>15. ScansTo(wide, n)'
    BY <2>9, <2>11, <2>12, <2>14 DEF ScansTo
  <2> QED
    BY <1>3, <2>4, <2>9, <2>13, <2>15 DEF Balanced
<1> QED
  BY <1>2, <1>3

(* All of Next.                                                            *)
LEMMA BalancedNext ==
  ASSUME Typed, Balanced, [Next]_vars
  PROVE  Balanced'
<1>1. CASE Expressions
  BY <1>1, ExpressionsBalanced
<1>2. CASE Statements
  BY <1>2, StatementsBalanced
<1>3. CASE ParseProgram
  BY <1>3, ProgramBalanced
<1>4. CASE UnwindLoop
  BY <1>4 DEF UnwindLoop, Balanced
<1>5. CASE UnwindRest
  BY <1>5 DEF UnwindRest, Balanced
<1>6. CASE Finished \/ UNCHANGED vars
  <2>1. UNCHANGED vars
    BY <1>6 DEF Finished
  <2>2. here' = here /\ peek' = peek /\ Top' = Top
    BY <2>1 DEF vars, reading, here, peek, TypeOf, Top
  <2>3. \A i : Bracket(i)' = Bracket(i)
    BY <2>1 DEF vars, reading, Bracket, TypeOf
  <2>4. \A open, n : ScansTo(open, n)' <=> ScansTo(open, n)
    BY <2>3 DEF ScansTo
  <2>5. \A open : Nesting(open)' <=> Nesting(open)
    BY <2>1, <2>2, <2>4 DEF Nesting, vars
  <2> QED
    BY <2>1, <2>2, <2>4, <2>5 DEF Balanced, Settled, vars, reading
<1> QED
  BY <1>1, <1>2, <1>3, <1>4, <1>5, <1>6 DEF Next, Step

LEMMA BalancedInit == Init => Balanced
<1> SUFFICES ASSUME Init PROVE Balanced
  OBVIOUS
<1>1. /\ stack = <<Frame("Program", <<>>, 1)>> /\ status = "running" /\ braces = {}
      /\ Len(input) = 1
  BY DEF Init
<1>2. /\ Len(stack) = 1 /\ Top = stack[1] /\ Top.at = "Program" /\ Top.from = 1
      /\ stack[1].from = 1 /\ here = 1
  BY <1>1 DEF Frame, Top, here
<1>3. "Program" \notin Starts \union RhsLabels /\ Holds("Program") = "none"
  BY DEF Starts, RhsLabels, Holds, ParenLabels, BrackLabels, BraceLabels
<1>4. Settled
  BY <1>1, <1>2, <1>3 DEF Settled
<1> DEFINE open == [i \in 0..0 |-> <<>>]
<1>5. <<>> \in Seq(Opening)
  OBVIOUS
<1>6. ScansTo(open, 0)
  BY <1>5 DEF ScansTo
<1>7. open[0] = Push(open[0], "none")
  BY DEF Push
<1> HIDE DEF open
<1>8. 1 - 1 = 0 /\ \A k \in 1..1 - 1 : FALSE
  OBVIOUS
<1>9. Nesting(open)
  BY <1>2, <1>3, <1>6, <1>7, <1>8 DEF Nesting
<1> QED
  BY <1>1, <1>4, <1>9 DEF Balanced

(* A scan that meets no bracket out of place is the scan of the text, if   *)
(* all blocks have their braces.                                           *)
LEMMA ScanIsUnclosed ==
  ASSUME here \in Nat, BlocksHaveBraces, NEW open, ScansTo(open, here)
  PROVE  Unclosed[here] = open[here]
<1> PICK n \in Nat : n = here
  OBVIOUS
<1> DEFINE Scan(f) == f = [i \in 0..n |-> IF i = 0 THEN <<>> ELSE Nest(f[i - 1], TypeOf(input[i]))]
<1>1. Scan(open)
  <2>0. \A i \in 1..n : Bracket(i) = TypeOf(input[i])
    BY DEF Bracket, BlocksHaveBraces
  <2>1. open \in [0..n -> Seq(Opening)] /\ open[0] = <<>>
        /\ \A i \in 1..n : open[i] = Nest(open[i - 1], TypeOf(input[i]))
    BY <2>0 DEF ScansTo
  <2>2. ASSUME NEW i \in 0..n
        PROVE  open[i] = IF i = 0 THEN <<>> ELSE Nest(open[i - 1], TypeOf(input[i]))
    <3>1. i = 0 \/ i \in 1..n
      OBVIOUS
    <3> QED
      BY <2>1, <3>1
  <2> QED
    BY <2>1, <2>2
<1>2. Unclosed = CHOOSE f : Scan(f)
  BY Zenon DEF Unclosed
<1>3. Scan(Unclosed)
  <2> HIDE DEF Scan
  <2> QED
    BY <1>1, <1>2, Zenon
<1>4. \A i \in 0..n :
        Unclosed[i] = IF i = 0 THEN <<>> ELSE Nest(Unclosed[i - 1], TypeOf(input[i]))
  BY <1>3
<1> HIDE DEF Scan
<1> DEFINE Wrong == {i \in Nat : i <= n /\ Unclosed[i] # open[i]}
           Less == {pair \in Nat \X Nat : pair[1] < pair[2]}
<1>5. ASSUME Wrong # {} PROVE FALSE
  <2>1. IsWellFoundedOn(Less, Nat)
    BY NatLessThanWellFounded DEF OpToRel
  <2>2. Wrong \subseteq Nat
    OBVIOUS
  <2> HIDE DEF Wrong, Less
  <2>3. PICK i \in Wrong : \A j \in Wrong : ~(<<j, i>> \in Less)
    BY <1>5, <2>1, <2>2, WFMin
  <2>4. i \in Nat /\ i <= n /\ Unclosed[i] # open[i]
    BY <2>3 DEF Wrong
  <2>5. i # 0
    BY <1>4, <2>4 DEF ScansTo
  <2>6. i - 1 \in Nat /\ i - 1 <= n /\ i - 1 < i /\ i \in 1..n /\ i \in 0..n
    BY <2>4, <2>5
  <2>7. Unclosed[i - 1] # open[i - 1]
    <3>1. open[i] = Nest(open[i - 1], TypeOf(input[i]))
      BY <2>6 DEF ScansTo, Bracket, BlocksHaveBraces
    <3> QED
      BY <1>4, <2>4, <2>5, <2>6, <3>1
  <2>8. i - 1 \in Wrong
    BY <2>6, <2>7 DEF Wrong
  <2>9. <<i - 1, i>> \in Less
    BY <2>4, <2>6 DEF Less
  <2> QED
    BY <2>3, <2>8, <2>9
<1> QED
  BY <1>5

(* An accepted text has its brackets paired and nested, whatever mix of    *)
(* calls, indices, literals, blocks, loops and functions it is made of:    *)
(* no parse function of parser.cc leaves a bracket open or takes the       *)
(* partner of another one.  This is said of texts in which each block      *)
(* begins with a brace: ParseBlockStatement takes any other token as well. *)
THEOREM ParserBracketsNest == Spec => []BracketsNest
<1>1. Typed /\ [Next]_vars => Typed'
  BY TypedNext, InvNext DEF Typed
<1>2. Typed /\ Balanced /\ [Next]_vars => Balanced'
  BY BalancedNext
<1>3. Typed /\ Balanced => BracketsNest
  <2> SUFFICES ASSUME Typed, Balanced, status = "done", BlocksHaveBraces PROVE Nested
    BY DEF BracketsNest
  <2>1. here \in Nat
    BY DEF Typed, ReadOK, here
  <2>2. PICK open : ScansTo(open, here) /\ open[here] = <<>>
    BY DEF Balanced
  <2> QED
    BY <2>1, <2>2, ScanIsUnclosed DEF Nested
<1> QED
  BY TypedInit, BalancedInit, <1>1, <1>2, <1>3, PTL DEF Spec

-----------------------------------------------------------------------------
(* Slashes.                                                                *)

(* Where calls of a kind return to.                                        *)
StatementSites ==
  {"Program.statement", "If.body", "If.else", "While.body", "Do.while", "For.body",
   "Function.end", "Block.statement", "Case.statement", "Default.while"}

CommaSites ==
  {"Paren", "Expression.end", "If.close", "For.head", "For.second", "For.third",
   "While.close", "Do.close", "Return.end", "Try.close", "Throw.end"}

AssignSites ==
  {"Comma.next", "Assign.right", "Ternary.second", "Ternary.third", "Index",
   "Arguments.next", "Array.next", "Object.assign", "For.in", "Declaration.value",
   "Case.first", "Case.colon", "Switch.close"}

BlockSites == StatementSites \union {"Try.catch", "Try.handler", "Try.end", "Method.end"}

(* Labels that only the token `function` leads to.                         *)
FunctionLabels == {"Function", "Function.name", "Function.body", "Function.end"}

(* Where the caller of a function waits for it.                            *)
Sites(label) ==
  CASE label \in {"Program", "Program.statement"} -> {}
    [] label \in {"Comma", "Comma.next"} -> CommaSites
    [] label \in {"Assign", "Assign.left", "Assign.right"} -> AssignSites
    [] label \in {"Ternary", "Ternary.first", "Ternary.second", "Ternary.third"} ->
         {"Assign.left"}
    [] label \in {"Binary", "Binary.left"} -> {"Ternary.first"}
    [] label \in RhsLabels -> {"Ternary.first", "Rhs.merge"}
    [] label \in {"Unary", "Unary.operand", "Unary.postfix"} ->
         {"Unary.operand", "Binary.left", "Rhs.operand"}
    [] label \in {"LeftHandSide", "New.target", "Member", "Member.first", "Member.next", "Dot",
                  "Index", "Arguments", "Arguments.next"} -> {"New.target", "Unary.postfix"}
    [] label \in {"Primary", "Paren", "Array", "Array.next", "Object", "Object.name",
                  "Object.value", "Object.assign", "Object.next"} -> {"Member.first"}
    [] label \in {"Method", "Method.body", "Method.end"} -> {"Object.assign"}
    [] label \in {"Parameters", "Parameters.first", "Parameters.name", "Parameters.next"} ->
         {"Function.body", "Method.body"}
    [] label \in FunctionLabels -> StatementSites \union {"Member.first"}
    [] label \in {"Block", "Block.next", "Block.statement"} -> BlockSites
    [] label \in {"Variable", "Variable.next"} -> StatementSites \union {"For.head"}
    [] label \in {"Declaration", "Declaration.name", "Declaration.value"} -> {"Variable.next"}
    [] label \in {"Case", "Case.first", "Case.do", "Case.colon", "Case.statement",
                  "Case.while"} -> {"Switch.case"}
    [] label \in {"Default", "Default.colon", "Default.while"} -> {"Switch.default"}
    [] OTHER -> StatementSites

(* The frame of a caller and that of its callee.                           *)
Linked(caller, frame) ==
  /\ caller.at \in Sites(frame.at)
  /\ frame.at \in RhsLabels /\ caller.at = "Ternary.first" => frame.mem[1] = 3

(* How the current token was read, or what may have ended before it.       *)
ReadOn == ~division[here] \/ "throw" \in ended
ReadOff == division[here] \/ ended \intersect {"function", "postfix"} # {}

(* A variable statement's node: the for statement asks for it.             *)
IsVar(node) == node.kind = "var"

(* Where an operand or a statement may come next, so that a slash begins a *)
(* regular expression, and where it divides.                               *)
RegexOn ==
  {"Program", "Primary", "Member", "LeftHandSide", "Unary", "Binary", "Ternary", "Assign",
   "Comma", "Arguments", "Array", "Statement", "Return.value", "For.init", "For.condition",
   "For.update", "Function.body", "Block.next", "Case.do", "Case.while", "Break.label",
   "Try.catch", "Try.handler", "Try.finally", "Try.end", "Method.end", "Declaration.name"}
  \union StatementSites

RegexOff ==
  {"Member.first", "Member.next", "New.target", "Unary.operand", "Unary.postfix", "Binary.left"}
  \union RhsLabels

(* Where no binary operator is left, and where a value is an expression's. *)
Lowest == {"Ternary.first", "Ternary.third", "Assign.left", "Assign.right", "Declaration.value"}

Values ==
  {"Comma.next", "Paren", "Assign.left", "Ternary.first", "Binary.left", "Unary.postfix",
   "Rhs.operand", "Member.first"}

(* What a label asks for.                                                  *)
Fine(label, locals, on, off, tok, value) ==
  /\ label \in RegexOn => on
  /\ label \in RegexOff => off
  /\ label = "Variable.next" /\ tok = "IN" => on
  /\ label = "For.head" /\ IsVar(value) /\ tok # "IN" => on
  /\ label \in Lowest => Precedence(tok) < 3
  /\ label \in Values => ~IsVar(value)
  /\ label = "Rhs" => ~IsVar(locals[2])
  /\ label = "Member.next" => ~IsVar(locals[1])

(* The invariant: every call returns to where such a call is waited for, and *)
(* the innermost has what its label asks for.                              *)
Links == \A k \in 1..Len(stack) - 1 : Linked(stack[k], stack[k + 1])

Known == \A k \in 1..Len(stack) : stack[k].at \in FunctionLabels => Has("FUNCTION")

Flow == status = "running" => Links /\ Known /\ Fine(Top.at, mem, ReadOn, ReadOff, peek, ret)

(* Sites, label by label.                                                  *)
LEMMA SitesTable ==
  /\ \A label \in {"Comma", "Comma.next"} : Sites(label) = CommaSites
  /\ \A label \in {"Assign", "Assign.left", "Assign.right"} : Sites(label) = AssignSites
  /\ \A label \in {"Ternary", "Ternary.first", "Ternary.second", "Ternary.third"} :
       Sites(label) = {"Assign.left"}
  /\ \A label \in {"Binary", "Binary.left"} : Sites(label) = {"Ternary.first"}
  /\ \A label \in RhsLabels : Sites(label) = {"Ternary.first", "Rhs.merge"}
  /\ \A label \in {"Unary", "Unary.operand", "Unary.postfix"} :
       Sites(label) = {"Unary.operand", "Binary.left", "Rhs.operand"}
  /\ \A label \in {"LeftHandSide", "New.target", "Member", "Member.first", "Member.next", "Dot",
                   "Index", "Arguments", "Arguments.next"} :
       Sites(label) = {"New.target", "Unary.postfix"}
  /\ \A label \in {"Primary", "Paren", "Array", "Array.next", "Object", "Object.name",
                   "Object.value", "Object.assign", "Object.next"} :
       Sites(label) = {"Member.first"}
  /\ \A label \in {"Method", "Method.body", "Method.end"} : Sites(label) = {"Object.assign"}
  /\ \A label \in {"Parameters", "Parameters.first", "Parameters.name", "Parameters.next"} :
       Sites(label) = {"Function.body", "Method.body"}
  /\ \A label \in FunctionLabels : Sites(label) = StatementSites \union {"Member.first"}
  /\ \A label \in {"Block", "Block.next", "Block.statement"} : Sites(label) = BlockSites
  /\ \A label \in {"Variable", "Variable.next"} :
       Sites(label) = StatementSites \union {"For.head"}
  /\ \A label \in {"Declaration", "Declaration.name", "Declaration.value"} :
       Sites(label) = {"Variable.next"}
  /\ \A label \in {"Case", "Case.first", "Case.do", "Case.colon", "Case.statement",
                   "Case.while"} : Sites(label) = {"Switch.case"}
  /\ \A label \in {"Default", "Default.colon", "Default.while"} :
       Sites(label) = {"Switch.default"}
  /\ \A label \in {"Statement", "Expression.end", "If", "If.open", "If.close", "If.body",
                   "If.else", "For", "For.open", "While", "While.open", "While.close",
                   "While.body", "Do", "Do.while", "Do.open", "Do.close", "Do.end", "Return",
                   "Return.value", "Return.end", "Switch", "Switch.open", "Switch.close",
                   "Switch.brace", "Switch.clause", "Switch.case", "Switch.default", "Break",
                   "Break.label", "Try", "Try.catch", "Try.open", "Try.close", "Try.handler",
                   "Try.finally", "Try.end", "Throw", "Throw.end"} \union ForLabels :
       Sites(label) = StatementSites
  BY DEF Sites, RhsLabels, FunctionLabels, ForLabels

(* How the current token was read, after a step.                           *)
LEMMA Modes ==
  ASSUME ReadOK
  PROVE  /\ Keep => peek' = peek
         /\ Keep /\ EndHere({}) => (ReadOn' <=> ReadOn) /\ (ReadOff' <=> ReadOff)
         /\ \A label, locals :
              Keep /\ Goto(label, locals) => (ReadOn' <=> ReadOn) /\ (ReadOff' <=> ReadOff)
         /\ \A function, label, locals :
              Keep /\ Call(function, label, locals) =>
                (ReadOn' <=> ReadOn) /\ (ReadOff' <=> ReadOff)
         /\ \A value :
              Keep /\ (Return(value) \/ ReturnRestoring(value)) =>
                /\ ReadOn => ReadOn'
                /\ ReadOff => ReadOff'
                /\ value.kind = "throw" => ReadOn'
                /\ value.kind = "function" => ReadOff'
         /\ \A value : Return(value) /\ value.kind = "postfix" => ReadOff'
         /\ advance(FALSE) \/ Open => ReadOn'
         /\ advance(TRUE) => ReadOff'
<1> PICK n \in Nat : n = here /\ n >= 1 /\ n = Len(input) /\ n = Len(division)
  BY DEF ReadOK, here
<1>1. ASSUME Keep PROVE peek' = peek /\ input' = input /\ division'[here'] = division[here]
  BY <1>1 DEF Keep, reading, here, peek, TypeOf
<1>2. ASSUME Keep, NEW kinds, EndHere(kinds) PROVE ended' = kinds \union ended
  BY <1>1, <1>2 DEF EndHere
<1>3. Keep /\ EndHere({}) => (ReadOn' <=> ReadOn) /\ (ReadOff' <=> ReadOff)
  <2> SUFFICES ASSUME Keep, EndHere({})
               PROVE  (ReadOn' <=> ReadOn) /\ (ReadOff' <=> ReadOff)
    OBVIOUS
  <2>1. ended' = {} \union ended
    BY <1>2
  <2>2. ended' = ended
    BY <2>1
  <2> QED
    BY <1>1, <2>2 DEF ReadOn, ReadOff
<1>4. ASSUME NEW value, Return(value) \/ ReturnRestoring(value) PROVE EndHere({value.kind})
  BY <1>4 DEF Return, ReturnRestoring
<1>5. ASSUME NEW value, Keep, Return(value) \/ ReturnRestoring(value)
      PROVE  /\ ReadOn => ReadOn'
             /\ ReadOff => ReadOff'
             /\ value.kind = "throw" => ReadOn'
             /\ value.kind = "function" => ReadOff'
  <2>1. ended' = {value.kind} \union ended
    BY <1>2, <1>4, <1>5
  <2>2. division'[here'] = division[here]
    BY <1>1, <1>5
  <2> QED
    BY <2>1, <2>2 DEF ReadOn, ReadOff
<1>6. ASSUME NEW value, Return(value), value.kind = "postfix" PROVE ReadOff'
  <2>1. "postfix" \in ended'
    BY <1>4, <1>6 DEF EndHere
  <2> QED
    BY <2>1 DEF ReadOff
<1>7. ASSUME NEW next, NEW mode, input' = Append(input, next), division' = Append(division, mode)
      PROVE  division'[here'] = mode
  <2>1. here' = n + 1
    BY <1>7 DEF ReadOK, here
  <2>2. division'[n + 1] = mode
    BY <1>7 DEF ReadOK
  <2> QED
    BY <2>1, <2>2
<1>8. advance(FALSE) \/ Open => ReadOn'
  BY <1>7 DEF advance, Open, ReadOn
<1>9. advance(TRUE) => ReadOff'
  BY <1>7 DEF advance, ReadOff
<1>10. \A label, locals : Goto(label, locals) => EndHere({})
  BY DEF Goto
<1>11. \A function, label, locals : Call(function, label, locals) => EndHere({})
  BY DEF Call
<1> QED
  BY <1>1, <1>3, <1>5, <1>6, <1>8, <1>9, <1>10, <1>11

-----------------------------------------------------------------------------

(* How a step may read.                                                    *)
Reads == Keep \/ advance(FALSE) \/ advance(TRUE) \/ Open

(* What a text has it keeps.                                               *)
LEMMA Seen ==
  ASSUME ReadOK
  PROVE  Has(peek) /\ (Reads /\ Has("FUNCTION") => Has("FUNCTION")')
<1> PICK n \in Nat : n = here /\ n >= 1 /\ n = Len(input)
  BY DEF ReadOK, here
<1>1. Has(peek)
  BY DEF Has, peek
<1>2. Keep /\ Has("FUNCTION") => Has("FUNCTION")'
  BY DEF Keep, reading, here, Has, TypeOf
<1>3. ASSUME NEW next, input' = Append(input, next), Has("FUNCTION") PROVE Has("FUNCTION")'
  <2>1. here' = n + 1 /\ \A k \in 1..n : input'[k] = input[k]
    BY <1>3 DEF ReadOK, here
  <2>2. \A k \in 1..n : k \in 1..n + 1
    OBVIOUS
  <2> QED
    BY <1>3, <2>1, <2>2 DEF Has, TypeOf
<1>4. (advance(FALSE) \/ advance(TRUE) \/ Open) /\ Has("FUNCTION") => Has("FUNCTION")'
  BY <1>3 DEF advance, Open
<1> QED
  BY <1>1, <1>2, <1>4 DEF Reads

(* What the innermost call may go on to,                                   *)
Follows(label, locals) ==
  /\ Sites(Top.at) \subseteq Sites(label)
  /\ label \in RhsLabels => locals[1] = 3 \/ (Top.at \in RhsLabels /\ locals[1] = mem[1])
  /\ label \in FunctionLabels => Has("FUNCTION")

(* what it may call from there,                                            *)
Called(function, label) ==
  /\ label \in Sites(function)
  /\ function \notin FunctionLabels
  /\ function \in RhsLabels => label # "Ternary.first"

(* and what is asked of the token and the value it leaves.                 *)
Wanted(label, locals, value) == Fine(label, locals, ReadOn', ReadOff', peek', value)

(* The links below a new innermost frame.                                  *)
LEMMA ReplacedLinks ==
  ASSUME Typed, status = "running", Flow, Reads, NEW label, NEW locals, Follows(label, locals),
         NEW f, f.at = label, f.mem = locals
  PROVE  /\ \A k \in 1..Len(stack) - 1 - 1 : Linked(stack[k], stack[k + 1])
         /\ Len(stack) > 1 => Linked(stack[Len(stack) - 1], f)
         /\ \A k \in 1..Len(stack) - 1 : stack[k].at \in FunctionLabels => Has("FUNCTION")'
         /\ label \in FunctionLabels => Has("FUNCTION")'
<1> PICK n \in Nat : n = Len(stack) /\ n >= 1
  BY Running DEF Typed
<1>1. \A k \in 1..n - 1 - 1 : k \in 1..n - 1
  OBVIOUS
<1>2. \A k \in 1..n - 1 - 1 : Linked(stack[k], stack[k + 1])
  BY <1>1 DEF Flow, Links
<1>3. ASSUME n > 1 PROVE Linked(stack[n - 1], f)
  <2>1. n - 1 \in 1..n - 1 /\ n - 1 + 1 = n
    BY <1>3
  <2>2. Linked(stack[n - 1], stack[n])
    BY <2>1 DEF Flow, Links
  <2>3. stack[n - 1].at \in Sites(Top.at) /\ Top = stack[n]
    BY <2>2 DEF Linked, Top
  <2> QED
    BY <2>2, <2>3 DEF Linked, Follows, mem
<1>4. Has("FUNCTION") => Has("FUNCTION")'
  BY Seen DEF Typed
<1>5. \A k \in 1..n - 1 : k \in 1..n
  OBVIOUS
<1> QED
  BY <1>2, <1>3, <1>4, <1>5 DEF Flow, Known, Follows

(* The innermost call goes on,                                             *)
LEMMA GotoFlows ==
  ASSUME Typed, status = "running", Flow, Reads, NEW label, NEW locals, Follows(label, locals),
         stack' = Append(Callers, Frame(label, locals, Top.from)), Wanted(label, locals, ret')
  PROVE  Flow'
<1> PICK n \in Nat : n = Len(stack) /\ n >= 1
  BY Running DEF Typed
<1> DEFINE f == Frame(label, locals, Top.from)
<1>1. /\ Len(stack') = n
      /\ \A k \in 1..n - 1 : stack'[k] = stack[k]
      /\ stack'[n] = f
  BY Running, OneMore DEF Typed
<1>2. f.at = label /\ f.mem = locals
  BY DEF Frame
<1> HIDE DEF f
<1>3. /\ \A k \in 1..n - 1 - 1 : Linked(stack[k], stack[k + 1])
      /\ n > 1 => Linked(stack[n - 1], f)
      /\ \A k \in 1..n - 1 : stack[k].at \in FunctionLabels => Has("FUNCTION")'
      /\ label \in FunctionLabels => Has("FUNCTION")'
  BY <1>2, ReplacedLinks
<1>4. ASSUME NEW k \in 1..n - 1 PROVE Linked(stack'[k], stack'[k + 1])
  <2>1. CASE k = n - 1
    BY <1>1, <1>3, <2>1
  <2>2. CASE k # n - 1
    <3>1. k \in 1..n - 1 - 1 /\ k + 1 \in 1..n - 1
      BY <2>2
    <3> QED
      BY <1>1, <1>3, <3>1
  <2> QED
    BY <2>1, <2>2
<1>5. Links'
  BY <1>1, <1>4 DEF Links
<1>6. Known'
  <2>1. \A k \in 1..n : k = n \/ k \in 1..n - 1
    OBVIOUS
  <2> QED
    BY <1>1, <1>2, <1>3, <2>1 DEF Known
<1>7. Top'.at = label /\ mem' = locals
  BY <1>1, <1>2 DEF Top, mem
<1> QED
  BY <1>5, <1>6, <1>7 DEF Flow, Wanted

(* calls another function,                                                 *)
LEMMA CallFlows ==
  ASSUME Typed, status = "running", Flow, Reads, NEW label, NEW locals, Follows(label, locals),
         NEW function, NEW more, Called(function, label), NEW first,
         stack' = Callers \o <<Frame(label, locals, Top.from), Frame(function, more, first)>>,
         Wanted(function, more, ret')
  PROVE  Flow'
<1> PICK n \in Nat : n = Len(stack) /\ n >= 1
  BY Running DEF Typed
<1> DEFINE f == Frame(label, locals, Top.from)
           g == Frame(function, more, first)
<1>1. /\ Len(stack') = n + 1
      /\ \A k \in 1..n - 1 : stack'[k] = stack[k]
      /\ stack'[n] = f /\ stack'[n + 1] = g
  BY Pushed DEF Typed
<1>2. f.at = label /\ f.mem = locals /\ g.at = function /\ g.mem = more
  BY DEF Frame
<1> HIDE DEF f, g
<1>3. /\ \A k \in 1..n - 1 - 1 : Linked(stack[k], stack[k + 1])
      /\ n > 1 => Linked(stack[n - 1], f)
      /\ \A k \in 1..n - 1 : stack[k].at \in FunctionLabels => Has("FUNCTION")'
      /\ label \in FunctionLabels => Has("FUNCTION")'
  BY <1>2, ReplacedLinks
<1>4. Linked(f, g)
  BY <1>2 DEF Linked, Called
<1>5. ASSUME NEW k \in 1..n PROVE Linked(stack'[k], stack'[k + 1])
  <2>1. CASE k = n
    BY <1>1, <1>4, <2>1
  <2>2. CASE k = n - 1
    <3>1. k \in 1..n - 1 /\ k + 1 = n /\ n > 1
      BY <2>2
    <3> QED
      BY <1>1, <1>3, <2>2, <3>1
  <2>3. CASE k # n /\ k # n - 1
    <3>1. k \in 1..n - 1 - 1 /\ k + 1 \in 1..n - 1 /\ k \in 1..n - 1
      BY <2>3
    <3> QED
      BY <1>1, <1>3, <3>1
  <2> QED
    BY <2>1, <2>2, <2>3
<1>6. Links'
  <2>1. Len(stack') - 1 = n
    BY <1>1
  <2>2. Links' <=> \A k \in 1..Len(stack') - 1 : Linked(stack'[k], stack'[k + 1])
    BY DEF Links, Linked
  <2> QED
    BY <1>5, <2>1, <2>2
<1>7. Known'
  <2>1. \A k \in 1..n + 1 : k = n + 1 \/ k = n \/ k \in 1..n - 1
    OBVIOUS
  <2>2. function \notin FunctionLabels
    BY DEF Called
  <2> QED
    BY <1>1, <1>2, <1>3, <2>1, <2>2 DEF Known
<1>8. Top'.at = function /\ mem' = more
  BY <1>1, <1>2 DEF Top, mem
<1> QED
  BY <1>6, <1>7, <1>8 DEF Flow, Wanted

(* or returns to a caller that can do with the token and the value.        *)
LEMMA ReturnFlows ==
  ASSUME Typed, status = "running", Flow, Reads, Top.at \notin Entry, stack' = Callers,
         \A caller : Linked(caller, Top) => Wanted(caller.at, caller.mem, ret')
  PROVE  Flow'
<1> PICK n \in Nat : n = Len(stack) /\ n >= 1
  BY Running DEF Typed
<1>1. Len(stack') = n - 1 /\ \A k \in 1..n - 1 : stack'[k] = stack[k] /\ k \in 1..n
  BY Running DEF Typed
<1>2. n # 1
  BY Running DEF Typed, FrameOK
<1>3. \A k \in 1..n - 1 - 1 : k \in 1..n - 1 /\ k + 1 \in 1..n - 1
  OBVIOUS
<1>4. Links'
  BY <1>1, <1>3 DEF Flow, Links
<1>5. n - 1 \in 1..n - 1 /\ n - 1 + 1 = n
  BY <1>2
<1>6. Linked(stack[n - 1], Top)
  BY <1>5 DEF Flow, Links, Top
<1>7. Top' = stack[n - 1]
  BY <1>1, <1>5 DEF Top
<1>8. Known'
  BY <1>1, Seen DEF Flow, Known, Typed
<1> QED
  BY <1>4, <1>6, <1>7, <1>8 DEF Flow, Wanted, mem

(* Whatever a function does, with what its label asks for.                 *)
LEMMA FlowSteps ==
  ASSUME Typed, status = "running", Flow
  PROVE  /\ \A label, locals :
              Goto(label, locals) /\ Reads /\ Follows(label, locals)
              /\ Wanted(label, locals, ret) => Flow'
         /\ \A function, label, locals :
              Call(function, label, locals) /\ Reads /\ Follows(label, locals)
              /\ Called(function, label) /\ Wanted(function, <<>>, ret) => Flow'
         /\ \A value :
              /\ Return(value) \/ ReturnRestoring(value)
              /\ Reads /\ Top.at \notin Entry
              /\ \A caller : Linked(caller, Top) => Wanted(caller.at, caller.mem, value)
              => Flow'
         /\ Throw => Flow'
         /\ Fine(Top.at, mem, ReadOn, ReadOff, peek, ret)
         /\ Top.at \in FunctionLabels => Has("FUNCTION")
<1>1. ASSUME NEW label, NEW locals, Goto(label, locals), Reads, Follows(label, locals),
             Wanted(label, locals, ret)
      PROVE  Flow'
  BY <1>1, GotoFlows DEF Goto
<1>2. ASSUME NEW function, NEW label, NEW locals, Call(function, label, locals), Reads,
             Follows(label, locals), Called(function, label), Wanted(function, <<>>, ret)
      PROVE  Flow'
  <2>1. PICK first : first = Len(input')
    OBVIOUS
  <2>2. /\ stack' = Callers \o <<Frame(label, locals, Top.from), Frame(function, <<>>, first)>>
        /\ ret' = ret
    BY <1>2, <2>1 DEF Call
  <2> QED
    BY <1>2, <2>2, CallFlows
<1>3. ASSUME NEW value, Return(value) \/ ReturnRestoring(value), Reads, Top.at \notin Entry,
             \A caller : Linked(caller, Top) => Wanted(caller.at, caller.mem, value)
      PROVE  Flow'
  <2>1. ret' = value /\ stack' = Callers
    BY <1>3 DEF Return, ReturnRestoring
  <2> QED
    BY <1>3, <2>1, ReturnFlows
<1>4. Throw => Flow'
  BY DEF Throw, Flow
<1>5. Top = stack[Len(stack)] /\ Len(stack) \in 1..Len(stack)
  BY Running DEF Top, Typed
<1>6. /\ Fine(Top.at, mem, ReadOn, ReadOff, peek, ret)
      /\ Top.at \in FunctionLabels => Has("FUNCTION")
  BY <1>5 DEF Flow, Known
<1> QED
  BY <1>1, <1>2, <1>3, <1>4, <1>6

-----------------------------------------------------------------------------

(* Labels that ask for nothing, and labels that ask only that the token    *)
(* was read with regular expressions on.                                   *)
Careless ==
  {"Dot", "Index", "Object", "Object.name", "Object.value", "Object.assign", "Object.next",
   "Method", "Method.body", "Parameters", "Parameters.first", "Parameters.name",
   "Parameters.next", "Expression.end", "If", "If.open", "If.close", "For", "For.open", "For.in",
   "For.second", "For.third", "While", "While.open", "While.close", "Do", "Do.open", "Do.close",
   "Do.end", "Return", "Return.end", "Switch", "Switch.open", "Switch.close", "Switch.brace",
   "Switch.clause", "Switch.case", "Switch.default", "Break", "Try", "Try.open", "Try.close",
   "Throw", "Throw.end", "Function", "Function.name", "Block", "Variable", "Declaration",
   "Case", "Case.first", "Case.colon", "Default", "Default.colon", "Array.next",
   "Arguments.next", "Ternary.second"}

(* What makes a label content,                                             *)
LEMMA Demands ==
  /\ \A label \in Careless : \A locals, value : Wanted(label, locals, value)
  /\ ReadOn' => \A label \in RegexOn \union {"For.head"} : \A locals, value :
                  Wanted(label, locals, value)
  /\ ReadOff' => /\ \A locals, value : ~IsVar(locals[2]) => Wanted("Rhs", locals, value)
                 /\ \A locals, value : ~IsVar(locals[1]) => Wanted("Member.next", locals, value)
                 /\ \A locals, value : Wanted("Rhs.merge", locals, value)
                 /\ \A label \in {"New.target", "Unary.operand", "Unary.postfix", "Binary.left",
                                  "Rhs.operand", "Member.first"} : \A locals, value :
                      ~IsVar(value) => Wanted(label, locals, value)
  /\ Precedence(peek') < 3 =>
       \A label \in {"Ternary.first"} \union AssignSites \union {"Assign.left"} : \A locals, value :
         ~IsVar(value) => Wanted(label, locals, value)
  /\ \A label \in CommaSites : \A locals, value : ~IsVar(value) => Wanted(label, locals, value)
  /\ \A locals, value : (peek' = "IN" => ReadOn') => Wanted("Variable.next", locals, value)
  /\ \A locals, value : (peek' # "IN" => ReadOn') => Wanted("For.head", locals, value)
  BY DEF Wanted, Fine, Careless, RegexOn, RegexOff, RhsLabels, Lowest, Values, StatementSites,
         BlockSites, AssignSites, CommaSites

(* and what it offers in turn.                                             *)
LEMMA Offers ==
  ASSUME Fine(Top.at, mem, ReadOn, ReadOff, peek, ret)
  PROVE  /\ Top.at \in RegexOn => ReadOn
         /\ Top.at \in RegexOff => ReadOff
         /\ Top.at \in Lowest => Precedence(peek) < 3
         /\ Top.at \in Values => ~IsVar(ret)
         /\ Top.at = "Rhs" => ~IsVar(mem[2])
         /\ Top.at = "Member.next" => ~IsVar(mem[1])
         /\ Top.at = "Variable.next" /\ peek = "IN" => ReadOn
         /\ Top.at = "For.head" /\ IsVar(ret) /\ peek # "IN" => ReadOn
  BY DEF Fine

(* Only a variable statement returns a variable statement, and the node    *)
(* that is returned is of its kind.                                        *)
LEMMA NodesVary ==
  /\ \A kind, op, kids : kind # "var" => ~IsVar(Node(kind, op, kids))
  /\ \A i : ~IsVar(Leaf(i))
  /\ ~IsVar(Null) /\ ~IsVar(Undefined)
  /\ \A kind, op, kids : Node(kind, op, kids).kind = kind
  BY DEF IsVar, Node, Leaf, Null, Undefined

(* The word `in` is an operator.                                           *)
LEMMA LowTokens ==
  Precedence("IN") = 10
  BY DEF Precedence, Levels, AssignTypes

(* The parse functions, one by one.                                        *)
LEMMA CommaFlows ==
  ASSUME Typed, Flow, ParseCommaExpression
  PROVE  Flow'
<1> DEFINE Mine == {"Comma", "Comma.next"}
<1>1. status = "running" /\ Top.at \in Mine
  BY DEF ParseCommaExpression, At
<1>2. \A label \in Mine :
        /\ Sites(label) = CommaSites
        /\ label \notin RhsLabels \union FunctionLabels \union Entry
  BY SitesTable DEF RhsLabels, FunctionLabels, Entry
<1>3. \A label \in Mine : \A locals : Follows(label, locals)
  BY <1>1, <1>2 DEF Follows
<1>4. Called("Assign", "Comma.next")
  BY SitesTable DEF Called, RhsLabels, FunctionLabels, AssignSites
<1>5. ASSUME NEW value, ~IsVar(value), NEW caller, Linked(caller, Top)
      PROVE  Wanted(caller.at, caller.mem, value)
  BY <1>1, <1>2, <1>5, Demands DEF Linked
<1>6. ReadOn' => \A label \in {"Assign"} : \A locals : Wanted(label, locals, ret)
  BY Demands DEF RegexOn, StatementSites, Careless
<1>7. /\ Top.at = "Comma" => ReadOn
      /\ Top.at = "Comma.next" => ~IsVar(ret)
  BY <1>1, FlowSteps, Offers DEF RegexOn, Values, StatementSites
<1> QED
  BY <1>1, <1>2, <1>3, <1>4, <1>5, <1>6, <1>7,
     FlowSteps, Modes, NodesVary
     DEF ParseCommaExpression, Reads, Typed, At

LEMMA AssignFlows ==
  ASSUME Typed, Flow, ParseAssignExpression
  PROVE  Flow'
<1> DEFINE Mine == {"Assign", "Assign.left", "Assign.right"}
<1>1. status = "running" /\ Top.at \in Mine
  BY DEF ParseAssignExpression, At
<1>2. \A label \in Mine :
        /\ Sites(label) = AssignSites
        /\ label \notin RhsLabels \union FunctionLabels \union Entry
  BY SitesTable DEF RhsLabels, FunctionLabels, Entry
<1>3. \A label \in Mine : \A locals : Follows(label, locals)
  BY <1>1, <1>2 DEF Follows
<1>4. /\ Called("Ternary", "Assign.left")
      /\ Called("Assign", "Assign.right")
  BY SitesTable DEF Called, RhsLabels, FunctionLabels, AssignSites
<1>5. ASSUME NEW value, ~IsVar(value), Precedence(peek') < 3, NEW caller, Linked(caller,
       Top)
      PROVE  Wanted(caller.at, caller.mem, value)
  BY <1>1, <1>2, <1>5, Demands DEF Linked
<1>6. ReadOn' => \A label \in {"Ternary", "Assign"} : \A locals : Wanted(label, locals, ret)
  BY Demands DEF RegexOn, StatementSites, Careless
<1>7. /\ Top.at = "Assign" => ReadOn
      /\ Top.at = "Assign.left" => Precedence(peek) < 3 /\ ~IsVar(ret)
      /\ Top.at = "Assign.right" => Precedence(peek) < 3
  BY <1>1, FlowSteps, Offers DEF Lowest, RegexOn, Values, StatementSites
<1> QED
  BY <1>1, <1>2, <1>3, <1>4, <1>5, <1>6, <1>7,
     FlowSteps, Modes, NodesVary
     DEF ParseAssignExpression, Reads, Typed, At

LEMMA TernaryFlows ==
  ASSUME Typed, Flow, ParseTernaryExpression
  PROVE  Flow'
<1> DEFINE Mine == {"Ternary", "Ternary.first", "Ternary.second", "Ternary.third"}
<1>1. status = "running" /\ Top.at \in Mine
  BY DEF ParseTernaryExpression, At
<1>2. \A label \in Mine :
        /\ Sites(label) = {"Assign.left"}
        /\ label \notin RhsLabels \union FunctionLabels \union Entry
  BY SitesTable DEF RhsLabels, FunctionLabels, Entry
<1>3. \A label \in Mine : \A locals : Follows(label, locals)
  BY <1>1, <1>2 DEF Follows
<1>4. /\ Called("Binary", "Ternary.first")
      /\ Called("Assign", "Ternary.second")
      /\ Called("Assign", "Ternary.third")
  BY SitesTable DEF Called, RhsLabels, FunctionLabels, AssignSites
<1>5. ASSUME NEW value, ~IsVar(value), Precedence(peek') < 3, NEW caller, Linked(caller,
       Top)
      PROVE  Wanted(caller.at, caller.mem, value)
  BY <1>1, <1>2, <1>5, Demands DEF Linked
<1>6. ReadOn' => \A label \in {"Binary", "Assign"} : \A locals : Wanted(label, locals, ret)
  BY Demands DEF RegexOn, StatementSites, Careless
<1>7. /\ Top.at = "Ternary" => ReadOn
      /\ Top.at = "Ternary.first" => Precedence(peek) < 3 /\ ~IsVar(ret)
      /\ Top.at = "Ternary.third" => Precedence(peek) < 3
  BY <1>1, FlowSteps, Offers DEF Lowest, RegexOn, Values, StatementSites
<1> QED
  BY <1>1, <1>2, <1>3, <1>4, <1>5, <1>6, <1>7,
     FlowSteps, Modes, NodesVary
     DEF ParseTernaryExpression, Reads, Typed, At, EatAs, Eat

LEMMA UnaryFlows ==
  ASSUME Typed, Flow, ParseUnaryExpression
  PROVE  Flow'
<1> DEFINE Mine == {"Unary", "Unary.operand", "Unary.postfix"}
<1>1. status = "running" /\ Top.at \in Mine
  BY DEF ParseUnaryExpression, At
<1>2. \A label \in Mine :
        /\ Sites(label) = {"Unary.operand", "Binary.left", "Rhs.operand"}
        /\ label \notin RhsLabels \union FunctionLabels \union Entry
  BY SitesTable DEF RhsLabels, FunctionLabels, Entry
<1>3. \A label \in Mine : \A locals : Follows(label, locals)
  BY <1>1, <1>2 DEF Follows
<1>4. /\ Called("Unary", "Unary.operand")
      /\ Called("LeftHandSide", "Unary.postfix")
  BY SitesTable DEF Called, RhsLabels, FunctionLabels
<1>5. ASSUME NEW value, ~IsVar(value), ReadOff', NEW caller, Linked(caller, Top)
      PROVE  Wanted(caller.at, caller.mem, value)
  BY <1>1, <1>2, <1>5, Demands DEF Linked
<1>6. ReadOn' => \A label \in {"Unary", "LeftHandSide"} : \A locals : Wanted(label, locals, ret)
  BY Demands DEF RegexOn, StatementSites, Careless
<1>7. /\ Top.at = "Unary" => ReadOn
      /\ Top.at = "Unary.operand" => ReadOff
      /\ Top.at = "Unary.postfix" => ReadOff /\ ~IsVar(ret)
  BY <1>1, FlowSteps, Offers DEF RegexOff, RegexOn, Values, StatementSites
<1>8. ASSUME NEW op, NEW kids, advance(FALSE), Return(Node("postfix", op, kids)) PROVE Flow'
  <2>1. Node("postfix", op, kids).kind = "postfix" /\ ~IsVar(Node("postfix", op, kids))
    BY NodesVary
  <2>2. ReadOff'
    BY <1>8, <2>1, Modes DEF Typed
  <2> QED
    BY <1>1, <1>2, <1>5, <1>8, <2>1, <2>2, FlowSteps DEF Reads
<1>9. ASSUME NEW locals, advance(FALSE), Call("Unary", "Unary.operand", locals) PROVE Flow'
  BY <1>1, <1>3, <1>4, <1>6, <1>9, FlowSteps, Modes DEF Reads, Typed
<1>10. ASSUME Top.at = "Unary", Keep, Call("LeftHandSide", "Unary.postfix", <<>>) PROVE Flow'
  <2>1. ReadOn'
    BY <1>7, <1>10, Modes DEF Typed
  <2> QED
    BY <1>1, <1>3, <1>4, <1>6, <1>10, <2>1, FlowSteps DEF Reads
<1>11. ASSUME Top.at \in {"Unary.operand", "Unary.postfix"}, NEW value, ~IsVar(value), Keep,
              Return(value)
       PROVE  Flow'
  <2>1. ReadOff'
    BY <1>7, <1>11, Modes DEF Typed
  <2> QED
    BY <1>1, <1>2, <1>5, <1>11, <2>1, FlowSteps DEF Reads
<1> QED
  BY <1>1, <1>7, <1>8, <1>9, <1>10, <1>11, NodesVary DEF ParseUnaryExpression, At

LEMMA NewFlows ==
  ASSUME Typed, Flow, ParseNewExpression
  PROVE  Flow'
<1> DEFINE Mine == {"LeftHandSide", "New.target", "Member"}
<1>1. status = "running" /\ Top.at \in Mine
  BY DEF ParseNewExpression, At
<1>2. \A label \in Mine :
        /\ Sites(label) = {"New.target", "Unary.postfix"}
        /\ label \notin RhsLabels \union FunctionLabels \union Entry
  BY SitesTable DEF RhsLabels, FunctionLabels, Entry
<1>3. \A label \in Mine : \A locals : Follows(label, locals)
  BY <1>1, <1>2 DEF Follows
<1>4. Called("LeftHandSide", "New.target")
  BY SitesTable DEF Called, RhsLabels, FunctionLabels
<1>5. ASSUME NEW value, ~IsVar(value), ReadOff', NEW caller, Linked(caller, Top)
      PROVE  Wanted(caller.at, caller.mem, value)
  BY <1>1, <1>2, <1>5, Demands DEF Linked
<1>6. ReadOn' => \A label \in {"LeftHandSide", "Member"} : \A locals :
           Wanted(label, locals, ret)
  BY Demands DEF RegexOn, StatementSites, Careless
<1>7. /\ Top.at = "LeftHandSide" => ReadOn
      /\ Top.at = "New.target" => ReadOff
  BY <1>1, FlowSteps, Offers DEF RegexOff, RegexOn, StatementSites
<1> QED
  BY <1>1, <1>2, <1>3, <1>4, <1>5, <1>6, <1>7,
     FlowSteps, Modes, NodesVary
     DEF ParseNewExpression, Reads, Typed, At, Become

LEMMA MemberFlows ==
  ASSUME Typed, Flow, ParseMemberExpression
  PROVE  Flow'
<1> DEFINE Mine == {"Member", "Member.first", "Member.next", "Dot", "Index", "Arguments"}
<1>1. status = "running" /\ Top.at \in Mine
  BY DEF ParseMemberExpression, At
<1>2. \A label \in Mine :
        /\ Sites(label) = {"New.target", "Unary.postfix"}
        /\ label \notin RhsLabels \union FunctionLabels \union Entry
  BY SitesTable DEF RhsLabels, FunctionLabels, Entry
<1>3. \A label \in Mine : \A locals : Follows(label, locals)
  BY <1>1, <1>2 DEF Follows
<1>4. /\ Called("Primary", "Member.first")
      /\ Called("Assign", "Index")
  BY SitesTable DEF Called, RhsLabels, FunctionLabels, AssignSites
<1>5. ASSUME NEW value, ~IsVar(value), ReadOff', NEW caller, Linked(caller, Top)
      PROVE  Wanted(caller.at, caller.mem, value)
  BY <1>1, <1>2, <1>5, Demands DEF Linked
<1>6. /\ ReadOn' => \A label \in {"Primary", "Assign", "Arguments"} : \A locals :
           Wanted(label, locals, ret)
      /\ \A label \in {"Dot"} : \A locals : Wanted(label, locals, ret)
      /\ ReadOff' => \A locals : ~IsVar(locals[1]) => Wanted("Member.next", locals, ret)
  BY Demands DEF RegexOn, StatementSites, Careless
<1>7. /\ Top.at = "Member" => ReadOn
      /\ Top.at = "Member.first" => ReadOff /\ ~IsVar(ret)
      /\ Top.at = "Member.next" => ReadOff /\ ~IsVar(mem[1])
  BY <1>1, FlowSteps, Offers DEF RegexOff, RegexOn, Values, StatementSites
<1>8. ASSUME Top.at = "Member", NEW locals, Keep, Call("Primary", "Member.first", locals)
      PROVE  Flow'
  BY <1>1, <1>3, <1>4, <1>6, <1>7, <1>8, FlowSteps, Modes DEF Reads, Typed
<1>9. ASSUME Top.at = "Member.first", Keep, Goto("Member.next", <<ret>>) PROVE Flow'
  BY <1>1, <1>3, <1>6, <1>7, <1>9, FlowSteps, Modes DEF Reads, Typed
<1>10. ASSUME Top.at = "Member.next", NEW locals, advance(FALSE),
             Goto("Dot", locals) \/ Goto("Arguments", locals)
      PROVE  Flow'
  BY <1>1, <1>3, <1>6, <1>10, FlowSteps, Modes DEF Reads, Typed
<1>11. ASSUME NEW locals, advance(FALSE), Call("Assign", "Index", locals) PROVE Flow'
  BY <1>1, <1>3, <1>4, <1>6, <1>11, FlowSteps, Modes DEF Reads, Typed
<1>12. ASSUME Top.at = "Member.next", Keep, Return(mem[1]) PROVE Flow'
  BY <1>1, <1>2, <1>5, <1>7, <1>12, FlowSteps, Modes DEF Reads, Typed
<1>13. Throw => Flow'
  BY <1>1, FlowSteps
<1> QED
  BY <1>1, <1>8, <1>9, <1>10, <1>11, <1>12, <1>13
     DEF ParseMemberExpression, At

LEMMA DotFlows ==
  ASSUME Typed, Flow, ParseDotExpression
  PROVE  Flow'
<1> DEFINE Mine == {"Dot", "Member.next"}
<1>1. status = "running" /\ Top.at \in Mine
  BY DEF ParseDotExpression, At
<1>2. \A label \in Mine :
        /\ Sites(label) = {"New.target", "Unary.postfix"}
        /\ label \notin RhsLabels \union FunctionLabels \union Entry
  BY SitesTable DEF RhsLabels, FunctionLabels, Entry
<1>3. \A label \in Mine : \A locals : Follows(label, locals)
  BY <1>1, <1>2 DEF Follows
<1>4. ReadOff' => \A locals : ~IsVar(locals[1]) => Wanted("Member.next", locals, ret)
  BY Demands DEF RegexOn, StatementSites, Careless
<1> QED
  BY <1>1, <1>2, <1>3, <1>4,
     FlowSteps, Modes, NodesVary
     DEF ParseDotExpression, Reads, Typed, At, IsKeyword

LEMMA IndexFlows ==
  ASSUME Typed, Flow, ParseIndexExpression
  PROVE  Flow'
<1> DEFINE Mine == {"Index", "Member.next"}
<1>1. status = "running" /\ Top.at \in Mine
  BY DEF ParseIndexExpression, At
<1>2. \A label \in Mine :
        /\ Sites(label) = {"New.target", "Unary.postfix"}
        /\ label \notin RhsLabels \union FunctionLabels \union Entry
  BY SitesTable DEF RhsLabels, FunctionLabels, Entry
<1>3. \A label \in Mine : \A locals : Follows(label, locals)
  BY <1>1, <1>2 DEF Follows
<1>4. ReadOff' => \A locals : ~IsVar(locals[1]) => Wanted("Member.next", locals, ret)
  BY Demands DEF RegexOn, StatementSites, Careless
<1> QED
  BY <1>1, <1>2, <1>3, <1>4,
     FlowSteps, Modes, NodesVary
     DEF ParseIndexExpression, Reads, Typed, At, EatAs, Eat

LEMMA ArgumentsFlow ==
  ASSUME Typed, Flow, ParseArgumentList
  PROVE  Flow'
<1> DEFINE Mine == {"Arguments", "Arguments.next", "Member.next"}
<1>1. status = "running" /\ Top.at \in Mine
  BY DEF ParseArgumentList, At
<1>2. \A label \in Mine :
        /\ Sites(label) = {"New.target", "Unary.postfix"}
        /\ label \notin RhsLabels \union FunctionLabels \union Entry
  BY SitesTable DEF RhsLabels, FunctionLabels, Entry
<1>3. \A label \in Mine : \A locals : Follows(label, locals)
  BY <1>1, <1>2 DEF Follows
<1>4. Called("Assign", "Arguments.next")
  BY SitesTable DEF Called, RhsLabels, FunctionLabels, AssignSites
<1>5. /\ ReadOn' => \A label \in {"Assign"} : \A locals : Wanted(label, locals, ret)
      /\ ReadOff' => \A locals : ~IsVar(locals[1]) => Wanted("Member.next", locals, ret)
  BY Demands DEF RegexOn, StatementSites, Careless
<1>6. Top.at = "Arguments" => ReadOn
  BY <1>1, FlowSteps, Offers DEF RegexOn, StatementSites
<1> QED
  BY <1>1, <1>2, <1>3, <1>4, <1>5, <1>6,
     FlowSteps, Modes, NodesVary
     DEF ParseArgumentList, Reads, Typed, At, EatAs, Eat

LEMMA ArrayFlows ==
  ASSUME Typed, Flow, ParseArrayLiteral
  PROVE  Flow'
<1> DEFINE Mine == {"Array", "Array.next"}
<1>1. status = "running" /\ Top.at \in Mine
  BY DEF ParseArrayLiteral, At
<1>2. \A label \in Mine :
        /\ Sites(label) = {"Member.first"}
        /\ label \notin RhsLabels \union FunctionLabels \union Entry
  BY SitesTable DEF RhsLabels, FunctionLabels, Entry
<1>3. \A label \in Mine : \A locals : Follows(label, locals)
  BY <1>1, <1>2 DEF Follows
<1>4. Called("Assign", "Array.next")
  BY SitesTable DEF Called, RhsLabels, FunctionLabels, AssignSites
<1>5. ASSUME NEW value, ~IsVar(value), ReadOff', NEW caller, Linked(caller, Top)
      PROVE  Wanted(caller.at, caller.mem, value)
  BY <1>1, <1>2, <1>5, Demands DEF Linked
<1>6. ReadOn' => \A label \in {"Assign"} : \A locals : Wanted(label, locals, ret)
  BY Demands DEF RegexOn, StatementSites, Careless
<1>7. Top.at = "Array" => ReadOn
  BY <1>1, FlowSteps, Offers DEF RegexOn, StatementSites
<1> QED
  BY <1>1, <1>2, <1>3, <1>4, <1>5, <1>6, <1>7,
     FlowSteps, Modes, NodesVary
     DEF ParseArrayLiteral, Reads, Typed, At, EatAs, Eat

LEMMA ObjectFlows ==
  ASSUME Typed, Flow, ParseObjectLiteral
  PROVE  Flow'
<1> DEFINE Mine == {"Object", "Object.name", "Object.value", "Object.assign", "Object.next"}
<1>1. status = "running" /\ Top.at \in Mine
  BY DEF ParseObjectLiteral, At
<1>2. \A label \in Mine :
        /\ Sites(label) = {"Member.first"}
        /\ label \notin RhsLabels \union FunctionLabels \union Entry
  BY SitesTable DEF RhsLabels, FunctionLabels, Entry
<1>3. \A label \in Mine : \A locals : Follows(label, locals)
  BY <1>1, <1>2 DEF Follows
<1>4. /\ Called("Assign", "Object.assign")
      /\ Called("Method", "Object.assign")
  BY SitesTable DEF Called, RhsLabels, FunctionLabels, AssignSites
<1>5. ASSUME NEW value, ~IsVar(value), ReadOff', NEW caller, Linked(caller, Top)
      PROVE  Wanted(caller.at, caller.mem, value)
  BY <1>1, <1>2, <1>5, Demands DEF Linked
<1>6. /\ ReadOn' => \A label \in {"Assign"} : \A locals : Wanted(label, locals, ret)
      /\ \A label \in {"Method", "Object.name", "Object.value", "Object.next"} : \A locals :
           Wanted(label, locals, ret)
  BY Demands DEF RegexOn, StatementSites, Careless
<1>7. ASSUME NEW value, ~IsVar(value), advance(TRUE), Return(value) PROVE Flow'
  BY <1>1, <1>2, <1>5, <1>7, FlowSteps, Modes DEF Reads, Typed
<1>8. ASSUME NEW label \in {"Object.name", "Object.next"}, NEW locals, Keep, Goto(label, locals)
      PROVE  Flow'
  BY <1>1, <1>3, <1>6, <1>8, FlowSteps, Modes DEF Reads, Typed
<1>9. ASSUME NEW label \in {"Object.name", "Object.value"}, NEW locals, advance(FALSE),
             Goto(label, locals)
      PROVE  Flow'
  BY <1>1, <1>3, <1>6, <1>9, FlowSteps, Modes DEF Reads, Typed
<1>10. ASSUME NEW locals, advance(FALSE), Call("Assign", "Object.assign", locals) PROVE Flow'
  BY <1>1, <1>3, <1>4, <1>6, <1>10, FlowSteps, Modes DEF Reads, Typed
<1>11. ASSUME NEW locals, Keep \/ advance(FALSE), Call("Method", "Object.assign", locals)
      PROVE  Flow'
  BY <1>1, <1>3, <1>4, <1>6, <1>11, FlowSteps, Modes DEF Reads, Typed
<1>12. Throw => Flow'
  BY <1>1, FlowSteps
<1> QED
  BY <1>1, <1>7, <1>8, <1>9, <1>10, <1>11, <1>12, NodesVary
     DEF ParseObjectLiteral, At, EatAs, Eat

LEMMA MethodFlows ==
  ASSUME Typed, Flow, ParseObjectMethod
  PROVE  Flow'
<1> DEFINE Mine == {"Method", "Method.body", "Method.end"}
<1>1. status = "running" /\ Top.at \in Mine
  BY DEF ParseObjectMethod, At
<1>2. \A label \in Mine :
        /\ Sites(label) = {"Object.assign"}
        /\ label \notin RhsLabels \union FunctionLabels \union Entry
  BY SitesTable DEF RhsLabels, FunctionLabels, Entry
<1>3. \A label \in Mine : \A locals : Follows(label, locals)
  BY <1>1, <1>2 DEF Follows
<1>4. /\ Called("Parameters", "Method.body")
      /\ Called("Block", "Method.end")
  BY SitesTable DEF Called, RhsLabels, FunctionLabels, BlockSites,
       StatementSites
<1>5. ASSUME NEW value, NEW caller, Linked(caller, Top)
      PROVE  Wanted(caller.at, caller.mem, value)
  BY <1>1, <1>2, <1>5, Demands DEF Linked, Careless
<1>6. \A label \in {"Parameters", "Block"} : \A locals : Wanted(label, locals, ret)
  BY Demands DEF RegexOn, StatementSites, Careless
<1> QED
  BY <1>1, <1>2, <1>3, <1>4, <1>5, <1>6,
     FlowSteps, Modes, NodesVary
     DEF ParseObjectMethod, Reads, Typed, At

LEMMA IfFlows ==
  ASSUME Typed, Flow, ParseIfStatement
  PROVE  Flow'
<1> DEFINE Mine == {"If", "If.open", "If.close", "If.body", "If.else"}
<1>1. status = "running" /\ Top.at \in Mine
  BY DEF ParseIfStatement, At
<1>2. \A label \in Mine :
        /\ Sites(label) = StatementSites
        /\ label \notin RhsLabels \union FunctionLabels \union Entry
  BY SitesTable DEF RhsLabels, FunctionLabels, Entry
<1>3. \A label \in Mine : \A locals : Follows(label, locals)
  BY <1>1, <1>2 DEF Follows
<1>4. /\ Called("Comma", "If.close")
      /\ Called("Statement", "If.body")
      /\ Called("Statement", "If.else")
  BY SitesTable DEF Called, RhsLabels, FunctionLabels, CommaSites,
       StatementSites
<1>5. ASSUME NEW value, ReadOn', NEW caller, Linked(caller, Top)
      PROVE  Wanted(caller.at, caller.mem, value)
  BY <1>1, <1>2, <1>5, Demands DEF Linked, RegexOn, StatementSites
<1>6. /\ ReadOn' => \A label \in {"Comma", "Statement"} : \A locals : Wanted(label, locals, ret)
      /\ \A label \in {"If.open"} : \A locals : Wanted(label, locals, ret)
  BY Demands DEF RegexOn, StatementSites, Careless
<1>7. /\ Top.at = "If.body" => ReadOn
      /\ Top.at = "If.else" => ReadOn
  BY <1>1, FlowSteps, Offers DEF RegexOn, StatementSites
<1> QED
  BY <1>1, <1>2, <1>3, <1>4, <1>5, <1>6, <1>7,
     FlowSteps, Modes, NodesVary
     DEF ParseIfStatement, Reads, Typed, At, EatAs, Eat

LEMMA WhileFlows ==
  ASSUME Typed, Flow, ParseWhileStatement
  PROVE  Flow'
<1> DEFINE Mine == {"While", "While.open", "While.close", "While.body"}
<1>1. status = "running" /\ Top.at \in Mine
  BY DEF ParseWhileStatement, At
<1>2. \A label \in Mine :
        /\ Sites(label) = StatementSites
        /\ label \notin RhsLabels \union FunctionLabels \union Entry
  BY SitesTable DEF RhsLabels, FunctionLabels, Entry
<1>3. \A label \in Mine : \A locals : Follows(label, locals)
  BY <1>1, <1>2 DEF Follows
<1>4. /\ Called("Comma", "While.close")
      /\ Called("Statement", "While.body")
  BY SitesTable DEF Called, RhsLabels, FunctionLabels, CommaSites,
       StatementSites
<1>5. ASSUME NEW value, ReadOn', NEW caller, Linked(caller, Top)
      PROVE  Wanted(caller.at, caller.mem, value)
  BY <1>1, <1>2, <1>5, Demands DEF Linked, RegexOn, StatementSites
<1>6. /\ ReadOn' => \A label \in {"Comma", "Statement"} : \A locals : Wanted(label, locals, ret)
      /\ \A label \in {"While.open"} : \A locals : Wanted(label, locals, ret)
  BY Demands DEF RegexOn, StatementSites, Careless
<1>7. Top.at = "While.body" => ReadOn
  BY <1>1, FlowSteps, Offers DEF RegexOn, StatementSites
<1> QED
  BY <1>1, <1>2, <1>3, <1>4, <1>5, <1>6, <1>7,
     FlowSteps, Modes, NodesVary
     DEF ParseWhileStatement, Reads, Typed, At, EatAs, Eat

LEMMA DoFlows ==
  ASSUME Typed, Flow, ParseDoWhileStatement
  PROVE  Flow'
<1> DEFINE Mine == {"Do", "Do.while", "Do.open", "Do.close", "Do.end"}
<1>1. status = "running" /\ Top.at \in Mine
  BY DEF ParseDoWhileStatement, At
<1>2. \A label \in Mine :
        /\ Sites(label) = StatementSites
        /\ label \notin RhsLabels \union FunctionLabels \union Entry
  BY SitesTable DEF RhsLabels, FunctionLabels, Entry
<1>3. \A label \in Mine : \A locals : Follows(label, locals)
  BY <1>1, <1>2 DEF Follows
<1>4. /\ Called("Statement", "Do.while")
      /\ Called("Comma", "Do.close")
  BY SitesTable DEF Called, RhsLabels, FunctionLabels, CommaSites,
       StatementSites
<1>5. ASSUME NEW value, ReadOn', NEW caller, Linked(caller, Top)
      PROVE  Wanted(caller.at, caller.mem, value)
  BY <1>1, <1>2, <1>5, Demands DEF Linked, RegexOn, StatementSites
<1>6. /\ ReadOn' => \A label \in {"Comma", "Statement"} : \A locals : Wanted(label, locals, ret)
      /\ \A label \in {"Do.open", "Do.end"} : \A locals : Wanted(label, locals, ret)
  BY Demands DEF RegexOn, StatementSites, Careless
<1>7. ASSUME NEW locals, advance(FALSE), Call("Statement", "Do.while", locals) PROVE Flow'
  BY <1>1, <1>3, <1>4, <1>6, <1>7, FlowSteps, Modes DEF Reads, Typed
<1>8. ASSUME NEW locals, advance(FALSE), Call("Comma", "Do.close", locals) PROVE Flow'
  BY <1>1, <1>3, <1>4, <1>6, <1>8, FlowSteps, Modes DEF Reads, Typed
<1>9. ASSUME NEW label \in {"Do.open", "Do.end"}, NEW locals, advance(FALSE), Goto(label, locals)
      PROVE  Flow'
  BY <1>1, <1>3, <1>6, <1>9, FlowSteps, Modes DEF Reads, Typed
<1>10. ASSUME NEW value, advance(FALSE), Return(value) PROVE Flow'
  BY <1>1, <1>2, <1>5, <1>10, FlowSteps, Modes DEF Reads, Typed
<1>11. Throw => Flow'
  BY <1>1, FlowSteps
<1> QED
  BY <1>1, <1>7, <1>8, <1>9, <1>10, <1>11
     DEF ParseDoWhileStatement, At, EatAs, Eat

LEMMA ParametersFlow ==
  ASSUME Typed, Flow, ParseParameterList
  PROVE  Flow'
<1> DEFINE Mine == {"Parameters", "Parameters.first", "Parameters.name", "Parameters.next"}
<1>1. status = "running" /\ Top.at \in Mine
  BY DEF ParseParameterList, At
<1>2. \A label \in Mine :
        /\ Sites(label) = {"Function.body", "Method.body"}
        /\ label \notin RhsLabels \union FunctionLabels \union Entry
  BY SitesTable DEF RhsLabels, FunctionLabels, Entry
<1>3. \A label \in Mine : \A locals : Follows(label, locals)
  BY <1>1, <1>2 DEF Follows
<1>4. ASSUME NEW value, ReadOn', NEW caller, Linked(caller, Top)
      PROVE  Wanted(caller.at, caller.mem, value)
  BY <1>1, <1>2, <1>4, Demands DEF Linked, RegexOn, Careless
<1>5. \A label \in {"Parameters.first", "Parameters.name", "Parameters.next"} : \A locals :
           Wanted(label, locals, ret)
  BY Demands DEF RegexOn, StatementSites, Careless
<1> QED
  BY <1>1, <1>2, <1>3, <1>4, <1>5,
     FlowSteps, Modes, NodesVary
     DEF ParseParameterList, Reads, Typed, At, EatAs, Eat

LEMMA FunctionFlows ==
  ASSUME Typed, Flow, ParseFunctionStatement
  PROVE  Flow'
<1>1. status = "running" /\ Top.at \in FunctionLabels
  BY DEF ParseFunctionStatement, At, FunctionLabels
<1>2. \A label \in FunctionLabels :
        /\ Sites(label) = StatementSites \union {"Member.first"}
        /\ label \notin RhsLabels \union Entry
  BY SitesTable DEF FunctionLabels, RhsLabels, Entry
<1>3. \A label \in FunctionLabels : \A locals : Follows(label, locals)
  BY <1>1, <1>2, FlowSteps DEF Follows
<1>4. /\ Called("Parameters", "Function.body")
      /\ Called("Statement", "Function.end")
  BY SitesTable DEF Called, RhsLabels, FunctionLabels, StatementSites
<1>5. ASSUME NEW value, ~IsVar(value), ReadOn', ReadOff', NEW caller, Linked(caller, Top)
      PROVE  Wanted(caller.at, caller.mem, value)
  BY <1>1, <1>2, <1>5, Demands DEF Linked, RegexOn, StatementSites
<1>6. /\ ReadOn' => \A label \in {"Statement"} : \A locals : Wanted(label, locals, ret)
      /\ \A label \in {"Function.name", "Parameters"} : \A locals : Wanted(label, locals, ret)
  BY Demands DEF RegexOn, StatementSites, Careless
<1>7. /\ Top.at = "Function.body" => ReadOn
      /\ Top.at = "Function.end" => ReadOn
  BY <1>1, FlowSteps, Offers DEF RegexOn, StatementSites
<1>8. ASSUME NEW kids, Top.at = "Function.end", Keep, Return(Node("function", "", kids))
      PROVE  Flow'
  <2>1. PICK value : value = Node("function", "", kids)
    OBVIOUS
  <2>2. value.kind = "function" /\ ~IsVar(value)
    BY <2>1, NodesVary
  <2>3. Return(value)
    BY <1>8, <2>1
  <2>4. ReadOn' /\ ReadOff'
    BY <1>7, <1>8, <2>2, <2>3, Modes DEF Typed
  <2> QED
    BY <1>1, <1>2, <1>5, <1>8, <2>2, <2>3, <2>4, FlowSteps DEF Reads
<1> QED
  BY <1>1, <1>2, <1>3, <1>4, <1>5, <1>6, <1>7, <1>8,
     FlowSteps, Modes, NodesVary
     DEF ParseFunctionStatement, Reads, Typed, At, FunctionLabels

LEMMA BlockFlows ==
  ASSUME Typed, Flow, ParseBlockStatement
  PROVE  Flow'
<1> DEFINE Mine == {"Block", "Block.next", "Block.statement"}
<1>1. status = "running" /\ Top.at \in Mine
  BY DEF ParseBlockStatement, At
<1>2. \A label \in Mine :
        /\ Sites(label) = BlockSites
        /\ label \notin RhsLabels \union FunctionLabels \union Entry
  BY SitesTable DEF RhsLabels, FunctionLabels, Entry
<1>3. \A label \in Mine : \A locals : Follows(label, locals)
  BY <1>1, <1>2 DEF Follows
<1>4. Called("Statement", "Block.statement")
  BY SitesTable DEF Called, RhsLabels, FunctionLabels, StatementSites
<1>5. ASSUME NEW value, ReadOn', NEW caller, Linked(caller, Top)
      PROVE  Wanted(caller.at, caller.mem, value)
  BY <1>1, <1>2, <1>5, Demands DEF Linked, RegexOn, StatementSites, BlockSites
<1>6. ReadOn' => \A label \in {"Block.next", "Statement"} : \A locals :
           Wanted(label, locals, ret)
  BY Demands DEF RegexOn, StatementSites, Careless
<1>7. /\ Top.at = "Block.next" => ReadOn
      /\ Top.at = "Block.statement" => ReadOn
  BY <1>1, FlowSteps, Offers DEF RegexOn, StatementSites
<1> QED
  BY <1>1, <1>2, <1>3, <1>4, <1>5, <1>6, <1>7,
     FlowSteps, Modes, NodesVary
     DEF ParseBlockStatement, Reads, Typed, At, Open

LEMMA ReturnFlow ==
  ASSUME Typed, Flow, ParseReturnStatement
  PROVE  Flow'
<1> DEFINE Mine == {"Return", "Return.value", "Return.end"}
<1>1. status = "running" /\ Top.at \in Mine
  BY DEF ParseReturnStatement, At
<1>2. \A label \in Mine :
        /\ Sites(label) = StatementSites
        /\ label \notin RhsLabels \union FunctionLabels \union Entry
  BY SitesTable DEF RhsLabels, FunctionLabels, Entry
<1>3. \A label \in Mine : \A locals : Follows(label, locals)
  BY <1>1, <1>2 DEF Follows
<1>4. Called("Comma", "Return.end")
  BY SitesTable DEF Called, RhsLabels, FunctionLabels, CommaSites
<1>5. ASSUME NEW value, ReadOn', NEW caller, Linked(caller, Top)
      PROVE  Wanted(caller.at, caller.mem, value)
  BY <1>1, <1>2, <1>5, Demands DEF Linked, RegexOn, StatementSites
<1>6. ReadOn' => \A label \in {"Return.value", "Comma"} : \A locals : Wanted(label, locals, ret)
  BY Demands DEF RegexOn, StatementSites, Careless
<1>7. Top.at = "Return.value" => ReadOn
  BY <1>1, FlowSteps, Offers DEF RegexOn, StatementSites
<1> QED
  BY <1>1, <1>2, <1>3, <1>4, <1>5, <1>6, <1>7,
     FlowSteps, Modes, NodesVary
     DEF ParseReturnStatement, Reads, Typed, At, EatAs, Eat

LEMMA DeclarationFlows ==
  ASSUME Typed, Flow, ParseDeclaration
  PROVE  Flow'
<1> DEFINE Mine == {"Declaration", "Declaration.name", "Declaration.value"}
<1>1. status = "running" /\ Top.at \in Mine
  BY DEF ParseDeclaration, At
<1>2. \A label \in Mine :
        /\ Sites(label) = {"Variable.next"}
        /\ label \notin RhsLabels \union FunctionLabels \union Entry
  BY SitesTable DEF RhsLabels, FunctionLabels, Entry
<1>3. \A label \in Mine : \A locals : Follows(label, locals)
  BY <1>1, <1>2 DEF Follows
<1>4. Called("Assign", "Declaration.value")
  BY SitesTable DEF Called, RhsLabels, FunctionLabels, AssignSites
<1>5. ASSUME NEW value, peek' = "IN" => ReadOn', NEW caller, Linked(caller, Top)
      PROVE  Wanted(caller.at, caller.mem, value)
  BY <1>1, <1>2, <1>5, Demands DEF Linked
<1>6. ReadOn' => \A label \in {"Declaration.name", "Assign"} : \A locals :
           Wanted(label, locals, ret)
  BY Demands DEF RegexOn, StatementSites, Careless
<1>7. /\ Top.at = "Declaration.name" => ReadOn
      /\ Top.at = "Declaration.value" => peek # "IN"
  BY <1>1, FlowSteps, Offers, LowTokens DEF Lowest, RegexOn, StatementSites
<1> QED
  BY <1>1, <1>2, <1>3, <1>4, <1>5, <1>6, <1>7,
     FlowSteps, Modes, NodesVary
     DEF ParseDeclaration, Reads, Typed, At, EatAs, Eat

LEMMA VariableFlows ==
  ASSUME Typed, Flow, ParseVariableStatement
  PROVE  Flow'
<1> DEFINE Mine == {"Variable", "Variable.next"}
<1>1. status = "running" /\ Top.at \in Mine
  BY DEF ParseVariableStatement, At
<1>2. \A label \in Mine :
        /\ Sites(label) = StatementSites \union {"For.head"}
        /\ label \notin RhsLabels \union FunctionLabels \union Entry
  BY SitesTable DEF RhsLabels, FunctionLabels, Entry
<1>3. \A label \in Mine : \A locals : Follows(label, locals)
  BY <1>1, <1>2 DEF Follows
<1>4. Called("Declaration", "Variable.next")
  BY SitesTable DEF Called, RhsLabels, FunctionLabels
<1>5. ASSUME NEW value, ReadOn', NEW caller, Linked(caller, Top)
      PROVE  Wanted(caller.at, caller.mem, value)
  BY <1>1, <1>2, <1>5, Demands DEF Linked, RegexOn, StatementSites
<1>6. \A label \in {"Declaration"} : \A locals : Wanted(label, locals, ret)
  BY Demands DEF RegexOn, StatementSites, Careless
<1>7. Top.at = "Variable.next" => (peek = "IN" => ReadOn)
  BY <1>1, FlowSteps, Offers
<1> QED
  BY <1>1, <1>2, <1>3, <1>4, <1>5, <1>6, <1>7,
     FlowSteps, Modes, NodesVary
     DEF ParseVariableStatement, Reads, Typed, At, EatAs, Eat

LEMMA CaseFlows ==
  ASSUME Typed, Flow, ParseCaseBlock
  PROVE  Flow'
<1> DEFINE Mine == {"Case", "Case.first", "Case.do", "Case.colon", "Case.statement",
                   "Case.while"}
<1>1. status = "running" /\ Top.at \in Mine
  BY DEF ParseCaseBlock, At
<1>2. \A label \in Mine :
        /\ Sites(label) = {"Switch.case"}
        /\ label \notin RhsLabels \union FunctionLabels \union Entry
  BY SitesTable DEF RhsLabels, FunctionLabels, Entry
<1>3. \A label \in Mine : \A locals : Follows(label, locals)
  BY <1>1, <1>2 DEF Follows
<1>4. /\ Called("Assign", "Case.first")
      /\ Called("Assign", "Case.colon")
      /\ Called("Statement", "Case.statement")
  BY SitesTable DEF Called, RhsLabels, FunctionLabels, AssignSites,
       StatementSites
<1>5. ASSUME NEW value, NEW caller, Linked(caller, Top)
      PROVE  Wanted(caller.at, caller.mem, value)
  BY <1>1, <1>2, <1>5, Demands DEF Linked, Careless
<1>6. ReadOn' => \A label \in {"Assign", "Case.do", "Case.while", "Statement"} : \A locals :
           Wanted(label, locals, ret)
  BY Demands DEF RegexOn, StatementSites, Careless
<1>7. /\ Top.at = "Case.do" => ReadOn
      /\ Top.at = "Case.statement" => ReadOn
      /\ Top.at = "Case.while" => ReadOn
  BY <1>1, FlowSteps, Offers DEF RegexOn, StatementSites
<1>8. ASSUME NEW label \in {"Case.first", "Case.colon"}, NEW locals, advance(FALSE),
             Call("Assign", label, locals)
      PROVE  Flow'
  BY <1>1, <1>3, <1>4, <1>6, <1>8, FlowSteps, Modes DEF Reads, Typed
<1>9. ASSUME NEW label \in {"Case.do", "Case.while"}, NEW locals, advance(FALSE), Goto(label, locals)
      PROVE  Flow'
  BY <1>1, <1>3, <1>6, <1>9, FlowSteps, Modes DEF Reads, Typed
<1>10. ASSUME Top.at \in {"Case.statement", "Case.while"}, NEW label \in {"Case.do", "Case.while"},
             NEW locals, Keep, Goto(label, locals)
      PROVE  Flow'
  BY <1>1, <1>3, <1>6, <1>7, <1>10, FlowSteps, Modes DEF Reads, Typed
<1>11. ASSUME Top.at = "Case.do", NEW locals, Keep, Call("Statement", "Case.statement", locals)
      PROVE  Flow'
  BY <1>1, <1>3, <1>4, <1>6, <1>7, <1>11, FlowSteps, Modes DEF Reads, Typed
<1>12. ASSUME NEW value, Keep, Return(value) PROVE Flow'
  BY <1>1, <1>2, <1>5, <1>12, FlowSteps, Modes DEF Reads, Typed
<1>13. Throw => Flow'
  BY <1>1, FlowSteps
<1> QED
  BY <1>1, <1>8, <1>9, <1>10, <1>11, <1>12, <1>13
     DEF ParseCaseBlock, At, EatAs, Eat

LEMMA DefaultFlows ==
  ASSUME Typed, Flow, ParseDefaultClause
  PROVE  Flow'
<1> DEFINE Mine == {"Default", "Default.colon", "Default.while"}
<1>1. status = "running" /\ Top.at \in Mine
  BY DEF ParseDefaultClause, At
<1>2. \A label \in Mine :
        /\ Sites(label) = {"Switch.default"}
        /\ label \notin RhsLabels \union FunctionLabels \union Entry
  BY SitesTable DEF RhsLabels, FunctionLabels, Entry
<1>3. \A label \in Mine : \A locals : Follows(label, locals)
  BY <1>1, <1>2 DEF Follows
<1>4. Called("Statement", "Default.while")
  BY SitesTable DEF Called, RhsLabels, FunctionLabels, StatementSites
<1>5. ASSUME NEW value, NEW caller, Linked(caller, Top)
      PROVE  Wanted(caller.at, caller.mem, value)
  BY <1>1, <1>2, <1>5, Demands DEF Linked, Careless
<1>6. /\ ReadOn' => \A label \in {"Statement"} : \A locals : Wanted(label, locals, ret)
      /\ \A label \in {"Default.colon"} : \A locals : Wanted(label, locals, ret)
  BY Demands DEF RegexOn, StatementSites, Careless
<1>7. Top.at = "Default.while" => ReadOn
  BY <1>1, FlowSteps, Offers DEF RegexOn, StatementSites
<1> QED
  BY <1>1, <1>2, <1>3, <1>4, <1>5, <1>6, <1>7,
     FlowSteps, Modes, NodesVary
     DEF ParseDefaultClause, Reads, Typed, At, EatAs, Eat

LEMMA SwitchFlows ==
  ASSUME Typed, Flow, ParseSwitchStatement
  PROVE  Flow'
<1> DEFINE Mine == {"Switch", "Switch.open", "Switch.close", "Switch.brace",
       "Switch.clause",
                   "Switch.case", "Switch.default"}
<1>1. status = "running" /\ Top.at \in Mine
  BY DEF ParseSwitchStatement, At
<1>2. \A label \in Mine :
        /\ Sites(label) = StatementSites
        /\ label \notin RhsLabels \union FunctionLabels \union Entry
  BY SitesTable DEF RhsLabels, FunctionLabels, Entry
<1>3. \A label \in Mine : \A locals : Follows(label, locals)
  BY <1>1, <1>2 DEF Follows
<1>4. /\ Called("Assign", "Switch.close")
      /\ Called("Case", "Switch.case")
      /\ Called("Default", "Switch.default")
  BY SitesTable DEF Called, RhsLabels, FunctionLabels, AssignSites
<1>5. ASSUME NEW value, ReadOn', NEW caller, Linked(caller, Top)
      PROVE  Wanted(caller.at, caller.mem, value)
  BY <1>1, <1>2, <1>5, Demands DEF Linked, RegexOn, StatementSites
<1>6. /\ ReadOn' => \A label \in {"Assign"} : \A locals : Wanted(label, locals, ret)
      /\ \A label \in {"Switch.open", "Switch.brace", "Switch.clause", "Case", "Default"} :
           \A locals : Wanted(label, locals, ret)
  BY Demands DEF RegexOn, StatementSites, Careless
<1>7. CASE Top.at \in {"Switch", "Switch.open", "Switch.close", "Switch.brace"}
  <2>1. \A label \in {"Switch.open", "Switch.brace", "Switch.clause"} : \A locals :
          advance(FALSE) /\ Goto(label, locals) => Flow'
    BY <1>1, <1>3, <1>6, FlowSteps DEF Reads
  <2>2. ASSUME advance(FALSE), Call("Assign", "Switch.close", <<>>) PROVE Flow'
    BY <1>1, <1>3, <1>4, <1>6, <2>2, FlowSteps, Modes DEF Reads, Typed
  <2>3. Throw => Flow'
    BY <1>1, FlowSteps
  <2> QED
    BY <1>7, <2>1, <2>2, <2>3 DEF ParseSwitchStatement, At, EatAs, Eat
<1>8. CASE Top.at \in {"Switch.case", "Switch.default"}
  <2>1. \A locals : Keep /\ Goto("Switch.clause", locals) => Flow'
    BY <1>1, <1>3, <1>6, FlowSteps DEF Reads
  <2> QED
    BY <1>8, <2>1 DEF ParseSwitchStatement, At
<1>9. CASE Top.at = "Switch.clause"
  <2>1. Keep /\ Call("Case", "Switch.case", mem) => Flow'
    BY <1>1, <1>3, <1>4, <1>6, FlowSteps DEF Reads
  <2>2. Keep /\ Call("Default", "Switch.default", mem) => Flow'
    BY <1>1, <1>3, <1>4, <1>6, FlowSteps DEF Reads
  <2>3. \A value : advance(FALSE) /\ Return(value) => Flow'
    BY <1>1, <1>2, <1>5, FlowSteps, Modes DEF Reads, Typed
  <2>4. Throw => Flow'
    BY <1>1, FlowSteps
  <2> QED
    BY <1>9, <2>1, <2>2, <2>3, <2>4 DEF ParseSwitchStatement, At, EatAs, Eat
<1> QED
  BY <1>1, <1>7, <1>8, <1>9

LEMMA BreakFlows ==
  ASSUME Typed, Flow, ParseBreakStatement
  PROVE  Flow'
<1> DEFINE Mine == {"Break", "Break.label"}
<1>1. status = "running" /\ Top.at \in Mine
  BY DEF ParseBreakStatement, At
<1>2. \A label \in Mine :
        /\ Sites(label) = StatementSites
        /\ label \notin RhsLabels \union FunctionLabels \union Entry
  BY SitesTable DEF RhsLabels, FunctionLabels, Entry
<1>3. \A label \in Mine : \A locals : Follows(label, locals)
  BY <1>1, <1>2 DEF Follows
<1>4. ASSUME NEW value, ReadOn', NEW caller, Linked(caller, Top)
      PROVE  Wanted(caller.at, caller.mem, value)
  BY <1>1, <1>2, <1>4, Demands DEF Linked, RegexOn, StatementSites
<1>5. ReadOn' => \A label \in {"Break.label"} : \A locals : Wanted(label, locals, ret)
  BY Demands DEF RegexOn, StatementSites, Careless
<1>6. Top.at = "Break.label" => ReadOn
  BY <1>1, FlowSteps, Offers DEF RegexOn, StatementSites
<1> QED
  BY <1>1, <1>2, <1>3, <1>4, <1>5, <1>6,
     FlowSteps, Modes, NodesVary
     DEF ParseBreakStatement, Reads, Typed, At

LEMMA TryFlows ==
  ASSUME Typed, Flow, ParseTryCatchStatement
  PROVE  Flow'
<1> DEFINE Mine == {"Try", "Try.catch", "Try.open", "Try.close", "Try.handler",
                   "Try.finally", "Try.end"}
<1>1. status = "running" /\ Top.at \in Mine
  BY DEF ParseTryCatchStatement, At
<1>2. \A label \in Mine :
        /\ Sites(label) = StatementSites
        /\ label \notin RhsLabels \union FunctionLabels \union Entry
  BY SitesTable DEF RhsLabels, FunctionLabels, Entry
<1>3. \A label \in Mine : \A locals : Follows(label, locals)
  BY <1>1, <1>2 DEF Follows
<1>4. /\ Called("Block", "Try.catch")
      /\ Called("Comma", "Try.close")
      /\ Called("Block", "Try.handler")
      /\ Called("Block", "Try.end")
  BY SitesTable DEF Called, RhsLabels, FunctionLabels, BlockSites, CommaSites,
       StatementSites
<1>5. ASSUME NEW value, ReadOn', NEW caller, Linked(caller, Top)
      PROVE  Wanted(caller.at, caller.mem, value)
  BY <1>1, <1>2, <1>5, Demands DEF Linked, RegexOn, StatementSites
<1>6. /\ ReadOn' => \A label \in {"Comma", "Try.finally"} : \A locals :
           Wanted(label, locals, ret)
      /\ \A label \in {"Block", "Try.open"} : \A locals : Wanted(label, locals, ret)
  BY Demands DEF RegexOn, StatementSites, Careless
<1>7. /\ Top.at = "Try.catch" => ReadOn
      /\ Top.at = "Try.handler" => ReadOn
      /\ Top.at = "Try.finally" => ReadOn
      /\ Top.at = "Try.end" => ReadOn
  BY <1>1, FlowSteps, Offers DEF RegexOn, StatementSites
<1>8. ASSUME NEW label \in {"Try.catch", "Try.handler", "Try.end"}, NEW locals, advance(FALSE),
             Call("Block", label, locals)
      PROVE  Flow'
  <2>1. Called("Block", label) /\ Follows(label, locals) /\ Wanted("Block", <<>>, ret)
    BY <1>3, <1>4, <1>6, <1>8
  <2> QED
    BY <1>1, <1>8, <2>1, FlowSteps DEF Reads
<1>9. ASSUME NEW locals, advance(FALSE), Call("Comma", "Try.close", locals) PROVE Flow'
  BY <1>1, <1>3, <1>4, <1>6, <1>9, FlowSteps, Modes DEF Reads, Typed
<1>10. ASSUME NEW locals, advance(FALSE), Goto("Try.open", locals) PROVE Flow'
  BY <1>1, <1>3, <1>6, <1>10, FlowSteps, Modes DEF Reads, Typed
<1>11. ASSUME Top.at \in {"Try.handler", "Try.catch"}, NEW locals, Keep,
             Goto("Try.finally", locals)
      PROVE  Flow'
  BY <1>1, <1>3, <1>6, <1>7, <1>11, FlowSteps, Modes DEF Reads, Typed
<1>12. ASSUME Top.at \in {"Try.finally", "Try.end"}, NEW value, Keep, Return(value) PROVE Flow'
  BY <1>1, <1>2, <1>5, <1>7, <1>12, FlowSteps, Modes DEF Reads, Typed
<1>13. Throw => Flow'
  BY <1>1, FlowSteps
<1> QED
  BY <1>1, <1>8, <1>9, <1>10, <1>11, <1>12, <1>13
     DEF ParseTryCatchStatement, At, EatAs, Eat

LEMMA ThrowFlows ==
  ASSUME Typed, Flow, ParseThrowStatement
  PROVE  Flow'
<1> DEFINE Mine == {"Throw", "Throw.end"}
<1>1. status = "running" /\ Top.at \in Mine
  BY DEF ParseThrowStatement, At
<1>2. \A label \in Mine :
        /\ Sites(label) = StatementSites
        /\ label \notin RhsLabels \union FunctionLabels \union Entry
  BY SitesTable DEF RhsLabels, FunctionLabels, Entry
<1>3. \A label \in Mine : \A locals : Follows(label, locals)
  BY <1>1, <1>2 DEF Follows
<1>4. Called("Comma", "Throw.end")
  BY SitesTable DEF Called, RhsLabels, FunctionLabels, CommaSites
<1>5. ASSUME NEW value, ReadOn', NEW caller, Linked(caller, Top)
      PROVE  Wanted(caller.at, caller.mem, value)
  BY <1>1, <1>2, <1>5, Demands DEF Linked, RegexOn, StatementSites
<1>6. ReadOn' => \A label \in {"Comma"} : \A locals : Wanted(label, locals, ret)
  BY Demands DEF RegexOn, StatementSites, Careless
<1>7. ASSUME NEW kids, Keep, Return(Node("throw", "", kids)) PROVE Flow'
  <2>1. PICK value : value = Node("throw", "", kids)
    OBVIOUS
  <2>2. value.kind = "throw"
    BY <2>1, NodesVary
  <2>3. Return(value)
    BY <1>7, <2>1
  <2>4. ReadOn'
    BY <1>7, <2>2, <2>3, Modes DEF Typed
  <2> QED
    BY <1>1, <1>2, <1>5, <1>7, <2>3, <2>4, FlowSteps DEF Reads
<1> QED
  BY <1>1, <1>2, <1>3, <1>4, <1>5, <1>6, <1>7,
     FlowSteps, Modes, NodesVary
     DEF ParseThrowStatement, Reads, Typed, At

LEMMA BinaryFlows ==
  ASSUME Typed, Flow, ParseBinaryExpression
  PROVE  Flow'
<1>1. status = "running" /\ Top.at \in {"Binary", "Binary.left"}
  BY DEF ParseBinaryExpression, At
<1>2. /\ \A label \in {"Binary", "Binary.left"} :
           /\ Sites(label) = {"Ternary.first"}
           /\ label \notin RhsLabels \union FunctionLabels \union Entry
      /\ Sites("Rhs") = {"Ternary.first", "Rhs.merge"} /\ "Rhs" \notin FunctionLabels
  BY SitesTable DEF RhsLabels, FunctionLabels, Entry
<1>3. \A locals : Follows("Binary.left", locals)
  BY <1>1, <1>2 DEF Follows
<1>4. \A value : Follows("Rhs", <<3, value>>)
  BY <1>1, <1>2 DEF Follows
<1>5. Called("Unary", "Binary.left")
  BY SitesTable DEF Called, RhsLabels, FunctionLabels
<1>6. /\ ReadOn' => Wanted("Unary", <<>>, ret)
      /\ ReadOff' /\ ~IsVar(ret) => Wanted("Rhs", <<3, ret>>, ret)
  BY Demands DEF RegexOn
<1>7. /\ Top.at = "Binary" => ReadOn
      /\ Top.at = "Binary.left" => ReadOff /\ ~IsVar(ret)
  BY <1>1, FlowSteps, Offers DEF RegexOn, RegexOff, Values
<1> QED
  BY <1>1, <1>3, <1>4, <1>5, <1>6, <1>7, FlowSteps, Modes
     DEF ParseBinaryExpression, Reads, Typed, At

(* The calls of ParseBinaryExpressionRhs pass on the level of the first of *)
(* them, which leaves no operator behind for its caller.                   *)
LEMMA RhsFlows ==
  ASSUME Typed, Balanced, Flow, ParseBinaryExpressionRhs
  PROVE  Flow'
<1>1. status = "running" /\ Top.at \in RhsLabels /\ "Rhs" \in RhsLabels
  BY DEF ParseBinaryExpressionRhs, At, RhsLabels
<1>2. \A label \in RhsLabels :
        /\ Sites(label) = {"Ternary.first", "Rhs.merge"}
        /\ label \notin FunctionLabels \union Entry
  BY SitesTable DEF RhsLabels, FunctionLabels, Entry
<1>3. LevelOK(mem) /\ mem[1] \in Int
  BY <1>1, BalancedSteps DEF LevelOK
<1>4. \A label \in RhsLabels : \A locals : locals[1] = mem[1] => Follows(label, locals)
  BY <1>1, <1>2 DEF Follows
<1>5. Append(mem, peek)[1] = mem[1]
  <2>1. PICK locals, value : locals = mem /\ value = peek
    OBVIOUS
  <2>2. IsSequence(locals) /\ 1 \in 1..Len(locals)
    BY <1>3, <2>1 DEF LevelOK, IsSequence
  <2>3. Append(locals, value)[1] = locals[1]
    BY <2>2, OneMore
  <2> QED
    BY <2>1, <2>3
<1>6. Called("Unary", "Rhs.operand") /\ Called("Rhs", "Rhs.merge")
  BY SitesTable DEF Called, RhsLabels, FunctionLabels
<1>7. /\ ReadOn' => Wanted("Unary", <<>>, ret)
      /\ ReadOff' => \A first, value : ~IsVar(value) => Wanted("Rhs", <<first, value>>, ret)
  BY Demands DEF RegexOn
<1>8. /\ ReadOff
      /\ Top.at = "Rhs" => ~IsVar(mem[2])
      /\ Top.at = "Rhs.operand" => ~IsVar(ret)
  BY <1>1, FlowSteps, Offers DEF RegexOff, Values
<1>9. ASSUME At("Rhs"), Precedence(peek) < mem[1], Keep, Return(mem[2]) PROVE Flow'
  <2>1. ReadOff' /\ peek' = peek
    BY <1>8, <1>9, Modes DEF Typed
  <2>2. ASSUME NEW caller, Linked(caller, Top) PROVE Wanted(caller.at, caller.mem, mem[2])
    <3>1. Top.at = "Rhs" /\ ~IsVar(mem[2])
      BY <1>8, <1>9 DEF At
    <3>2. CASE caller.at = "Ternary.first"
      <4>1. mem[1] = 3
        BY <1>1, <2>2, <3>2 DEF Linked, mem
      <4> QED
        BY <1>9, <2>1, <3>1, <3>2, <4>1, Demands
    <3>3. CASE caller.at = "Rhs.merge"
      BY <2>1, <3>3, Demands
    <3> QED
      BY <1>1, <1>2, <2>2, <3>2, <3>3 DEF Linked
  <2> QED
    BY <1>1, <1>2, <1>9, <2>2, FlowSteps DEF Reads
<1>10. ASSUME At("Rhs"), advance(FALSE), Call("Unary", "Rhs.operand", Append(mem, peek))
       PROVE  Flow'
  BY <1>1, <1>4, <1>5, <1>6, <1>7, <1>10, FlowSteps, Modes DEF Reads, RhsLabels, Typed
<1>11. ASSUME At("Rhs.operand"), Keep, EndHere({}), UNCHANGED <<ret, forIn, status>>,
              stack' = Callers \o << Frame("Rhs.merge", mem, Top.from),
                                     Frame("Rhs", <<Precedence(mem[3]) + 1, ret>>, here) >>
       PROVE  Flow'
  <2>1. ReadOff' /\ ~IsVar(ret)
    BY <1>8, <1>11, Modes DEF Typed, At
  <2>2. PICK first, locals :
          first = here /\ locals = <<Precedence(mem[3]) + 1, ret>>
    OBVIOUS
  <2>3. Wanted("Rhs", locals, ret')
    BY <1>7, <1>11, <2>1, <2>2
  <2>4. Follows("Rhs.merge", mem)
    BY <1>4 DEF RhsLabels
  <2>5. stack' = Callers \o <<Frame("Rhs.merge", mem, Top.from), Frame("Rhs", locals, first)>>
    BY <1>11, <2>2
  <2>6. Reads
    BY <1>11 DEF Reads
  <2> QED
    BY <1>1, <1>6, <2>3, <2>4, <2>5, <2>6, CallFlows
<1>12. ASSUME Keep, NEW op, NEW kids, Goto("Rhs", <<mem[1], Node("binary", op, kids)>>)
       PROVE  Flow'
  <2>1. ReadOff'
    BY <1>8, <1>12, Modes DEF Typed
  <2>2. Wanted("Rhs", <<mem[1], Node("binary", op, kids)>>, ret)
    BY <1>7, <2>1, NodesVary
  <2>3. Follows("Rhs", <<mem[1], Node("binary", op, kids)>>)
    BY <1>1, <1>4
  <2> QED
    BY <1>1, <1>12, <2>2, <2>3, FlowSteps DEF Reads
<1> QED
  BY <1>9, <1>10, <1>11, <1>12 DEF ParseBinaryExpressionRhs

LEMMA PrimaryFlows ==
  ASSUME Typed, Flow, ParsePrimary
  PROVE  Flow'
<1>1. status = "running" /\ Top.at \in {"Primary", "Paren"}
  BY DEF ParsePrimary, At
<1>2. /\ \A label \in {"Primary", "Paren", "Array", "Object"} :
           /\ Sites(label) = {"Member.first"}
           /\ label \notin RhsLabels \union FunctionLabels \union Entry
      /\ Sites("Function") = StatementSites \union {"Member.first"}
      /\ "Function" \notin RhsLabels
  BY SitesTable DEF FunctionLabels, RhsLabels, Entry
<1>3. \A label \in {"Paren", "Array", "Object"} : \A locals : Follows(label, locals)
  BY <1>1, <1>2 DEF Follows
<1>4. \A locals : peek = "FUNCTION" => Follows("Function", locals)
  BY <1>1, <1>2, Seen DEF Follows, Typed
<1>5. Called("Comma", "Paren")
  BY SitesTable DEF Called, CommaSites, RhsLabels, FunctionLabels
<1>6. /\ ReadOn' => \A label \in {"Comma", "Array"} : \A locals : Wanted(label, locals, ret)
      /\ \A label \in {"Object", "Function"} : \A locals : Wanted(label, locals, ret)
  BY Demands DEF RegexOn, Careless
<1>7. ASSUME NEW value, ReadOff', ~IsVar(value), NEW caller, Linked(caller, Top)
      PROVE  Wanted(caller.at, caller.mem, value)
  BY <1>1, <1>2, <1>7, Demands DEF Linked
<1>8. Top.at = "Paren" => ~IsVar(ret)
  BY FlowSteps, Offers, <1>1 DEF Values
<1>9. ASSUME Top.at = "Primary" \/ Top.at = "Paren", advance(TRUE), NEW value, ~IsVar(value),
             Return(value)
      PROVE  Flow'
  <2>1. ReadOff'
    BY <1>9, Modes DEF Typed
  <2> QED
    BY <1>1, <1>2, <1>7, <1>9, <2>1, FlowSteps DEF Reads
<1>10. ASSUME advance(FALSE), Call("Comma", "Paren", <<>>) PROVE Flow'
  BY <1>1, <1>3, <1>5, <1>6, <1>10, FlowSteps, Modes DEF Reads, Typed
<1>11. ASSUME NEW label \in {"Array", "Object"}, advance(FALSE), Goto(label, <<>>) PROVE Flow'
  BY <1>1, <1>3, <1>6, <1>11, FlowSteps, Modes DEF Reads, Typed
<1>12. ASSUME peek = "FUNCTION", Become("Function") PROVE Flow'
  BY <1>1, <1>4, <1>6, <1>12, FlowSteps DEF Reads, Become
<1>13. Throw => Flow'
  BY <1>1, FlowSteps
<1> QED
  BY <1>1, <1>8, <1>9, <1>10, <1>11, <1>12, <1>13, NodesVary DEF ParsePrimary, At, EatAs

LEMMA StatementFlows ==
  ASSUME Typed, Flow, ParseStatement
  PROVE  Flow'
<1>1. status = "running" /\ Top.at \in {"Statement", "Expression.end"}
  BY DEF ParseStatement, At
<1>2. /\ \A label \in {"Statement", "Expression.end"} :
           /\ Sites(label) = StatementSites
           /\ label \notin RhsLabels \union FunctionLabels \union Entry
      /\ \A label \in {"If", "For", "Return", "While", "Do", "Switch", "Break", "Try", "Throw",
                       "Function", "Block", "Variable"} :
           StatementSites \subseteq Sites(label)
  BY SitesTable DEF FunctionLabels, BlockSites, RhsLabels, Entry
<1>3. \A locals : Follows("Expression.end", locals)
  BY <1>1, <1>2 DEF Follows
<1>4. ASSUME NEW t, StatementOf(t) # "Expression"
      PROVE  /\ StatementOf(t) \in {"If", "For", "Return", "While", "Do", "Switch", "Break",
                                    "Try", "Throw", "Function", "Block", "Variable"}
             /\ StatementOf(t) = "Function" => t = "FUNCTION"
  BY <1>4 DEF StatementOf
<1>5. ASSUME NEW locals, NEW t, t = peek, StatementOf(t) # "Expression"
      PROVE  Follows(StatementOf(t), locals) /\ Wanted(StatementOf(t), locals, ret)
  <2>1. StatementSites \subseteq Sites(StatementOf(t)) /\ StatementOf(t) \notin RhsLabels
    BY <1>2, <1>4, <1>5 DEF RhsLabels
  <2>2. StatementOf(t) \in FunctionLabels => Has("FUNCTION")
    BY <1>4, <1>5, Seen DEF FunctionLabels, Typed
  <2>3. Follows(StatementOf(t), locals)
    BY <1>1, <1>2, <2>1, <2>2 DEF Follows
  <2>4. StatementOf(t) \in Careless
    BY <1>4, <1>5 DEF Careless
  <2> QED
    BY <2>3, <2>4, Demands
<1>6. Called("Comma", "Expression.end")
  BY SitesTable DEF Called, CommaSites, RhsLabels, FunctionLabels
<1>7. ReadOn' => Wanted("Comma", <<>>, ret)
  BY Demands DEF RegexOn
<1>8. ASSUME NEW value, ReadOn', NEW caller, Linked(caller, Top)
      PROVE  Wanted(caller.at, caller.mem, value)
  BY <1>1, <1>2, <1>8, Demands DEF Linked, RegexOn, StatementSites
<1>9. Top.at = "Statement" => ReadOn
  BY <1>1, FlowSteps, Offers DEF RegexOn
<1> QED
  BY <1>1, <1>2, <1>3, <1>5, <1>6, <1>7, <1>8, <1>9, FlowSteps, Modes
     DEF ParseStatement, Reads, Typed, At, Eat, EatAs, Become

LEMMA ForFlows ==
  ASSUME Typed, Flow, ParseForStatement
  PROVE  Flow'
<1> DEFINE Mine == {"For", "For.open"} \union ForLabels
<1>1. status = "running" /\ Top.at \in Mine
  BY DEF ParseForStatement, At, ForLabels
<1>2. \A label \in Mine :
        /\ Sites(label) = StatementSites
        /\ label \notin RhsLabels \union FunctionLabels \union Entry
  BY SitesTable DEF RhsLabels, FunctionLabels, Entry, ForLabels
<1>3. \A label \in Mine : \A locals : Follows(label, locals)
  BY <1>1, <1>2 DEF Follows
<1>4. /\ {"For.open", "For.init", "For.head", "For.in", "For.condition", "For.second",
          "For.update", "For.third", "For.body"} \subseteq Mine
      /\ \A label \in {"For", "For.open"} : label \notin ForLabels
  BY DEF ForLabels
<1>5. /\ Called("Variable", "For.head") /\ Called("Comma", "For.head")
      /\ Called("Assign", "For.in") /\ Called("Comma", "For.second")
      /\ Called("Comma", "For.third") /\ Called("Statement", "For.body")
  BY SitesTable DEF Called, CommaSites, AssignSites, StatementSites, RhsLabels, FunctionLabels
<1>6. /\ ReadOn' => \A label \in {"For.init", "For.condition", "For.update", "Comma", "Assign",
                                  "Statement"} : \A locals : Wanted(label, locals, ret)
      /\ \A label \in {"For.open", "Variable"} : \A locals : Wanted(label, locals, ret)
  BY Demands DEF RegexOn, Careless
<1>7. ASSUME NEW value, ReadOn', NEW caller, Linked(caller, Top)
      PROVE  Wanted(caller.at, caller.mem, value)
  BY <1>1, <1>2, <1>7, Demands DEF Linked, RegexOn, StatementSites
<1>8. /\ Top.at \in {"For.init", "For.condition", "For.update", "For.body"} => ReadOn
      /\ Top.at = "For.head" /\ IsVar(ret) /\ peek # "IN" => ReadOn
  BY <1>1, FlowSteps, Offers DEF RegexOn, StatementSites
<1>9. ReadOK
  BY DEF Typed
<1> HIDE DEF Mine
<1>10. ASSUME NEW label \in Mine, NEW locals, Goto(label, locals),
              Keep \/ advance(FALSE), Wanted(label, locals, ret)
       PROVE  Flow'
  BY <1>1, <1>3, <1>10, FlowSteps DEF Reads
<1>11. ASSUME NEW label \in Mine, NEW function, NEW locals, Call(function, label, locals),
              Called(function, label), Keep \/ advance(FALSE), Wanted(function, <<>>, ret)
       PROVE  Flow'
  BY <1>1, <1>3, <1>11, FlowSteps DEF Reads
<1>12. /\ advance(FALSE) => ReadOn'
       /\ ReadOn => /\ \A label, locals : Keep /\ Goto(label, locals) => ReadOn'
                    /\ \A function, label, locals :
                         Keep /\ Call(function, label, locals) => ReadOn'
                    /\ \A value : Keep /\ ReturnRestoring(value) => ReadOn'
  BY <1>9, Modes
<1>13. /\ \A label \in {"For.condition", "For.update"} : \A locals :
            advance(FALSE) /\ Goto(label, locals) => Flow'
       /\ \A locals : advance(FALSE) /\ Goto("For.open", locals) => Flow'
       /\ ReadOn => \A locals : Keep /\ Goto("For.condition", locals) => Flow'
       /\ Throw => Flow'
  BY <1>1, <1>4, <1>6, <1>10, <1>12, FlowSteps
<1>14. /\ \A locals : advance(FALSE) /\ Call("Statement", "For.body", locals) => Flow'
       /\ \A locals : advance(FALSE) /\ Call("Assign", "For.in", locals) => Flow'
       /\ \A locals : Keep /\ Call("Variable", "For.head", locals) => Flow'
       /\ ReadOn => \A label \in {"For.head", "For.second", "For.third"} : \A locals :
                      Keep /\ Call("Comma", label, locals) => Flow'
  BY <1>4, <1>5, <1>6, <1>11, <1>12
<1>15. CASE Top.at \in {"For", "For.init"}
  BY <1>8, <1>13, <1>14, <1>15 DEF ParseForStatement, At
<1>16. CASE At("For.open")
  <2>1. ASSUME advance(FALSE), UNCHANGED ret,
               stack' = Append(Callers, Frame("For.init", <<forIn>>, Top.from))
        PROVE  Flow'
    <3>1. PICK locals : locals = <<forIn>>
      OBVIOUS
    <3>2. Wanted("For.init", locals, ret') /\ Reads
      BY <1>6, <1>12, <2>1 DEF Reads
    <3> QED
      BY <1>1, <1>3, <1>4, <2>1, <3>1, <3>2, GotoFlows
  <2> QED
    BY <1>1, <1>13, <1>16, <2>1 DEF ParseForStatement, At
<1>17. CASE Top.at \in {"For.head", "For.in"}
  BY <1>8, <1>13, <1>14, <1>17
     DEF ParseForStatement, ParseForInStatement, At, Eat, EatAs, IsVar
<1>18. CASE Top.at \in {"For.condition", "For.second", "For.update", "For.third"}
  BY <1>8, <1>13, <1>14, <1>18 DEF ParseForStatement, At, Eat, EatAs
<1>19. CASE At("For.body")
  BY <1>1, <1>2, <1>7, <1>8, <1>12, <1>19, FlowSteps DEF ParseForStatement, At, Reads
<1> QED
  BY <1>1, <1>15, <1>16, <1>17, <1>18, <1>19 DEF ParseForStatement, At

LEMMA ProgramFlows ==
  ASSUME Typed, Flow, ParseProgram
  PROVE  Flow'
<1>1. status = "running" /\ Top.at \in {"Program", "Program.statement"}
  BY DEF ParseProgram, At
<1>2. \A label \in {"Program", "Program.statement"} :
        /\ Sites(label) = {}
        /\ label \notin RhsLabels \union FunctionLabels
  BY DEF Sites, RhsLabels, FunctionLabels
<1>3. \A label \in {"Program", "Program.statement"} : \A locals : Follows(label, locals)
  BY <1>1, <1>2 DEF Follows
<1>4. Called("Statement", "Program.statement")
  BY SitesTable DEF Called, StatementSites, RhsLabels, FunctionLabels
<1>5. ReadOn' => \A label \in {"Program", "Statement"} : \A locals : Wanted(label, locals, ret)
  BY Demands DEF RegexOn
<1>6. ReadOn
  BY <1>1, FlowSteps, Offers DEF RegexOn, StatementSites
<1>7. (status' = "done") => Flow'
  BY DEF Flow
<1> QED
  BY <1>1, <1>3, <1>4, <1>5, <1>6, <1>7, FlowSteps, Modes
     DEF ParseProgram, Reads, Typed, At

(* All of them.                                                            *)
LEMMA ExpressionsFlow ==
  ASSUME Typed, Balanced, Flow, Expressions
  PROVE  Flow'
  BY CommaFlows, AssignFlows, TernaryFlows, BinaryFlows, RhsFlows, UnaryFlows, NewFlows,
     MemberFlows, DotFlows, IndexFlows, ArgumentsFlow, PrimaryFlows, ArrayFlows, ObjectFlows,
     MethodFlows DEF Expressions

LEMMA StatementsFlow ==
  ASSUME Typed, Flow, Statements
  PROVE  Flow'
  BY StatementFlows, IfFlows, ForFlows, WhileFlows, DoFlows, ParametersFlow, FunctionFlows,
     BlockFlows, ReturnFlow, DeclarationFlows, VariableFlows, CaseFlows, DefaultFlows,
     SwitchFlows, BreakFlows, TryFlows, ThrowFlows DEF Statements

(* All of Next.                                                            *)
LEMMA FlowNext ==
  ASSUME Typed, Balanced, Flow, [Next]_vars
  PROVE  Flow'
<1>1. ASSUME UnwindLoop \/ UnwindRest PROVE Flow'
  BY <1>1 DEF UnwindLoop, UnwindRest, Flow
<1>2. ASSUME Finished \/ UNCHANGED vars PROVE Flow'
  <2>1. UNCHANGED vars
    BY <1>2 DEF Finished
  <2> QED
    BY <2>1 DEF vars, reading, Flow, Links, Linked, Known, Fine, Top, mem, ReadOn, ReadOff,
                Has, peek, here, TypeOf
<1> QED
  BY <1>1, <1>2, ProgramFlows, ExpressionsFlow, StatementsFlow DEF Next, Step

LEMMA FlowInit ==
  ASSUME Init
  PROVE  Flow
<1>1. stack = <<Frame("Program", <<>>, 1)>> /\ division = <<FALSE>> /\ here = 1
  BY DEF Init, here
<1>2. Len(stack) = 1 /\ Top = Frame("Program", <<>>, 1) /\ Top.at = "Program"
  BY <1>1 DEF Top, Frame
<1>3. ReadOn
  BY <1>1 DEF ReadOn
<1>4. Links
  BY <1>2 DEF Links
<1>5. Known
  BY <1>2 DEF Known, FunctionLabels, Top
<1>6. Fine(Top.at, mem, ReadOn, ReadOff, peek, ret)
  BY <1>2, <1>3 DEF Fine, RegexOff, RhsLabels, Lowest, Values
<1> QED
  BY <1>4, <1>5, <1>6 DEF Flow

(* What the labels of SlashReadRightly ask for is what it says.            *)
LEMMA FlowReadsRightly ==
  ASSUME Flow
  PROVE  SlashReadRightly
<1>1. ASSUME At("Primary") PROVE ~division[here] \/ "throw" \in ended
  <2>1. Fine(Top.at, mem, ReadOn, ReadOff, peek, ret)
    BY <1>1 DEF At, Flow
  <2>2. ReadOn
    BY <1>1, <2>1, Offers DEF At, RegexOn
  <2> QED
    BY <1>1, <2>2 DEF ReadOn
<1>2. ASSUME At("Rhs") PROVE division[here] \/ ended \intersect {"function", "postfix"} # {}
  <2>1. Fine(Top.at, mem, ReadOn, ReadOff, peek, ret)
    BY <1>2 DEF At, Flow
  <2>2. ReadOff
    BY <1>2, <2>1, Offers DEF At, RegexOff, RhsLabels
  <2> QED
    BY <1>2, <2>2 DEF ReadOff
<1> QED
  BY <1>1, <1>2 DEF SlashReadRightly

(* Where an operand is due the current token was read with regular         *)
(* expressions on, and where a binary operator is due with them off, for   *)
(* every text, with the exceptions the property names: the code's          *)
(* advance(true) and advance(false) agree with the grammar, across all     *)
(* calls and returns.                                                      *)
THEOREM SlashesReadRightly == Spec => []SlashReadRightly
<1>1. Typed /\ [Next]_vars => Typed'
  BY TypedNext, InvNext DEF Typed
<1>2. Typed /\ Balanced /\ [Next]_vars => Balanced'
  BY BalancedNext
<1>3. Typed /\ Balanced /\ Flow /\ [Next]_vars => Flow'
  BY FlowNext
<1>4. Flow => SlashReadRightly
  BY FlowReadsRightly
<1> QED
  BY TypedInit, BalancedInit, FlowInit, <1>1, <1>2, <1>3, <1>4, PTL DEF Spec

=============================================================================
