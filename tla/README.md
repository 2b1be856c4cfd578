# jast in TLA+

jast (`src/`) is a JavaScript parser in C++: a tokenizer that reads characters
one at a time and puts them back, a recursive descent parser that asks for one
token at a time, reference-counted syntax trees that a builder owns, and two
readers of these trees, a printer and a matcher.  This directory holds TLA+ models
of all of these, the model checking runs over them, and proofs about what they
rest on.

All paths below are relative to the repository; `parser.cc` and `tokenizer.cc`
are in `src/jast/`, as are the other sources named without a directory; headers
are in `include/jast/`.

## 1. The system

| component | state | operations | models |
|---|---|---|---|
| character stream (`scanner.h`) | the input stream's position, the push-back vector `buffer_` | `readchar`, `putback` | `CharStream`, implementing `Lookahead` |
| tokenizer (`tokenizer.cc`, `token.cc`, `tokens.inc`) | `seek_`, `position_`, `last_col_length_`, `token_`, the locals of `advance_internal` and its helpers | `advance(not_regex)`, `peek`, `reset` | `Lexicon`, `Tokenizer` |
| parser (`parser.cc`, `parser.h`) | the C++ call stack, `flags_` | about forty parse functions | `ParseMachine`, `ParseExpression`, `ParseStatement`, `Parser`, `ParserTrees` |
| scopes (`scope.*`) | `current_`, `scope_stack_`, parent chain, symbol tables | `NewScope`, `PopScope`, `Push`, `Exists`, `Get` | `Scopes` |
| handles (`handle.h`) | a count per object, a pointer per handle | make, copy, assign, insert, release | `Handles`, implementing `Ownership` |
| AST builder and factory (`ast-builder.*`, `astfactory.*`) | the list `exprs_` of saved handles | one function per node class | `Builder`, over `Handles` and `Scopes` |
| AST nodes (`expression.*`, `statement.*`) | a value and member handles per class | `Accept`, `SetScope`, `Insert`, `AsX` | `SyntaxTree`; members as slots in `Handles` |
| AST matcher (`ast-match.cc`) | none | `match`, one function per class | `Matcher` |
| tree printer (`samples/dump-ast.cc`) | indentation, output | one `Visit` per class | `DumpAST`, `Sample` |
| program (`samples/parse.cc`) | the handle of the tree | parse, print, or report the error | `Sample`, `Builder` |
| parser context, source locator, counters | global scope, counters, cached position | getters, counting | the scope in `Builder`; the rest not modelled |
| sources and strings (`source.*`, `string-*`) | file text | file reading | not modelled: I/O |
| `codegen/`, `lex.ll`, `include/args` | | | not modelled: LLVM emission, a replaced scanner, unused |

How they interact.  Everything runs on one thread and by direct calls.  The
parser calls `Tokenizer::advance` with a flag that says whether a slash at this
place divides; `advance` runs to its end, reads characters from the stream and
puts some back, and stores one token; `peek` shows it.  Parse functions call one
another, return tree handles made by the builder, or throw a `SyntaxError` that
unwinds them all up to `ParseProgram`.  A for statement sets a parser flag that a
scope object restores, on return and on unwinding alike.

Each `NewX` of the builder has the factory make an object, which copies handles
of its arguments into its members and the current scope into a pointer, and saves
one more handle in `exprs_`; lists and declarations are made without saving.  Scopes
keep bare addresses of nodes.  `main` holds the tree in one handle, prints it by
double dispatch between nodes and visitor, and drops it; the `ParserBuilder` then
takes the saved handles with it.

What is hard here is not concurrency but **sequences**: reads and push-backs of
up to a whole abandoned regular expression that must cancel out; counters that
go up and down with them; a mode chosen by one function for a token that another
one reads; a flag saved and restored through recursion and exceptions; loops that
end only if the end of the text is seen; counts that assignments, copies and nested
deletions change in the middle of one another, also when an exception abandons a
parse; members that may be null and readers that must know which; an indentation
moved by hand in thirty functions.  `PROJECT.json` lists these as hazards,
each at its line, with the properties that watch it.

What makes each part correct:

- *character stream*: reads and putbacks are those of a single list;
- *tokenizer*: nothing of the text is lost, repeated or reordered; what is
  skipped is blank or comment; a token's text is what it consumed; symbols are
  longest matches; row, column and `seek_` agree with the cursor; a slash means
  what the caller asked for; a call comes back; no assertion fails;
- *parser*: trees follow precedence and associativity; brackets of an accepted
  text nest; no operand is lost; an `else` goes to the nearest `if`; the for-in
  flag says what is being parsed; the slash mode is right at every operand and
  operator; every parse ends;
- *scopes*: the stack is the parent chain, and what scopes and tables point to lives;
- *handles*: an object lives while, and only while, a handle holds it;
- *builder*: no node dies while the parser is at work, and all are freed at the end,
  whichever way the parse ended;
- *printer*: the tree is shown whole and in order, indented as it is nested, and no
  tree the parser makes brings the printer down;
- *matcher*: equal trees match and only they do.

## 2. The modules

```
Lookahead  <-- implemented by --  CharStream   <- MCCharStream, CharStream_proofs
                                      ^ INSTANCE
Lexicon  <---- EXTENDS ----  Tokenizer         <- MCTokenizer, Tokenizer_proofs
                                                    ^ TokenizerTokens_proofs

ParseMachine <- ParseExpression <- ParseStatement <- Parser <- ParserTrees <- MCParser
                                           Parser <- Parser_proofs <- ParserNodes_proofs

Parser <- DumpAST <- Sample; Sample, ParserTrees <- SampleTrees <- MCSample
                     Sample, ParserNodes_proofs <- Sample_proofs
SyntaxTree <- Matcher <- MCMatcher, Matcher_proofs

Heap <- Scopes <-------------.
Heap <- Handles <-------- Builder <- MCBuilder
Heap <- Ownership             ^ Builder_proofs
        ( implemented by Handles )
```

**Lookahead** is what `CharacterStream` promises: a list, read at its head and
put back at its head, answering EOF when empty.

**CharStream** is `BufferedCharacterStream`: `source` and `pos` stand for the
`std::istream`, `buffer` for `buffer_` (a vector used as a stack), `got` for the
last answer.  `NextChar`, `Take` and `Push` are `readchar` and `putback` split
into answer and effect, so that the tokenizer can use them within its own
actions.  `Upcoming` (the buffer from its top down, then the rest of the source)
is the refinement mapping to `Lookahead`.  `readchar` narrows the `int` of `get()` to a
`char` (scanner.h:52), so the byte 0xFF of a text cannot be told from its end: it is
answered, and put back, as `EOF`.  The texts of a stream may contain it; those of the
tokenizer do not, where it would be an end of the text that more text follows.

**Lexicon** holds the character classes and the three symbol tables of
`tokenizer.cc`, as sets of rows, and separately the operator list of
`tokens.inc`, which the property `MaximalMunch` compares them with.

**Tokenizer** is `tokenizer.cc` character by character.  `pc` says where
`advance_internal`, `parseRegex`, `parseString` or `parseNumber` stand; one
action is one turn of a loop or one branch and reads or puts back at most one
character, through `CharStream`.  `seek` is a `size_t` that wraps at `MaxSize`;
`row`, `col`, `last_col` are the position.  An assertion that fails leads to
`pc = "abort"`.  `acc` is the string being collected (`buffer`, `identifier`,
and in the symbol part `first`, `second`, `third`), `mark` the position kept for
the token.  `from`, `start`, `started` and `resets` are history variables: where
the call and the lexeme began, whether a token has been read.  Left out: the
statistics counters, and the wording of the views of `ERROR`, `EOF` and
`ILLEGAL` tokens, whose view is empty here.

**ParseMachine** gives the parser its stack machine.  A parse function is a set
of labels; a frame holds its label, the locals still needed and, as history, the
token its call began at.  One action moves at most one token forward and does
everything the code does between two calls.  The tokenizer is reduced to what
the parser can tell of it: it may deliver any token that the chosen text admits, `REGEX`
only when asked with `not_regex` off, and `END_OF_FILE` for ever at the end.  `division`
records each `advance`'s argument, `braces` the tokens that `ParseBlockStatement` took for
its `{`, and `ended` the kinds of the nodes that end right before the current token: all
three are history.

**ParseExpression** and **ParseStatement** have one operator per parse function,
under its name.  `ParseCallExpression`'s loop is never entered, because
`ParseMemberExpression` stops at none of the three tokens it goes on with, and
the `new` branch of `ParseMemberExpression` is unreachable, because both callers
have seen the token already: neither has actions.  Trees are records with a kind,
an operator and children, leaves being token positions.  Properties of objects are compared
by their spelling, as in the code: a string or a number is spelled in one of two
ways, a string perhaps like a name or keyword of the text (`Spellings`), so that
`{"get" a () {}}` takes the branch of a method.

**Parser** adds `ParseProgram`, the unwinding of a `SyntaxError`
(`UnwindLoop` runs the destructor of the innermost
`ForInLoopParsingEnvironment`, `UnwindRest` leaves all other frames), the
specification, and the properties that need no reference tree.  `NearestElse` is one of
them: it goes through a tree by levels (`Nodes`) and along its last children (`Ending`),
with functions on numbers and not by a recursive operator, so that it can be proved.

**ParserTrees** has the properties on trees: `Tree`, the reference reading of an
expression by splitting it at its loosest operator (recursive on the text, not
the way the code climbs precedences), and the leaves of a tree.

**DumpAST** is the printer.  `Visit(node)` is the sequence of what the function for
the node's class does: opens or closes a braced line, moves `tab`, shows a token,
visits a child.  A visit of a null child is written as the code writes it: guarded by
the test that the code makes, or not.  **Sample** runs this on the trees of the parser
model, as `samples/parse.cc` does: parse, then report the error or print.  `visits` is
the stack of `Visit` calls with what each has left to do, `tab` the indentation, `line`
what the line being written is indented by, `opened` (history) the indentations of
braces not closed, `shown` (history) the tokens shown.  `fate` ends as `printed`,
`reported`, `crash` (a null handle dereferenced) or `abort` (an assertion of an `AsX`).
`Visit(CallExpression)` is left out, since the parser makes member expressions of calls.
**SampleTrees** has the two properties that compare what is printed with the tree and the
text by recursion, `OpenBracesAreIfElses` and `ShowsTheText`.

**SyntaxTree** lists the node classes with their value and their members. **Matcher** is
`FastASTMatcher`: `Match(x, y)` answers "true", "false", or how the code fails ("throw"
for a template literal, "crash" for a null handle, "undefined" for reading past the end of
a list); conjunctions stop at the first that is not "true", as `&&` does.  The state is
only the pair being matched.  The Match functions take the function they call for the
members as an argument, and `match` is the function on pairs of trees that calls itself
so.  `Trees` are the trees that occur, with all they hold; `Height`, lower for what a node
holds, says that they are finite (`TreesAreTrees`), and properties are sorted by name, as
in a `std::map` (`MapsAreOrdered`).  Left out: `LazyASTMatcher`, which always answers
false, and `MatchIfElseStatement(ReturnStatement)`, which nobody calls.

**Heap** has the objects, the handles (`Vars`, and per object one member for each of
`Places`) and null.  **Ownership** is what reference counting promises: objects are born,
handles hold and drop them, and an object dies only when no handle holds it and it holds
nothing any more.  **Handles** is `handle.h` with the counts: `ptr` is what each handle
points to, `count` what each object thinks; `New` is `new T`, `Wrap` the handle
`MakeHandle` puts around it, `InitMember` a member copied by a constructor, `Assign` and
`FinishAssign` the two halves of `operator=` (release, then copy), and `clearing` the
`clear()` calls that are under way: the last of them runs its object's destructor member
by member (`DestroyMember`), any of which may delete on, then frees the object and sets
its own handle to null (`Free`), in this order.  Objects are numbered as they are made and
no address is used twice.  `Held`, what a handle really keeps, is the refinement mapping.

**Scopes** is `ScopeManager` with the `Scope` constructor and `SymT`; a popped scope stays
in memory, as in the code.  The class `NewScope` of `parser.cc` that would push and pop is
never constructed, so these operations are an interface offered and not yet called;
`PopScope` keeps to its caller's obligation to have pushed.

**Builder** composes the two.  It adds `exprs_` (its elements are handles too,
`Cell(o)`), what each object was made as, and the life of the program: while `parsing`, any
sequence of makings, saves, copies, assignments, insertions and releases on the parser's
local handles, which over-approximates what parse functions do with them; then either
`Return`, when the parser has one handle left and `main` takes it, or `Throw` from any
point between two calls, after which `Unwind` releases what is left in any order; then
`DropTree`, `DropSaved` front to back, and `End`.

**MCCharStream**, **MCTokenizer**, **MCParser**, **MCSample** give the texts for TLC,
**MCMatcher** the trees, **MCBuilder** the objects and handles.  **CharStream_proofs**,
**Tokenizer_proofs**, **TokenizerTokens_proofs**, **Parser_proofs**,
**ParserNodes_proofs**, **Sample_proofs**, **Matcher_proofs** and **Builder_proofs** have
the theorems.

Definitions called `Mutant of X` in the comments belong to no specification.
They are wrong versions of a definition, one for each checked property; with `X`
replaced by it TLC finds the property violated, which shows that the property
can fail within the bounds of the run.  Each lies in the part its property is about: that
of `Ends` has a loop of the printer never step past an empty statement.

## 3. The runs

| run | texts and bounds | shows |
|---|---|---|
| `stream` | texts of up to 3 of two letters and the byte 0xFF, buffer up to 4 | `TypeOK`; `CharStream` implements `Lookahead` |
| `tokenizer` | eight alphabets, all texts up to length 4 (comments 5, all pairs of symbols), five longer ones; both modes; one `reset()` | the ten invariants and `Returns` |
| `peek` | the same, shorter | `PeekReadsOnce` is violated |
| `hang` | the same, shorter | `AlwaysReturns` is violated |
| `assertion` | the same | `NeverAborts` is violated |
| `parser` | expressions: nine alphabets, all texts of up to 5 to 8 tokens; statements: twenty-two openings, each continued by up to 4 to 8 tokens of its alphabet | trees of expressions, slash modes, brackets, the for-in flag, operands, `else`, termination |
| `blocks` | the statements of `parser` | `BlocksBegin` is violated |
| `division` | the expressions of `parser` | `DivisionExpected` is violated |
| `new` | the expressions of `parser` | `NewTakesFirstArguments` is violated |
| `print` | sixteen openings of all kinds of nodes, each continued by 4 to 8 tokens | indentation, braces, order and completeness of what is printed, the two ways to fail, termination |
| `matcher` | 27 692 pairs of trees, odd nodes inside of each other | for which trees the answer is equality, and for which it fails |
| `builder` | 3 objects with one member each, 2 local handles, 2 scopes | counts, liveness of nodes, scope chain, release of all memory; `Handles` implements `Ownership` |

*Bounds.*  The tokenizer looks at no more than three characters beyond a lexeme's
first and remembers one (`last`) plus the mode, so texts of four characters over
an alphabet chosen for one construct contain each of its branches, two tokens in
a row and both line ends; longer push-backs only occur in regular expressions,
whose alphabets include a class, an escape and a newline.  `MaxSize` is 31: no
text is so long that `seek_` reaches it upwards, so the wrap can only come from
below.  The parser's control depends on one token of lookahead, the flag and
the stack; each alphabet takes the tokens of two or three neighbouring rules, so
that every pair of rules that can nest meets in some text.  The openings save the
tokens that lead into a rule.  The bound on texts is `max` in `Alphabets`, the
bound on the push-back buffer `MaxBuffer`; no other counter is bounded.

The printer has no state but the path to the node it prints, so each of its branches
occurs in a text whose tree is one or two nodes deep; the openings reach every class,
with each optional member present and absent.  The matcher compares node by node;
for every class the pairs contain all combinations of a few leaves and null, and
every member holding one of thirteen awkward nodes (null, a regular expression, a
template, a call without arguments, lists of different length, a switch).  In
`builder`, three objects are a parent, a child and a bystander; with them an assignment
releases a tree while it takes a part of another, a list owns a node that
owns a declaration, and deletions nest three deep.  A second member for each object more
than trebles the states and shows nothing else; the proofs cover all sizes.  Every
action and every alternative of the next-state relations occurs in a passing run.

*Qualified properties.*  Several tokenizer properties are claimed for texts without `[`
(`ClassFree`): `parseRegex` collects the closing bracket of a class twice
(tokenizer.cc:505-514), and when the regular expression is abandoned it puts back more
than it had read.  `AssertsHold` and the column part of `PositionExact` also exclude back
slashes, since an escaped newline lets a push-back span two lines.  `EndsAtEnd` allows the
`ERROR` that a block comment gives although it is complete, when nothing follows it.

`SlashReadRightly` excepts single tokens, which the code asks for in the wrong mode: the
token right after a throw statement, after a function expression and after a postfix
operator.  What comes later in the same text is not excepted.

`BracketsNest` is about texts in which every block begins with a brace
(`BlocksHaveBraces`).  `ParseBlockStatement` eats its first token without looking at it,
and `try`, `catch`, `finally` and the methods of objects call it without having looked
either, so that `try ; }`, `try } }` and `try ( }` are accepted, which do not nest.
`BlocksBegin` says that this does not happen, and the run `blocks` shows that it does.

`NothingDropped` compares the leaves of the tree with those of the text; a leaf eaten as a
block's brace is not among them, since the tree has no place for it (`braces`).

The printer's `ShowsTheText` excepts what the parser itself reorders (`Reordered`): labels
of `break` and `continue`, which come back as a statement; consecutive cases, which share
a block; the default clause, printed last; object literals.  `BracesAlign` is about texts
without `else` and `switch`: the true body of an if-else is never closed
(`OpenBracesAreIfElses` counts these), and a switch does not indent its expression.
`FailsOnlyFor` names the trees that bring the printer down: an object literal whose first
property has a name and no value, and a `catch` whose parameter is no single name. The
matcher's `MatchIffEqual` takes equality up to what the code does not compare, the kinds
of accesses and loops, and excepts five kinds of node: regular expressions, which never
match; templates, which throw; calls without arguments, which dereference a null list;
declaration lists, read past the end of the shorter one; and switches, which match only if
both have default clauses that do not match each other.  `TrueMeansAlike`, `Symmetric` and
`MatchFailsOnlyFor` say what holds for these.  Of the handles, `operator=` is modelled
between variables, a variable and itself included; assigning a part of a tree to the
handle that holds the tree alone would dangle, and no code does so.

`NearestElse` has two halves.  `ElsesNearest` is about the tree: the true body of an
if-else never ends in an `if` that could still take the `else`; functions are not looked
into, since the tree does not tell a function statement, which an `if` may end in, from a
function expression, which a `;` ends.  `JumpsEndIfs` is about the text: the `;` after
`return`, `break` and `continue` is a statement of its own, and an `else` after it is
rejected.  It is about texts without functions, and a jump's name after a `.` is a name
(`AfterDot`): `if (x) (function() if (a) break;); else c` and `a.return; else` show why.
A `.` can also stand where a block's brace should be, because `ParseTryCatchStatement`
eats that token unseen; what follows is then no access (`braces`).

*Fairness.*  `WF_vars(Step)` in `Tokenizer` and `Parser`: a call that has begun
goes on, because there is one thread and no call that waits.  Whether `advance()`
is called at all is left open.  `Sample` assumes the same of all its steps.  `Builder`
assumes that a call under way goes on (`Continue`) and that the destructors of a program
that has left the parser run (`Closing`): both are compiled in, none can be skipped.  What
the parser does before is left open.

*Deadlock* is checked in every run.  A stream can always be read, a tokenizer
called; a finished parse, a failed assertion and a program that has ended stutter by
explicit actions.

*Findings.*  The six violation runs: `peek()` skips the only token of a text;
`//` at the end of a text never returns; a failed regular expression over two
lines fails an assertion; a block begins with any token; a `/` after `a++` starts a
regular expression; `new` takes all argument lists.  `PROJECT.json` quotes the lines.

## 4. The proofs

`CharStream_proofs`, for all character sets, texts and buffer bounds:

- `StreamTypes`: `Spec => []TypeOK`.  The type invariant is inductive.
- `StreamImplementsLookahead`: `Spec => Abstract!Spec`.  Reading is the tail of
  `Upcoming` (`PopIsTail` when the buffer has a character, `GetIsTail` when the
  source has), a push-back conses to it (`PushIsCons`), and reading past the end
  leaves it empty.  Each step of the stream is therefore a step of `Lookahead`.
  The assumptions are those of the module: EOF is no character, texts are finite
  sequences of characters and of bytes that are read as EOF.

`Tokenizer_proofs` and `TokenizerTokens_proofs`, for all sets of
characters, all texts of whatever length, both modes and every sequence of calls and
resets.  The texts a property leaves out (`ClassFree`, `Plain`, section 3) are left out of
the theorem as well, and of the invariant, so that nothing is said of them.

- `TokenizerTypes`: `Spec => []TypeOK`, with `AccOK`, what `acc` holds where later
  characters are read from it by position.
- `TokenizerConserves`: `Spec => []Conserved`.  The invariant is `Tape`: at each place of
  the code, where the cursor stands (`Placed`), which character of the text `ch` is
  (`Reads`) and that `acc` spells the text from the lexeme's first character on
  (`Spells`).  Only with it does a push-back return what was read: `Suffix`, what is in
  the buffer is the text before the read position.  EOF is a character beyond the end
  that can be read any number of times (`CharAt`, `Placed`).
- `TokenizerSeekTracks`, `TokenizerPositionExact`, `TokenizerAssertsHold`.  `Places` says
  that row and `seek` are those of the cursor.  The column is right as well but for one
  line end put back behind another, and `Columns` says where that can be, and for each
  place that still may put back a line end which length `last_col` must then hold.
  `RowOf` and `ColOf` count positions, so that one more character adds to them or not
  (`RowOfNext`).
- `TokenizerSkipsOnlyTrivia`, from `Passed`: from the start of the call to the lexeme
  there are only blanks and comments, and what of a comment has been read does not end it.
- `TokenizerMunchesMaximally`, from `Munch`: a table that has answered no has no operator
  for the text at this place, and the shorter ones follow.
- `TokenizerAnswersSlashes`, from `Slashes`: a regular expression that has been given up
  could have been closed by no slash of its line, and stays so until the operator is
  answered.
- `TokenizerEndsAtEnd` and `TokenizerTellsTheText`, from `Answer`: what is answered is what
  the text has where the trivia end.

The assumptions are those of the modules.  `TextsFit`: no text is longer than a `size_t`
counts.  `EofIsNoSpelling`: EOF, which is negative, is no character of an operator or of a
character class.  `KeywordsAreTokens`: the sections of `tokens.inc` share no name.  The SMT
backend knows no strings for braces, comma and semicolon: what is said of the rows
of the tables that contain them is proved for any four characters in their place (`OneTable`).

`Parser_proofs`, for all names and sets of texts, without
a bound on the length of a text or the depth of nesting:

- `FlagFollows`: `Spec => []FlagFollowsLoops`.  The property speaks of frames, so
  it is not inductive by itself.  The invariant `Inv` adds `StackOK`: the first
  frame is the only one of `ParseProgram` (a `for` is therefore never the bottom
  of the stack, and unwinding one leaves a caller), a `for` frame keeps the flag
  to restore as the first of its locals, and the stack is empty only at the end.
  Most functions move between labels outside of loops, whatever their locals
  (`PlainSteps`); the for statement enters (`EnterLoop`), moves (`LoopSteps`) and
  leaves (`LeaveLoop`, used for the return and for `UnwindLoop`, whose innermost
  loop exists because depths are well-founded, `InnermostExists`).  `InvNext` has
  one step per parse function.
- `ParserTypes`: `Spec => []TypeOK`, on top of the same invariant: what a step
  reads (`ReadingSteps`) and where the frames it leaves began (`FrameSteps`).
- `ParserBracketsNest`: `Spec => []BracketsNest`, for the texts in which every block
  begins with a brace.  The invariant `Balanced`, which takes whatever a block has begun
  with for a brace (`Bracket`; in these texts it is one), ties the brackets open in the
  tokens read to the stack: where a call began there is open what was open where its
  caller began, and one bracket more if the caller's label `Holds` one.  Reading a token
  moves between labels as the token does (`Turns`).  Thirteen functions take their first
  token unseen (`Starts`), which must be no bracket, and `ParseBinaryExpressionRhs` takes
  any token whose level is at least the one it was called with, which must be positive
  (`LevelOK`).  The scan of the tokens is carried as a function that exists (`ScansTo`);
  it is the recursive function `Unclosed` of the property because no least index can tell
  them apart.
- `SlashesReadRightly`: `Spec => []SlashReadRightly`.  The invariant `Flow` has three
  parts.  `Links`: each call was made from a label that calls its function (`Sites`),
  `ParseBinaryExpressionRhs` at level 3 when it was from `ParseTernaryExpression`.
  `Known`: inside of a function its token has been read, for the proofs about trees.
  `Fine`: what a label asks of the mode the next token was read in (`ReadOn`, `ReadOff`:
  as it is due, or excepted because of what has just `ended`) and of what the last call
  returned; `Demands` says what a label asks, `Offers` what it gives, `FlowSteps` that a
  step which offers what the next label asks keeps `Flow`.

`ParserNodes_proofs`, under the same assumption, says what trees the parser makes:

- `TreesAreShaped`: `Spec => []Shapes`.  `Shape` says for each kind of node how many
  members it has, which may be null, and which kinds of nodes they are (`Value`: whatever
  an expression or a statement may be).  A tree is a node that some set contains with all
  the members of its elements, each of the right shape (`Tree`): no recursion is needed,
  and two trees put together make a tree (`Made`).  `Shapes` is `Tree` of what the last call
  returned and, for each label on the stack, of the parts its locals hold.  A set of words says
  whether the text has an `else` or a `switch`: without these no tree has nodes of them.
- `ElsesBelong`: `Spec => []NearestElse`.  For `ElsesNearest` the shapes also follow
  whether a statement ends in an open `if`: then the next token is no `else`
  (`OpenTakesElse`), since `ParseIfStatement` would have taken it, and the loops around
  only pass this on.  `Descend` and `NodesWithin` carry it from the shapes to the levels of
  the property.  For `JumpsEndIfs` the invariant is `Heed`: a jump with its `;` before an
  `else` can only be the last three tokens read, and the parser then stands at a label from
  which the `else` cannot be accepted (`Doomed`); a `;` is still due to a jump only where
  the jump's own frame waits for it (`Pending`).

The assumption is that the opening of a text is a sequence (`AlphabetsAreTexts`;
the bound on its length serves TLC only, the proofs do not use it).

`Sample_proofs`, under the same assumption, is about all trees `TreesAreShaped` allows:

- `PrinterRestoresTab`: `SampleSpec => []TabRestored`.  What a `Visit` has to do is
  followed as a path (`Path`) through four places of a line: before its beginning, after
  the indentation, after an opening brace, before a closing one; `Takes` says which
  command leads from which place and indentation to which.  The path of each of the thirty
  functions leads from a begun line to a fresh one at the indentation it started from, for
  every tree of the right shape, however many members its lists have (`VisitsRest`, put
  together from pieces by `Goes` and `JoinedIs`).  The invariant `Printing` says of
  each call on the stack that what it has left is such a path, and that the path of the
  caller goes on where that of the call ends (`Resumes`).  That no tree has a node too few
  or too many comes from the parser: a step of the program is one of the parser's or leaves
  the parser's state alone (`SampleShapes`).
- `PrinterAlignsBraces`: `SampleSpec => []BracesAlign`.  `Braces` adds that the
  open braces are those of the calls under way, each at the indentation of its caller's
  line.  Two commands break the rule of the four places, the brace an if-else leaves
  open and the expression of a switch: the rules allow them only if the text has an `else`
  or a `switch`, and then the shapes of the trees say that these commands do not occur.

`Matcher_proofs`, for all sets of trees, whatever their height and the length of their lists:

- `MatcherComparesOrdinaryTrees`: `Spec => []MatchIffEqual`;
- `MatcherTrueMeansAlike`: `Spec => []TrueMeansAlike`;
- `MatcherFails`: `Spec => []MatchFailsOnlyFor`;
- `MatcherSymmetric`: `Spec => []Symmetric`.

The invariant only says that the verdict is that of the two trees; the matter is what
`match` computes.  That `match`, `Nodes` and `Alike` are the functions their definitions
ask for is proved first: what `MatchExpression` answers for a pair depends only on what is
answered for pairs of lower `Rank` (`MatchDepends`), so there is a function
(`RecursiveFunctions`, by induction on ranks; this is what makes the recursion of the code
end).  `PairKinds` then divides pairs into eight kinds.  Nodes of most classes are
`Regular`: something of their own is compared and then what they hold, in order
(`RegularMatch`).  What remains are null and different kinds, null argument lists, objects,
regular expressions, declaration lists, switches and templates.  The theorems are inductions
over pairs (`PairInduction`) with one case for each.  `FailureSource` says that a failure
is the pair's own or that of a pair below.  For objects, `FoundInPlace` shows that a map of
the same size in which all names are found has the same names in the same places: the
places where they are found increase, and an increasing function from `1..n` to itself is
the identity (`IncreasingIsIdentity`).

The assumptions are those of the module: `TreesAreTrees`, trees hold trees that are lower,
and each has the members its class has; `MapsAreOrdered`, the names of an object
come in the order of a `std::map`.

`Builder_proofs`, for all sets of objects and all finite sets of handles:

- `HandlesExact`: `HSpec => [](HTypeOK /\ CountExact /\ HeldIsAlive)`.  That a count is
  the number of handles on its object (`CountExact`) and that no handle points to a
  deleted object (`HeldIsAlive`) need each other, since an object is deleted when its
  count says so, and three more facts: `clear()` calls under way are the chain of members
  of what is being deleted (`ClearingIsLast`), an object under construction is alone
  (`BuildingAlone`), and members belong to living objects (`MembersOfLiving`).
  `PointCounts` and `ClearCounts` follow the cardinality of the set of handles on an
  object; there is one lemma per action.
- `HandlesImplementOwnership`: `HSpec => Owned!Spec`.  Clearing a handle drops
  (`ClearDrops`), pointing it holds (`PointHolds`), freeing is a death of an object that
  is neither held nor holding; all else is a stutter.

and for all numbers of objects, handles, members, scopes and names:

- every step of the builder is a step of the handles or leaves them alone
  (`BuilderUsesHandles`), and the same for scopes (`BuilderUsesScopes`), so that their
  invariants carry over: `BuilderTypes`, `BuilderCounts`, `BuilderHandles`,
  `BuilderScopes`, and the refinement `BuilderImplements`;
- `BuilderKeepsNodes`: `BSpec => []NodesLive`, whose invariant adds `Kept`: while parsing,
  each saved node is in its cell, no `clear()` and no assignment is on a cell, nothing else
  is under way while a node is not yet saved, and scopes refer to living nodes only.

The assumptions are that objects are numbered and handles finitely many, that null is no
object and no scope, and that locals, main's handle, the builder's cells and the members
of objects are different handles.

Not proved but model-checked: liveness (`Returns`, `Finishes`, `Ends`, `AllFreed`);
`TreeFollowsPrecedence` and `NothingDropped` of `ParserTrees` and `OpenBracesAreIfElses`
and `ShowsTheText` of `SampleTrees`, which are defined by recursive operators on texts and
trees, which the provers cannot reason about; and `FailsOnlyFor` of `Sample`, for which the
shapes would also have to tell which tokens a missing member stands for.

## 5. What the models leave out

- The parser model takes its tokens from a tokenizer that only keeps their order.  One
  defect crosses that line: `peek()` reads again whenever `seek_` is back at 0, which
  push-backs at the end of a text of one or two characters can bring about.  The parser
  therefore rejects `; `, where EOF and the blank are put back, and skips the `a` of `a`,
  and the parser model does not; it agrees with the code on `;`, where nothing is put back.
- A byte 0xFF in the text of a tokenizer: every loop that ends at EOF ends there.
- Literal values.  `std::stod` may throw `out_of_range`, which is a failing
  alternative of `ParsePrimary`; nothing else of a value matters to control.
- Allocation failure and stack overflow by deep nesting.
- Positions of nodes: the locator hands out a reference to one shared position, and no
  code reads that of a declaration.  Counters, which are only written and dumped.
- What becomes of the addresses that scopes keep of declarations and other nodes that the
  builder does not save, and of the scopes that were popped: `Builder` gives scopes
  saved nodes only, and nothing in `src/` pushes, pops or declares yet.
- The value a handle's converting operator gives when its cast fails: the casts of `src/`
  do not.
- What the parser does with handles function by function: the builder allows more.

## 6. Plan

Done in this order: stream, tokenizer, parser, printer, matcher, handles, scopes and
builder.  Left:

1. `FailsOnlyFor` of the printer for all trees: which tokens stand where a member is null.
2. The parser over the real tokenizer for a few whole texts, so that the slash modes
   and the regular expressions meet.
3. A grammar of statements as reference, beside `Tree` for expressions.
4. The source locator: which token a node's position is that of.
