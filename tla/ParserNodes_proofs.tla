------------------------- MODULE ParserNodes_proofs -------------------------
(***************************************************************************)
(* The trees the parser builds, for every set of texts and of whatever     *)
(* depth: a node has the parts its kind calls for, and an else the nearest *)
(* if that can take it.  A tree is a node of a set that is closed under    *)
(* parts (Tree), so that nothing is said by recursion.  The invariant      *)
(* Shapes says what trees each label's locals are and what it is returned. *)
(***************************************************************************)
EXTENDS Parser_proofs

-----------------------------------------------------------------------------
(* Ifs that an else could still belong to.                                 *)

(* The chain of the parts a statement ends in.                             *)
Spine(f, k, n) == f[0] = n /\ \A i \in 1..k : f[i] = Ending(f[i - 1])

TakesElse(n) ==
  \E k \in Nat : \E f : Spine(f, k, n) /\ f[k].kind = "if" /\ Len(f[k].kids) = 2

LEMMA LeastOf ==
  ASSUME NEW S \in SUBSET Nat, S # {}
  PROVE  \E i \in S : \A j \in S : i <= j
<1> DEFINE Less == {pair \in Nat \X Nat : pair[1] < pair[2]}
<1>1. IsWellFoundedOn(Less, Nat)
  BY NatLessThanWellFounded DEF OpToRel
<1> HIDE DEF Less
<1>2. PICK i \in S : \A j \in S : ~(<<j, i>> \in Less)
  BY <1>1, WFMin
<1>3. ASSUME NEW j \in S PROVE i <= j
  <2>1. i \in Nat /\ j \in Nat /\ ~(<<j, i>> \in Less)
    BY <1>2
  <2>2. ~(j < i)
    BY <2>1 DEF Less
  <2> QED
    BY <2>1, <2>2
<1> QED
  BY <1>3

(* Only these three kinds of statement end in another one,                 *)
LEMMA ClosedKinds ==
  ASSUME NEW n, n.kind \notin {"if", "while", "for"}
  PROVE  ~TakesElse(n)
<1> SUFFICES ASSUME NEW k \in Nat, NEW f, Spine(f, k, n), f[k].kind = "if" PROVE FALSE
  BY DEF TakesElse
<1> DEFINE Off == {i \in Nat : i <= k /\ f[i] # n}
<1>1. k \in Off
  OBVIOUS
<1>2. Off \in SUBSET Nat /\ Off # {}
  BY <1>1
<1>3. \A i \in Off : i \in Nat /\ i <= k /\ f[i] # n
  OBVIOUS
<1>4. \A i \in Nat : i <= k /\ i \notin Off => f[i] = n
  OBVIOUS
<1> HIDE DEF Off
<1>5. PICK i \in Off : \A j \in Off : i <= j
  BY <1>2, LeastOf
<1>6. i \in Nat /\ i <= k /\ f[i] # n
  BY <1>3
<1>7. i # 0
  BY <1>6 DEF Spine
<1>8. i \in 1..k /\ i - 1 \in Nat /\ i - 1 <= k /\ ~(i <= i - 1)
  BY <1>6, <1>7
<1>9. f[i - 1] = n
  BY <1>4, <1>5, <1>8
<1>10. f[i] = Ending(n)
  BY <1>8, <1>9 DEF Spine
<1> QED
  BY <1>6, <1>10 DEF Ending

(* and what they end in is what takes the else, if they do not themselves. *)
LEMMA EndsInOne ==
  ASSUME NEW n, ~(n.kind = "if" /\ Len(n.kids) = 2), TakesElse(n)
  PROVE  TakesElse(Ending(n))
<1>0. PICK k \in Nat : \E f : Spine(f, k, n) /\ f[k].kind = "if" /\ Len(f[k].kids) = 2
  BY DEF TakesElse
<1>1. PICK f : Spine(f, k, n) /\ f[k].kind = "if" /\ Len(f[k].kids) = 2
  BY <1>0
<1>2. k # 0
  BY <1>1 DEF Spine
<1> PICK m \in Nat : m = k - 1
  BY <1>2
<1> DEFINE g == [i \in 0..m |-> f[i + 1]]
<1>3. g[0] = Ending(n)
  <2>1. 1 \in 1..k /\ 0 \in 0..m /\ 0 + 1 = 1 /\ 1 - 1 = 0
    BY <1>2
  <2> QED
    BY <1>1, <2>1 DEF Spine
<1>4. ASSUME NEW i \in 1..m PROVE g[i] = Ending(g[i - 1])
  <2>1. i + 1 \in 1..k /\ i \in 0..m /\ i - 1 \in 0..m /\ i - 1 + 1 = i /\ i + 1 - 1 = i
    BY <1>2, <1>4
  <2> QED
    BY <1>1, <2>1 DEF Spine
<1>5. g[m] = f[k]
  BY <1>2
<1> HIDE DEF g
<1>6. Spine(g, m, Ending(n))
  BY <1>3, <1>4 DEF Spine
<1> QED
  BY <1>1, <1>5, <1>6 DEF TakesElse

-----------------------------------------------------------------------------
(* Trees.                                                                  *)

(* The kinds of nodes, by how many parts a node has at least.              *)
Parts == {"property", "parameters", "clauses"}
Free == {"null", "leaf", "undefined", "true", "array", "object", "comma", "ternary", "arguments",
         "var", "block", "break", "return", "parameters", "clauses"}
OneUp ==
  {"new", "prefix", "postfix", "times", "throw", "label", "declaration", "property", "prototype"}
TwoUp == {"call", "dot", "index", "binary", "assign", "while", "do", "case", "if", "function",
          "switch"}
FourUp == {"for", "try"}

(* Where a node has a part that is no expression or statement.             *)
MayHavePart(n, i) ==
  \/ n.kind = "object"
  \/ n.kind = "function" /\ i = Len(n.kids) - 1
  \/ n.kind = "prototype" /\ i = Len(n.kids)

(* What a node is like by itself.                                          *)
Shape(n, seen) ==
  /\ n.kind \in Free \union OneUp \union TwoUp \union FourUp
  /\ n.kind = "null" => n = Null
  /\ IsSequence(n.kids)
  /\ n.kind \in OneUp => Len(n.kids) >= 1
  /\ n.kind \in TwoUp => Len(n.kids) >= 2
  /\ n.kind \in FourUp => Len(n.kids) >= 4
  /\ n.kind = "break" => Len(n.kids) <= 1
  /\ n.kind = "switch" => "SWITCH" \in seen
  /\ n.kind = "if" => /\ Len(n.kids) <= 3
                      /\ Len(n.kids) = 3 => "ELSE" \in seen /\ ~TakesElse(n.kids[2])
  /\ n.kind = "object" => \A i \in 1..Len(n.kids) : n.kids[i].kind = "property"
  /\ \A i \in 1..Len(n.kids) : n.kids[i].kind \in Parts => MayHavePart(n, i)

(* A tree, given the words the text has: the parts of each of its nodes    *)
(* are nodes of it.                                                        *)
Made(n, T, seen) == Shape(n, seen) /\ \A i \in 1..Len(n.kids) : n.kids[i] \in T

Tree(n, seen) == \E T : n \in T /\ \A m \in T : Made(m, T, seen)

LEMMA TreeIs ==
  ASSUME NEW n, NEW seen, Tree(n, seen)
  PROVE  Shape(n, seen) /\ \A i \in 1..Len(n.kids) : Tree(n.kids[i], seen)
  BY DEF Tree, Made

LEMMA TreeOf ==
  ASSUME NEW n, NEW seen, Shape(n, seen), \A i \in 1..Len(n.kids) : Tree(n.kids[i], seen)
  PROVE  Tree(n, seen)
<1> DEFINE Of(i, T) == n.kids[i] \in T /\ \A m \in T : Made(m, T, seen)
           W(i) == CHOOSE T : Of(i, T)
           All == {n} \union UNION {W(i) : i \in 1..Len(n.kids)}
<1>1. \A i \in 1..Len(n.kids) : Of(i, W(i))
  <2>1. \A i \in 1..Len(n.kids) : \E T : Of(i, T)
    BY DEF Tree
  <2> HIDE DEF Of
  <2> QED
    BY <2>1, Zenon
<1>2. ASSUME NEW i \in 1..Len(n.kids), NEW m \in W(i) PROVE m \in All
  BY <1>2
<1>3. ASSUME NEW m \in All PROVE m = n \/ \E i \in 1..Len(n.kids) : m \in W(i)
  BY <1>3
<1>4. n \in All
  OBVIOUS
<1> HIDE DEF W, All
<1>5. ASSUME NEW m \in All PROVE Made(m, All, seen)
  <2>1. CASE m = n
    <3>1. \A i \in 1..Len(n.kids) : n.kids[i] \in All
      BY <1>1, <1>2
    <3> QED
      BY <2>1, <3>1 DEF Made
  <2>2. CASE \E i \in 1..Len(n.kids) : m \in W(i)
    <3>1. PICK i \in 1..Len(n.kids) : m \in W(i)
      BY <2>2
    <3>2. Made(m, W(i), seen)
      BY <1>1, <3>1
    <3>3. \A j \in 1..Len(m.kids) : m.kids[j] \in All
      BY <1>2, <3>1, <3>2 DEF Made
    <3> QED
      BY <3>2, <3>3 DEF Made
  <2> QED
    BY <1>3, <1>5, <2>1, <2>2
<1> QED
  BY <1>4, <1>5 DEF Tree

(* A text that goes on has all the words it had.                           *)
LEMMA TreeStays ==
  ASSUME NEW n, NEW seen, NEW more, seen \subseteq more, Tree(n, seen)
  PROVE  Tree(n, more)
<1>1. PICK T : n \in T /\ \A m \in T : Made(m, T, seen)
  BY DEF Tree
<1>2. ASSUME NEW m \in T PROVE Made(m, T, more)
  BY <1>1, <1>2 DEF Made, Shape
<1> QED
  BY <1>1, <1>2 DEF Tree

-----------------------------------------------------------------------------
(* Sequences of trees.                                                     *)

(* An expression or a statement, or the null handle for want of one,       *)
Value(n, seen) == Tree(n, seen) /\ n.kind \notin Parts

(* one that no `else` can still belong to,                                 *)
Whole(n, seen) == Value(n, seen) /\ ~TakesElse(n)

(* and one that none will, for another token comes next.                   *)
Sealed(n, tok, seen) == Value(n, seen) /\ (tok # "ELSE" \/ ~TakesElse(n))

AllValues(s, seen) == IsSequence(s) /\ \A i \in 1..Len(s) : Value(s[i], seen)

Properties(s, seen) ==
  IsSequence(s) /\ \A i \in 1..Len(s) : Tree(s[i], seen) /\ s[i].kind = "property"

(* A function's name, if it has one, and its parameters.                   *)
Signature(s, seen) ==
  /\ IsSequence(s) /\ s # <<>>
  /\ \A i \in 1..Len(s) : Tree(s[i], seen) /\ (s[i].kind \in Parts => i = Len(s))

LEMMA Tuples ==
  /\ IsSequence(<<>>) /\ Len(<<>>) = 0
  /\ \A a : IsSequence(<<a>>) /\ Len(<<a>>) = 1 /\ <<a>>[1] = a /\ <<a>> # <<>>
  /\ \A a, b : IsSequence(<<a, b>>) /\ Len(<<a, b>>) = 2 /\ <<a, b>>[1] = a /\ <<a, b>>[2] = b
  /\ \A a, b, c : IsSequence(<<a, b, c>>) /\ Len(<<a, b, c>>) = 3
  /\ \A a, b, c, d : IsSequence(<<a, b, c, d>>) /\ Len(<<a, b, c, d>>) = 4
<1>1. IsSequence(<<>>)
  BY DEF IsSequence
<1>2. ASSUME NEW a PROVE IsSequence(<<a>>)
  <2>1. <<a>> \in Seq({a})
    OBVIOUS
  <2> QED
    BY <2>1, OwnElements
<1>3. ASSUME NEW a, NEW b PROVE IsSequence(<<a, b>>)
  <2>1. <<a, b>> \in Seq({a, b})
    OBVIOUS
  <2> QED
    BY <2>1, OwnElements
<1>4. ASSUME NEW a, NEW b, NEW c PROVE IsSequence(<<a, b, c>>)
  <2>1. <<a, b, c>> \in Seq({a, b, c})
    OBVIOUS
  <2> QED
    BY <2>1, OwnElements
<1>5. ASSUME NEW a, NEW b, NEW c, NEW d PROVE IsSequence(<<a, b, c, d>>)
  <2>1. <<a, b, c, d>> \in Seq({a, b, c, d})
    OBVIOUS
  <2> QED
    BY <2>1, OwnElements
<1> QED
  BY <1>1, <1>2, <1>3, <1>4, <1>5

LEMMA ListsOfValues ==
  ASSUME NEW seen
  PROVE  /\ AllValues(<<>>, seen)
         /\ \A a : Value(a, seen) => AllValues(<<a>>, seen)
         /\ \A a, b : Value(a, seen) /\ Value(b, seen) => AllValues(<<a, b>>, seen)
         /\ \A a, b, c : Value(a, seen) /\ Value(b, seen) /\ Value(c, seen) =>
              AllValues(<<a, b, c>>, seen)
         /\ \A a, b, c, d : Value(a, seen) /\ Value(b, seen) /\ Value(c, seen) /\ Value(d, seen) =>
              AllValues(<<a, b, c, d>>, seen)
<1>1. AllValues(<<>>, seen)
  BY Tuples DEF AllValues
<1>2. ASSUME NEW a, Value(a, seen) PROVE AllValues(<<a>>, seen)
  <2>1. \A i \in 1..1 : <<a>>[i] = a
    OBVIOUS
  <2> QED
    BY <1>2, <2>1, Tuples DEF AllValues
<1>3. ASSUME NEW a, NEW b, Value(a, seen), Value(b, seen) PROVE AllValues(<<a, b>>, seen)
  <2>1. \A i \in 1..2 : <<a, b>>[i] \in {a, b}
    OBVIOUS
  <2> QED
    BY <1>3, <2>1, Tuples DEF AllValues
<1>4. ASSUME NEW a, NEW b, NEW c, Value(a, seen), Value(b, seen), Value(c, seen)
      PROVE  AllValues(<<a, b, c>>, seen)
  <2>1. \A i \in 1..3 : <<a, b, c>>[i] \in {a, b, c}
    OBVIOUS
  <2> QED
    BY <1>4, <2>1, Tuples DEF AllValues
<1>5. ASSUME NEW a, NEW b, NEW c, NEW d,
             Value(a, seen), Value(b, seen), Value(c, seen), Value(d, seen)
      PROVE  AllValues(<<a, b, c, d>>, seen)
  <2>1. \A i \in 1..4 : <<a, b, c, d>>[i] \in {a, b, c, d}
    OBVIOUS
  <2> QED
    BY <1>5, <2>1, Tuples DEF AllValues
<1> QED
  BY <1>1, <1>2, <1>3, <1>4, <1>5

LEMMA OneMoreValue ==
  ASSUME NEW seen, NEW s, NEW n, AllValues(s, seen), Value(n, seen)
  PROVE  /\ AllValues(Append(s, n), seen)
         /\ Len(s) \in Nat /\ Len(Append(s, n)) = Len(s) + 1
         /\ \A i \in 1..Len(s) : Append(s, n)[i] = s[i]
         /\ Append(s, n)[Len(s) + 1] = n
<1> DEFINE t == Append(s, n)
<1>1. /\ Len(s) \in Nat /\ IsSequence(t) /\ Len(t) = Len(s) + 1
      /\ \A k \in 1..Len(s) : t[k] = s[k]
      /\ t[Len(s) + 1] = n
  BY OneMore DEF AllValues
<1> HIDE DEF t
<1>2. \A i \in 1..Len(s) + 1 : i \in 1..Len(s) \/ i = Len(s) + 1
  BY <1>1
<1>3. AllValues(t, seen)
  BY <1>1, <1>2 DEF AllValues
<1> QED
  BY <1>1, <1>3 DEF t

LEMMA Concatenated ==
  ASSUME NEW s, NEW t, IsSequence(s), IsSequence(t)
  PROVE  /\ IsSequence(s \o t) /\ Len(s \o t) = Len(s) + Len(t)
         /\ Len(s) \in Nat /\ Len(t) \in Nat
         /\ \A i \in 1..Len(s) : (s \o t)[i] = s[i]
         /\ \A i \in 1..Len(t) : (s \o t)[Len(s) + i] = t[i]
         /\ \A i \in 1..Len(s \o t) :
              i \in 1..Len(s) \/ \E j \in 1..Len(t) : i = Len(s) + j
<1> DEFINE S == {s[i] : i \in 1..Len(s)} \union {t[i] : i \in 1..Len(t)}
<1>1. s \in Seq(S) /\ t \in Seq(S)
  <2>1. s \in Seq({s[i] : i \in 1..Len(s)}) /\ t \in Seq({t[i] : i \in 1..Len(t)})
    BY DEF IsSequence
  <2> QED
    BY <2>1
<1> HIDE DEF S
<1>2. s \o t \in Seq(S) /\ Len(s) \in Nat /\ Len(t) \in Nat /\ Len(s \o t) = Len(s) + Len(t)
  BY <1>1, ConcatProperties
<1>3. \A i \in 1..Len(s) + Len(t) : (s \o t)[i] = IF i <= Len(s) THEN s[i] ELSE t[i - Len(s)]
  BY <1>1, ConcatProperties
<1>4. IsSequence(s \o t)
  BY <1>2, OwnElements
<1>5. ASSUME NEW i \in 1..Len(s) PROVE (s \o t)[i] = s[i]
  <2>1. i \in 1..Len(s) + Len(t) /\ i <= Len(s)
    BY <1>2
  <2> QED
    BY <1>3, <2>1
<1>6. ASSUME NEW i \in 1..Len(t) PROVE (s \o t)[Len(s) + i] = t[i]
  <2>1. Len(s) + i \in 1..Len(s) + Len(t) /\ ~(Len(s) + i <= Len(s)) /\ Len(s) + i - Len(s) = i
    BY <1>2
  <2> QED
    BY <1>3, <2>1
<1>7. ASSUME NEW i \in 1..Len(s) + Len(t)
      PROVE  i \in 1..Len(s) \/ \E j \in 1..Len(t) : i = Len(s) + j
  <2>1. CASE i <= Len(s)
    BY <1>2, <2>1
  <2>2. CASE ~(i <= Len(s))
    <3>1. i - Len(s) \in 1..Len(t) /\ i = Len(s) + (i - Len(s))
      BY <1>2, <2>2
    <3> QED
      BY <3>1
  <2> QED
    BY <2>1, <2>2
<1> QED
  BY <1>2, <1>4, <1>5, <1>6, <1>7

LEMMA JoinedValues ==
  ASSUME NEW seen, NEW s, NEW t, AllValues(s, seen), AllValues(t, seen)
  PROVE  AllValues(s \o t, seen)
<1>1. IsSequence(s) /\ IsSequence(t)
  BY DEF AllValues
<1> DEFINE u == s \o t
<1>2. /\ IsSequence(u)
      /\ \A i \in 1..Len(s) : u[i] = s[i]
      /\ \A i \in 1..Len(t) : u[Len(s) + i] = t[i]
      /\ \A i \in 1..Len(u) : i \in 1..Len(s) \/ \E j \in 1..Len(t) : i = Len(s) + j
  BY <1>1, Concatenated
<1> HIDE DEF u
<1>3. AllValues(u, seen)
  BY <1>2 DEF AllValues
<1> QED
  BY <1>3 DEF u

-----------------------------------------------------------------------------
(* The builder's nodes.                                                    *)

LEMMA LeavesAreWhole ==
  ASSUME NEW seen
  PROVE  Whole(Null, seen) /\ Whole(Undefined, seen) /\ \A i : Whole(Leaf(i), seen)
<1>1. ASSUME NEW n, n.kids = <<>>, n.kind \in {"null", "undefined", "leaf"},
             n.kind = "null" => n = Null
      PROVE  Whole(n, seen)
  <2>1. IsSequence(n.kids) /\ Len(n.kids) = 0 /\ \A i \in 1..Len(n.kids) : FALSE
    BY <1>1, Tuples
  <2>2. n.kind \notin OneUp \union TwoUp \union FourUp \union Parts /\ n.kind \in Free
    BY <1>1 DEF OneUp, TwoUp, FourUp, Parts, Free
  <2>3. Shape(n, seen)
    BY <1>1, <2>1, <2>2 DEF Shape
  <2>4. Tree(n, seen)
    BY <2>1, <2>3, TreeOf
  <2> QED
    BY <1>1, <2>2, <2>4, ClosedKinds DEF Whole, Value
<1>2. /\ Null.kids = <<>> /\ Null.kind = "null"
      /\ Undefined.kids = <<>> /\ Undefined.kind = "undefined"
      /\ \A i : Leaf(i).kids = <<>> /\ Leaf(i).kind = "leaf"
  BY DEF Null, Undefined, Leaf, Node
<1> QED
  BY <1>1, <1>2

LEMMA TreesOfValues ==
  ASSUME NEW seen, NEW kids, AllValues(kids, seen), NEW n, n.kids = kids,
         n.kind \in Free \union OneUp \union TwoUp \union FourUp,
         n.kind \notin {"null", "object"},
         n.kind \in OneUp => Len(kids) >= 1,
         n.kind \in TwoUp => Len(kids) >= 2,
         n.kind \in FourUp => Len(kids) >= 4,
         n.kind = "break" => Len(kids) <= 1,
         n.kind = "switch" => "SWITCH" \in seen,
         n.kind = "if" => Len(kids) <= 3 /\ (Len(kids) = 3 => "ELSE" \in seen /\ ~TakesElse(kids[2]))
  PROVE  Tree(n, seen)
<1>1. Shape(n, seen)
  BY DEF Shape, AllValues, Value
<1> QED
  BY <1>1, TreeOf DEF AllValues, Value

LEMMA NodesAre ==
  ASSUME NEW seen, NEW kids, AllValues(kids, seen), NEW op
  PROVE  /\ \A kind \in {"array", "comma", "ternary", "arguments", "var", "block", "return", "true"} :
              Whole(Node(kind, op, kids), seen)
         /\ Len(kids) >= 1 =>
              \A kind \in {"new", "prefix", "postfix", "times", "throw", "label", "declaration"} :
                Whole(Node(kind, op, kids), seen)
         /\ Len(kids) >= 2 =>
              \A kind \in {"call", "dot", "index", "binary", "assign", "do", "case"} :
                Whole(Node(kind, op, kids), seen)
         /\ Len(kids) >= 4 => Whole(Node("try", op, kids), seen)
         /\ Len(kids) <= 1 => Whole(Node("break", op, kids), seen)
         /\ Len(kids) >= 2 /\ "SWITCH" \in seen => Whole(Node("switch", op, kids), seen)
         /\ Tree(Node("parameters", op, kids), seen) /\ Tree(Node("clauses", op, kids), seen)
<1>1. \A kind : Node(kind, op, kids).kids = kids /\ Node(kind, op, kids).kind = kind
  BY DEF Node
<1>2. Len(kids) \in Nat
  BY DEF AllValues, IsSequence
<1>3. ASSUME NEW n, n.kids = kids,
             n.kind \in {"array", "comma", "ternary", "arguments", "var", "block", "return", "true",
                         "parameters", "clauses"}
      PROVE  Tree(n, seen)
  BY <1>3, TreesOfValues DEF Free, OneUp, TwoUp, FourUp
<1>4. ASSUME NEW n, n.kids = kids, Len(kids) >= 1,
             n.kind \in {"new", "prefix", "postfix", "times", "throw", "label", "declaration"}
      PROVE  Tree(n, seen)
  BY <1>4, TreesOfValues DEF Free, OneUp, TwoUp, FourUp
<1>5. ASSUME NEW n, n.kids = kids, Len(kids) >= 2,
             n.kind \in {"call", "dot", "index", "binary", "assign", "do", "case"}
      PROVE  Tree(n, seen)
  BY <1>5, TreesOfValues DEF Free, OneUp, TwoUp, FourUp
<1>6. ASSUME NEW n, n.kids = kids,
             \/ Len(kids) >= 4 /\ n.kind = "try"
             \/ Len(kids) <= 1 /\ n.kind = "break"
             \/ Len(kids) >= 2 /\ n.kind = "switch" /\ "SWITCH" \in seen
      PROVE  Tree(n, seen)
  BY <1>6, TreesOfValues DEF Free, OneUp, TwoUp, FourUp
<1>7. ASSUME NEW n, Tree(n, seen), n.kind \notin Parts \union {"if", "while", "for"}
      PROVE  Whole(n, seen)
  BY <1>7, ClosedKinds DEF Whole, Value
<1>8. \A kind \in {"array", "comma", "ternary", "arguments", "var", "block", "return", "true",
                   "new", "prefix", "postfix", "times", "throw", "label", "declaration", "call",
                   "dot", "index", "binary", "assign", "do", "case", "try", "break", "switch"} :
        kind \notin Parts \union {"if", "while", "for"}
  BY DEF Parts
<1> QED
  BY <1>1, <1>3, <1>4, <1>5, <1>6, <1>7, <1>8

(* The statements that end in another one.                                 *)
LEMMA OpenEndings ==
  ASSUME NEW seen, NEW kids, AllValues(kids, seen), NEW tok, Len(kids) >= 2,
         tok # "ELSE" \/ ~TakesElse(kids[Len(kids)])
  PROVE  /\ Sealed(Node("while", "", kids), tok, seen)
         /\ Len(kids) = 2 /\ tok # "ELSE" => Sealed(Node("if", "", kids), tok, seen)
         /\ Len(kids) = 3 /\ "ELSE" \in seen /\ ~TakesElse(kids[2]) =>
              Sealed(Node("if", "", kids), tok, seen)
         /\ Len(kids) >= 4 => Sealed(Node("for", "", kids), tok, seen)
<1>1. \A kind : Node(kind, "", kids).kids = kids /\ Node(kind, "", kids).kind = kind
  BY DEF Node
<1>2. Len(kids) \in Nat
  BY DEF AllValues, IsSequence
<1>3. ASSUME NEW n, n.kids = kids, n.kind \in {"while", "for", "if"}, Tree(n, seen)
      PROVE  Value(n, seen)
  BY <1>3 DEF Value, Parts
<1>4. ASSUME NEW n, n.kids = kids, n.kind \in {"while", "for", "if"},
             ~(n.kind = "if" /\ Len(kids) = 2)
      PROVE  tok # "ELSE" \/ ~TakesElse(n)
  BY <1>4, EndsInOne DEF Ending
<1>5. ASSUME NEW n, n.kids = kids, n.kind = "while" PROVE Sealed(n, tok, seen)
  <2>1. Tree(n, seen)
    BY <1>5, TreesOfValues DEF Free, OneUp, TwoUp, FourUp
  <2> QED
    BY <1>3, <1>4, <1>5, <2>1 DEF Sealed
<1>6. ASSUME NEW n, n.kids = kids, n.kind = "for", Len(kids) >= 4 PROVE Sealed(n, tok, seen)
  <2>1. Tree(n, seen)
    BY <1>6, TreesOfValues DEF Free, OneUp, TwoUp, FourUp
  <2> QED
    BY <1>3, <1>4, <1>6, <2>1 DEF Sealed
<1>7. ASSUME NEW n, n.kids = kids, n.kind = "if", Len(kids) = 2, tok # "ELSE"
      PROVE  Sealed(n, tok, seen)
  <2>1. Len(kids) <= 3 /\ Len(kids) # 3
    BY <1>7
  <2>2. n.kind \in TwoUp /\ n.kind \notin Free \union OneUp \union FourUp
    BY <1>7 DEF Free, OneUp, TwoUp, FourUp
  <2>3. Tree(n, seen)
    BY <1>7, <2>1, <2>2, TreesOfValues
  <2> QED
    BY <1>3, <1>7, <2>3 DEF Sealed
<1>8. ASSUME NEW n, n.kids = kids, n.kind = "if", Len(kids) = 3, "ELSE" \in seen,
             ~TakesElse(kids[2])
      PROVE  Sealed(n, tok, seen)
  <2>1. Len(kids) <= 3 /\ Len(kids) # 2
    BY <1>8
  <2>2. n.kind \in TwoUp /\ n.kind \notin Free \union OneUp \union FourUp
    BY <1>8 DEF Free, OneUp, TwoUp, FourUp
  <2>3. Tree(n, seen)
    BY <1>8, <2>1, <2>2, TreesOfValues
  <2> QED
    BY <1>3, <1>4, <1>8, <2>1, <2>3 DEF Sealed
<1> QED
  BY <1>1, <1>5, <1>6, <1>7, <1>8

LEMMA FunctionNodes ==
  ASSUME NEW seen, NEW s, NEW body, Signature(s, seen), Value(body, seen)
  PROVE  Whole(Node("function", "", Append(s, body)), seen)
<1> DEFINE kids == Append(s, body)
<1>1. /\ IsSequence(s)
      /\ \A i \in 1..Len(s) : Tree(s[i], seen) /\ (s[i].kind \in Parts => i = Len(s))
      /\ Len(s) # 0
  BY DEF Signature, IsSequence
<1>2. /\ Len(s) \in Nat /\ IsSequence(kids) /\ Len(kids) = Len(s) + 1
      /\ \A k \in 1..Len(s) : kids[k] = s[k]
      /\ kids[Len(s) + 1] = body
  BY <1>1, OneMore
<1> HIDE DEF kids
<1> PICK m \in Nat : m = Len(s)
  BY <1>2
<1>3. /\ m >= 1 /\ Len(kids) = m + 1 /\ kids[m + 1] = body
      /\ \A k \in 1..m : Tree(kids[k], seen) /\ (kids[k].kind \in Parts => k = m)
  BY <1>1, <1>2
<1>4. m + 1 >= 2 /\ m + 1 - 1 = m /\ \A i \in 1..m + 1 : i \in 1..m \/ i = m + 1
  BY <1>3
<1>5. \A i \in 1..m + 1 : Tree(kids[i], seen) /\ (kids[i].kind \in Parts => i = m)
  BY <1>3, <1>4 DEF Value
<1> DEFINE n == Node("function", "", kids)
<1>6. n.kids = kids /\ n.kind = "function"
  BY DEF Node
<1> HIDE DEF n
<1>7. Shape(n, seen)
  BY <1>2, <1>3, <1>4, <1>5, <1>6 DEF Shape, MayHavePart, Free, OneUp, TwoUp, FourUp
<1>8. Tree(n, seen)
  BY <1>3, <1>5, <1>6, <1>7, TreeOf
<1>9. Whole(n, seen)
  BY <1>6, <1>8, ClosedKinds DEF Whole, Value, Parts
<1> QED
  BY <1>9 DEF n, kids

LEMMA ObjectNodes ==
  ASSUME NEW seen, NEW proxy, Properties(proxy, seen)
  PROVE  Whole(Node("object", "", proxy), seen)
<1> PICK n : n = Node("object", "", proxy)
  OBVIOUS
<1>1. n.kids = proxy /\ n.kind = "object"
  BY DEF Node
<1>2. Shape(n, seen)
  BY <1>1 DEF Shape, MayHavePart, Properties, Free, OneUp, TwoUp, FourUp
<1>3. Tree(n, seen)
  BY <1>1, <1>2, TreeOf DEF Properties
<1> QED
  BY <1>1, <1>3, ClosedKinds DEF Whole, Value, Parts

LEMMA AssignedProperties ==
  ASSUME NEW seen, NEW proxy, Properties(proxy, seen), NEW name, NEW prop, Value(prop, seen)
  PROVE  Properties(Assigned(proxy, name, prop), seen)
<1> PICK property : property = Node("property", name, <<prop>>)
  OBVIOUS
<1> PICK assigned : assigned = Assigned(proxy, name, prop)
  OBVIOUS
<1>1. property.kind = "property" /\ property.kids = <<prop>>
  BY DEF Node
<1>2. Tree(property, seen)
  <2> PICK kids : kids = <<prop>>
    OBVIOUS
  <2>1. AllValues(kids, seen)
    BY ListsOfValues
  <2>2. Len(kids) >= 1 /\ property.kids = kids
    BY <1>1
  <2> QED
    BY <1>1, <2>1, <2>2, TreesOfValues DEF Free, OneUp, TwoUp, FourUp
<1>3. Len(proxy) \in Nat
  BY DEF Properties, IsSequence
<1>4. CASE \E i \in 1..Len(proxy) : proxy[i].op = name
  <2>1. assigned = [i \in 1..Len(proxy) |-> IF proxy[i].op = name THEN property ELSE proxy[i]]
    BY <1>4 DEF Assigned
  <2>2. /\ DOMAIN assigned = 1..Len(proxy)
        /\ \A i \in 1..Len(proxy) : assigned[i] \in {property, proxy[i]}
    BY <2>1
  <2> PICK S : S = {proxy[i] : i \in 1..Len(proxy)} \union {property}
    OBVIOUS
  <2>3. \A i \in 1..Len(proxy) : assigned[i] \in S
    BY <2>2
  <2>4. assigned \in Seq(S) /\ Len(assigned) = Len(proxy)
    BY <1>3, <2>1, <2>3
  <2>5. IsSequence(assigned)
    BY <2>4, OwnElements
  <2> QED
    BY <1>1, <1>2, <2>2, <2>4, <2>5 DEF Properties
<1>5. CASE ~\E i \in 1..Len(proxy) : proxy[i].op = name
  <2>1. assigned = Append(proxy, property)
    BY <1>5 DEF Assigned
  <2>2. /\ IsSequence(assigned) /\ Len(assigned) = Len(proxy) + 1
        /\ \A k \in 1..Len(proxy) : assigned[k] = proxy[k]
        /\ assigned[Len(proxy) + 1] = property
    BY <2>1, OneMore DEF Properties
  <2>3. \A i \in 1..Len(proxy) + 1 : i \in 1..Len(proxy) \/ i = Len(proxy) + 1
    BY <1>3
  <2> QED
    BY <1>1, <1>2, <2>2, <2>3 DEF Properties
<1> QED
  BY <1>4, <1>5

-----------------------------------------------------------------------------
(* The invariant.                                                          *)

ListLabels ==
  {"Program", "Program.statement", "Comma.next", "Array.next", "Parameters.first", "Parameters.name",
   "Parameters.next", "Function.body", "Block.next", "Block.statement", "Variable.next", "Default.while",
   "Ternary.third"}
OneLabels ==
  {"Assign.right", "Ternary.second", "Member.next", "Dot", "Index", "Arguments", "Arguments.next",
   "If.body", "While.body", "Do.open", "Do.close", "Declaration.name", "Declaration.value",
   "Switch.brace", "Try.open", "Try.close"}
SoloLabels == {"If.body", "Do.open", "Do.close", "Try.open", "Try.close"}
TwoLabels == {"If.else", "Do.end", "Try.handler"}
ThreeLabels == {"Try.finally", "Try.end"}
SignatureLabels == {"Function.end", "Method.end"}
PropertyLabels == {"Object.name", "Object.value", "Object.assign", "Object.next"}
CaseLabels == {"Case.first", "Case.do", "Case.colon", "Case.statement", "Case.while"}
ClauseLabels == {"Switch.clause", "Switch.case", "Switch.default"}
SwitchLabels == {"Switch", "Switch.open", "Switch.close", "Switch.brace"} \union ClauseLabels

(* The sizes of a for statement's locals.                                  *)
ForSized(label, size) ==
  /\ label \in {"For.init", "For.head"} => size = 1
  /\ label \in {"For.condition", "For.second", "For.in"} => size = 2
  /\ label \in {"For.update", "For.third"} => size = 3
  /\ label = "For.body" => size = 4

(* What a label's locals are, and which words the text has by then.        *)
Owns(label, locals, seen) ==
  /\ label \in ListLabels \union OneLabels \union TwoLabels \union ThreeLabels =>
       AllValues(locals, seen)
  /\ label \in OneLabels => Len(locals) >= 1
  /\ label \in TwoLabels => Len(locals) = 2
  /\ label \in ThreeLabels => Len(locals) = 3
  /\ label \in SoloLabels \union {"Switch.brace"} => Len(locals) = 1
  /\ label = "Member.next" => ~TakesElse(locals[1])
  /\ label = "If.else" => ~TakesElse(locals[2]) /\ "ELSE" \in seen
  /\ label \in SignatureLabels => Signature(locals, seen)
  /\ label \in RhsLabels =>
       IsSequence(locals) /\ Len(locals) >= 2 /\ Whole(locals[2], seen)
  /\ label \in PropertyLabels =>
       IsSequence(locals) /\ Len(locals) >= 2 /\ Properties(locals[1], seen) /\ Value(locals[2], seen)
  /\ label \in ForLabels =>
       /\ IsSequence(locals) /\ ForSized(label, Len(locals))
       /\ \A i \in 2..Len(locals) : Value(locals[i], seen)
  /\ label \in CaseLabels =>
       Len(locals) = 2 /\ AllValues(locals[1], seen) /\ AllValues(locals[2], seen)
  /\ label \in ClauseLabels =>
       /\ Len(locals) = 3
       /\ Value(locals[1], seen) /\ AllValues(locals[2], seen) /\ Value(locals[3], seen)
  /\ label \in SwitchLabels => "SWITCH" \in seen

SignatureSites == {"Function.body", "Method.body"}
WholeSites ==
  CommaSites \union AssignSites \union
  {"Assign.left", "Ternary.first", "Rhs.merge", "Unary.operand", "Binary.left", "Rhs.operand",
   "New.target", "Unary.postfix", "Member.first", "Try.catch", "Try.handler", "Try.end", "Method.end",
   "Variable.next", "Switch.default"}

(* What a label is returned: of the statements, one that an `else` could   *)
(* still belong to comes with another token.                               *)
Gets(label, value, tok, seen) ==
  /\ label \in StatementSites => Sealed(value, tok, seen)
  /\ label \in WholeSites => Whole(value, seen)
  /\ label \in SignatureSites => Tree(value, seen)
  /\ label = "Switch.case" => Tree(value, seen) /\ value.kind = "clauses"

Words == {type \in {"ELSE", "SWITCH"} : Has(type)}

Shapes ==
  /\ status = "running" =>
       /\ \A k \in 1..Len(stack) : Owns(stack[k].at, stack[k].mem, Words)
       /\ Gets(Top.at, ret, peek, Words)
  /\ status = "done" => Tree(ret, Words) /\ ret.kind = "block"

(* A text that goes on has the words it had.                               *)
LEMMA WordsStay ==
  ASSUME ReadOK, Reads
  PROVE  /\ Words \subseteq Words'
         /\ Keep => peek' = peek
         /\ \A type \in {"ELSE", "SWITCH"} : peek = type => type \in Words'
<1> PICK n \in Nat : n = here /\ n >= 1 /\ n = Len(input)
  BY DEF ReadOK, here
<1>1. Has(peek)
  BY DEF Has, peek
<1>2. ASSUME Keep PROVE (\A type : Has(type) => Has(type)') /\ peek' = peek
  BY <1>2 DEF Keep, reading, here, peek, Has, TypeOf
<1>3. ASSUME NEW next, input' = Append(input, next) PROVE \A type : Has(type) => Has(type)'
  <2>1. here' = n + 1 /\ \A i \in 1..n : input'[i] = input[i]
    BY <1>3 DEF ReadOK, here
  <2>2. \A i \in 1..n : i \in 1..n + 1
    OBVIOUS
  <2> QED
    BY <2>1, <2>2 DEF Has, TypeOf
<1>4. advance(FALSE) \/ advance(TRUE) \/ Open => \E next : input' = Append(input, next)
  BY DEF advance, Open
<1>5. \A type : Has(type) => Has(type)'
  BY <1>2, <1>3, <1>4 DEF Reads
<1>6. Words \subseteq Words'
  BY <1>5 DEF Words
<1>7. ASSUME NEW type \in {"ELSE", "SWITCH"}, peek = type PROVE type \in Words'
  <2>1. Has(type)
    BY <1>1, <1>7
  <2>2. Has(type)'
    BY <1>5, <2>1
  <2> QED
    BY <2>2 DEF Words
<1> QED
  BY <1>2, <1>6, <1>7

LEMMA ValuesStay ==
  ASSUME NEW seen, NEW more, seen \subseteq more
  PROVE  /\ \A n : Tree(n, seen) => Tree(n, more)
         /\ \A n : Value(n, seen) => Value(n, more)
         /\ \A n : Whole(n, seen) => Whole(n, more)
         /\ \A n, tok : Sealed(n, tok, seen) => Sealed(n, tok, more)
         /\ \A s : AllValues(s, seen) => AllValues(s, more)
         /\ \A s : Properties(s, seen) => Properties(s, more)
         /\ \A s : Signature(s, seen) => Signature(s, more)
<1>1. \A n : Tree(n, seen) => Tree(n, more)
  BY TreeStays
<1>2. \A n : Value(n, seen) => Value(n, more)
  BY <1>1 DEF Value
<1> QED
  BY <1>1, <1>2 DEF Whole, Sealed, AllValues, Properties, Signature

LEMMA OwnsStays ==
  ASSUME NEW seen, NEW more, seen \subseteq more, NEW label, NEW locals, Owns(label, locals, seen)
  PROVE  Owns(label, locals, more)
<1>1. /\ \A n : Value(n, seen) => Value(n, more)
      /\ \A n : Whole(n, seen) => Whole(n, more)
      /\ \A s : AllValues(s, seen) => AllValues(s, more)
      /\ \A s : Properties(s, seen) => Properties(s, more)
      /\ \A s : Signature(s, seen) => Signature(s, more)
  BY ValuesStay
<1> QED
  BY <1>1 DEF Owns

LEMMA GetsStays ==
  ASSUME NEW seen, NEW more, seen \subseteq more, NEW label, NEW value, NEW tok,
         Gets(label, value, tok, seen)
  PROVE  Gets(label, value, tok, more)
  BY ValuesStay DEF Gets

(* What the innermost call has, and a caller, whatever is read.            *)
LEMMA Given ==
  ASSUME Typed, status = "running", Shapes, Reads
  PROVE  /\ Owns(Top.at, mem, Words') /\ Gets(Top.at, ret, peek, Words')
         /\ \A k \in 1..Len(stack) : Owns(stack[k].at, stack[k].mem, Words')
<1>1. Words \subseteq Words'
  BY WordsStay DEF Typed
<1>2. \A k \in 1..Len(stack) : Owns(stack[k].at, stack[k].mem, Words')
  BY <1>1, OwnsStays DEF Shapes
<1>3. Gets(Top.at, ret, peek, Words')
  BY <1>1, GetsStays DEF Shapes
<1>4. Top = stack[Len(stack)] /\ Len(stack) \in 1..Len(stack) /\ mem = Top.mem
  BY Running DEF Typed
<1> QED
  BY <1>2, <1>3, <1>4

(* The innermost call goes on, calls another function or returns.          *)
LEMMA GotoShapes ==
  ASSUME Typed, status = "running", Shapes, Reads, UNCHANGED status, NEW label, NEW locals, NEW first,
         stack' = Append(Callers, Frame(label, locals, first)),
         Owns(label, locals, Words'), Gets(label, ret', peek', Words')
  PROVE  Shapes'
<1> PICK n \in Nat : n = Len(stack) /\ n >= 1
  BY Running DEF Typed
<1> DEFINE f == Frame(label, locals, first)
<1>1. /\ Len(stack') = n
      /\ \A k \in 1..n - 1 : stack'[k] = stack[k]
      /\ stack'[n] = f
  BY Running, OneMore DEF Typed
<1>2. f.at = label /\ f.mem = locals
  BY DEF Frame
<1> HIDE DEF f
<1>3. \A k \in 1..n - 1 : Owns(stack[k].at, stack[k].mem, Words')
  BY Given
<1>4. \A k \in 1..n : k = n \/ k \in 1..n - 1
  OBVIOUS
<1>5. Top'.at = label
  BY <1>1, <1>2 DEF Top
<1>6. \A k \in 1..n : Owns(stack'[k].at, stack'[k].mem, Words')
  BY <1>1, <1>2, <1>3, <1>4
<1> QED
  BY <1>1, <1>5, <1>6 DEF Shapes

LEMMA CallShapes ==
  ASSUME Typed, status = "running", Shapes, Reads, UNCHANGED status,
         NEW label, NEW locals, NEW function, NEW more, NEW first, NEW second,
         stack' = Callers \o <<Frame(label, locals, first), Frame(function, more, second)>>,
         Owns(label, locals, Words'), Owns(function, more, Words'),
         Gets(function, ret', peek', Words')
  PROVE  Shapes'
<1> PICK n \in Nat : n = Len(stack) /\ n >= 1
  BY Running DEF Typed
<1> DEFINE f == Frame(label, locals, first)
           g == Frame(function, more, second)
<1>1. /\ Len(stack') = n + 1
      /\ \A k \in 1..n - 1 : stack'[k] = stack[k]
      /\ stack'[n] = f /\ stack'[n + 1] = g
  BY Pushed DEF Typed
<1>2. f.at = label /\ f.mem = locals /\ g.at = function /\ g.mem = more
  BY DEF Frame
<1> HIDE DEF f, g
<1>3. \A k \in 1..n - 1 : Owns(stack[k].at, stack[k].mem, Words')
  BY Given
<1>4. \A k \in 1..n + 1 : k = n + 1 \/ k = n \/ k \in 1..n - 1
  OBVIOUS
<1>5. Top'.at = function
  BY <1>1, <1>2 DEF Top
<1>6. \A k \in 1..n + 1 : Owns(stack'[k].at, stack'[k].mem, Words')
  BY <1>1, <1>2, <1>3, <1>4
<1> QED
  BY <1>1, <1>5, <1>6 DEF Shapes

LEMMA ReturnShapes ==
  ASSUME Typed, status = "running", Flow, Shapes, Reads, UNCHANGED status, Top.at \notin Entry,
         stack' = Callers, \A label \in Sites(Top.at) : Gets(label, ret', peek', Words')
  PROVE  Shapes'
<1> PICK n \in Nat : n = Len(stack) /\ n >= 1
  BY Running DEF Typed
<1>1. Len(stack') = n - 1 /\ \A k \in 1..n - 1 : stack'[k] = stack[k] /\ k \in 1..n
  BY Running DEF Typed
<1>2. n # 1
  BY Running DEF Typed, FrameOK
<1>3. n - 1 \in 1..n - 1 /\ n - 1 + 1 = n
  BY <1>2
<1>4. Linked(stack[n - 1], Top)
  BY <1>3 DEF Flow, Links, Top
<1>5. Top' = stack[n - 1]
  BY <1>1, <1>3 DEF Top
<1>6. Gets(Top'.at, ret', peek', Words')
  BY <1>4, <1>5 DEF Linked
<1>7. \A k \in 1..n - 1 : Owns(stack[k].at, stack[k].mem, Words')
  BY <1>1, Given
<1>8. \A k \in 1..n - 1 : Owns(stack'[k].at, stack'[k].mem, Words')
  BY <1>1, <1>7
<1> QED
  BY <1>1, <1>6, <1>8 DEF Shapes

LEMMA ShapeSteps ==
  ASSUME Typed, status = "running", Flow, Shapes
  PROVE  /\ \A label, locals :
              Goto(label, locals) /\ Reads /\ Owns(label, locals, Words')
              /\ Gets(label, ret, peek', Words') => Shapes'
         /\ \A function, label, locals :
              Call(function, label, locals) /\ Reads /\ Owns(label, locals, Words')
              /\ Owns(function, <<>>, Words') /\ Gets(function, ret, peek', Words') => Shapes'
         /\ \A value :
              /\ Return(value) \/ ReturnRestoring(value)
              /\ Reads /\ Top.at \notin Entry
              /\ \A label \in Sites(Top.at) : Gets(label, value, peek', Words')
              => Shapes'
         /\ Throw => Shapes'
         /\ Reads => Owns(Top.at, mem, Words') /\ Gets(Top.at, ret, peek, Words')
<1>1. ASSUME NEW label, NEW locals, Goto(label, locals), Reads, Owns(label, locals, Words'),
             Gets(label, ret, peek', Words')
      PROVE  Shapes'
  <2>1. PICK first : first = Top.from
    OBVIOUS
  <2>2. stack' = Append(Callers, Frame(label, locals, first)) /\ UNCHANGED <<ret, status>>
    BY <1>1, <2>1 DEF Goto
  <2> QED
    BY <1>1, <2>2, GotoShapes
<1>2. ASSUME NEW function, NEW label, NEW locals, Call(function, label, locals), Reads,
             Owns(label, locals, Words'), Owns(function, <<>>, Words'),
             Gets(function, ret, peek', Words')
      PROVE  Shapes'
  <2>1. PICK first, second : first = Top.from /\ second = Len(input')
    OBVIOUS
  <2>2. /\ stack' = Callers \o <<Frame(label, locals, first), Frame(function, <<>>, second)>>
        /\ UNCHANGED <<ret, status>>
    BY <1>2, <2>1 DEF Call
  <2> QED
    BY <1>2, <2>2, CallShapes
<1>3. ASSUME NEW value, Return(value) \/ ReturnRestoring(value), Reads, Top.at \notin Entry,
             \A label \in Sites(Top.at) : Gets(label, value, peek', Words')
      PROVE  Shapes'
  <2>1. ret' = value /\ stack' = Callers /\ UNCHANGED status
    BY <1>3 DEF Return, ReturnRestoring
  <2> QED
    BY <1>3, <2>1, ReturnShapes
<1>4. Throw => Shapes'
  BY DEF Throw, Shapes
<1>5. Reads => Owns(Top.at, mem, Words') /\ Gets(Top.at, ret, peek, Words')
  BY Given
<1> QED
  BY <1>1, <1>2, <1>3, <1>4, <1>5

-----------------------------------------------------------------------------
(* Labels that own nothing, and labels that no value is returned to.       *)
Unowning ==
  {"Comma", "Assign", "Assign.left", "Ternary", "Ternary.first", "Binary", "Binary.left", "Unary",
   "Unary.operand", "Unary.postfix", "LeftHandSide", "New.target", "Member", "Member.first",
   "Primary", "Paren", "Array", "Object", "Method", "Method.body", "Statement", "Expression.end",
   "If", "If.open", "If.close", "For", "For.open", "While", "While.open", "While.close", "Do",
   "Do.while", "Parameters", "Function", "Function.name", "Block", "Return", "Return.value",
   "Return.end", "Declaration", "Variable", "Case", "Default", "Default.colon", "Break",
   "Break.label", "Try", "Try.catch", "Throw", "Throw.end"}

Unasking ==
  {"Program", "Comma", "Assign", "Ternary", "Binary", "Rhs", "Unary", "LeftHandSide", "Member",
   "Member.next", "Dot", "Arguments", "Primary", "Array", "Object", "Object.name", "Object.value",
   "Object.next", "Method", "Statement", "If", "If.open", "For", "For.open", "For.init",
   "For.condition", "For.update", "While", "While.open", "Do", "Do.open", "Do.end", "Parameters",
   "Parameters.first", "Parameters.name", "Parameters.next", "Function", "Function.name", "Block",
   "Block.next", "Return", "Return.value", "Declaration", "Declaration.name", "Variable", "Case",
   "Case.do", "Case.while", "Default", "Default.colon", "Switch", "Switch.open", "Switch.brace",
   "Switch.clause", "Break", "Break.label", "Try", "Try.open", "Try.finally", "Throw"}

(* Owns and Gets, label by label.                                          *)
LEMMA Needs ==
  ASSUME NEW seen
  PROVE  /\ \A label \in Unowning : \A s : Owns(label, s, seen)
         /\ \A label \in ListLabels : \A s : AllValues(s, seen) <=> Owns(label, s, seen)
         /\ \A label \in OneLabels \ ({"Member.next", "Switch.brace"} \union SoloLabels) :
              \A s : AllValues(s, seen) /\ Len(s) >= 1 <=> Owns(label, s, seen)
         /\ \A s : AllValues(s, seen) /\ Len(s) >= 1 /\ ~TakesElse(s[1]) <=> Owns("Member.next", s, seen)
         /\ \A label \in SoloLabels : \A s :
              AllValues(s, seen) /\ Len(s) = 1 <=> Owns(label, s, seen)
         /\ \A s : AllValues(s, seen) /\ Len(s) = 1 /\ "SWITCH" \in seen <=>
                   Owns("Switch.brace", s, seen)
         /\ \A label \in {"Do.end", "Try.handler"} : \A s :
              AllValues(s, seen) /\ Len(s) = 2 <=> Owns(label, s, seen)
         /\ \A s : AllValues(s, seen) /\ Len(s) = 2 /\ ~TakesElse(s[2]) /\ "ELSE" \in seen <=>
                   Owns("If.else", s, seen)
         /\ \A label \in ThreeLabels : \A s :
              AllValues(s, seen) /\ Len(s) = 3 <=> Owns(label, s, seen)
<1>1. \A label \in Unowning : \A s : Owns(label, s, seen)
  BY DEF Unowning, Owns, ListLabels, OneLabels, TwoLabels, SoloLabels, ThreeLabels,
         SignatureLabels, RhsLabels,
         PropertyLabels, ForLabels, CaseLabels, ClauseLabels, SwitchLabels
<1>2. \A label \in ListLabels : \A s : AllValues(s, seen) <=> Owns(label, s, seen)
  BY DEF Owns, ListLabels, OneLabels, TwoLabels, SoloLabels, ThreeLabels, SignatureLabels,
         RhsLabels, PropertyLabels, ForLabels, CaseLabels, ClauseLabels, SwitchLabels
<1>3. \A label \in OneLabels \ ({"Member.next", "Switch.brace"} \union SoloLabels) :
        \A s : AllValues(s, seen) /\ Len(s) >= 1 <=> Owns(label, s, seen)
  BY DEF Owns, ListLabels, OneLabels, TwoLabels, SoloLabels, ThreeLabels, SignatureLabels,
         RhsLabels, PropertyLabels, ForLabels, CaseLabels, ClauseLabels, SwitchLabels
<1>4. \A s : AllValues(s, seen) /\ Len(s) >= 1 /\ ~TakesElse(s[1]) <=> Owns("Member.next", s, seen)
  BY DEF Owns, ListLabels, OneLabels, TwoLabels, SoloLabels, ThreeLabels, SignatureLabels,
         RhsLabels, PropertyLabels, ForLabels, CaseLabels, ClauseLabels, SwitchLabels
<1>5. ASSUME NEW label \in SoloLabels, NEW s
      PROVE  AllValues(s, seen) /\ Len(s) = 1 <=> Owns(label, s, seen)
  <2>1. Len(s) = 1 => Len(s) >= 1
    OBVIOUS
  <2> QED
    BY <1>5, <2>1
       DEF Owns, ListLabels, OneLabels, TwoLabels, SoloLabels, ThreeLabels, SignatureLabels,
           RhsLabels, PropertyLabels, ForLabels, CaseLabels, ClauseLabels, SwitchLabels
<1>6. ASSUME NEW s
      PROVE  AllValues(s, seen) /\ Len(s) = 1 /\ "SWITCH" \in seen <=> Owns("Switch.brace", s, seen)
  <2>1. Len(s) = 1 => Len(s) >= 1
    OBVIOUS
  <2> QED
    BY <2>1
       DEF Owns, ListLabels, OneLabels, TwoLabels, SoloLabels, ThreeLabels, SignatureLabels,
           RhsLabels, PropertyLabels, ForLabels, CaseLabels, ClauseLabels, SwitchLabels
<1>7. \A label \in {"Do.end", "Try.handler"} : \A s :
        AllValues(s, seen) /\ Len(s) = 2 <=> Owns(label, s, seen)
  BY DEF Owns, ListLabels, OneLabels, TwoLabels, SoloLabels, ThreeLabels, SignatureLabels,
         RhsLabels, PropertyLabels, ForLabels, CaseLabels, ClauseLabels, SwitchLabels
<1>8. \A s : AllValues(s, seen) /\ Len(s) = 2 /\ ~TakesElse(s[2]) /\ "ELSE" \in seen <=>
             Owns("If.else", s, seen)
  BY DEF Owns, ListLabels, OneLabels, TwoLabels, SoloLabels, ThreeLabels, SignatureLabels,
         RhsLabels, PropertyLabels, ForLabels, CaseLabels, ClauseLabels, SwitchLabels
<1>9. \A label \in ThreeLabels : \A s : AllValues(s, seen) /\ Len(s) = 3 <=> Owns(label, s, seen)
  BY DEF Owns, ListLabels, OneLabels, TwoLabels, SoloLabels, ThreeLabels, SignatureLabels,
         RhsLabels, PropertyLabels, ForLabels, CaseLabels, ClauseLabels, SwitchLabels
<1> QED
  BY <1>1, <1>2, <1>3, <1>4, <1>5, <1>6, <1>7, <1>8, <1>9

LEMMA SpecialNeeds ==
  ASSUME NEW seen
  PROVE  /\ \A label \in SignatureLabels : \A s : Signature(s, seen) <=> Owns(label, s, seen)
         /\ \A label \in RhsLabels : \A s :
              IsSequence(s) /\ Len(s) >= 2 /\ Whole(s[2], seen) <=> Owns(label, s, seen)
         /\ \A label \in PropertyLabels : \A s :
              IsSequence(s) /\ Len(s) >= 2 /\ Properties(s[1], seen) /\ Value(s[2], seen) <=>
              Owns(label, s, seen)
         /\ \A label \in CaseLabels : \A s :
              Len(s) = 2 /\ AllValues(s[1], seen) /\ AllValues(s[2], seen) <=> Owns(label, s, seen)
         /\ \A label \in ClauseLabels : \A s :
              /\ "SWITCH" \in seen /\ Len(s) = 3
              /\ Value(s[1], seen) /\ AllValues(s[2], seen) /\ Value(s[3], seen)
              <=> Owns(label, s, seen)
         /\ \A label \in {"Switch", "Switch.open", "Switch.close"} : \A s :
              "SWITCH" \in seen <=> Owns(label, s, seen)
         /\ \A label \in ForLabels : \A s :
              /\ IsSequence(s) /\ ForSized(label, Len(s))
              /\ \A i \in 2..Len(s) : Value(s[i], seen)
              <=> Owns(label, s, seen)
<1>1. \A label \in SignatureLabels : \A s : Signature(s, seen) <=> Owns(label, s, seen)
  BY DEF Owns, ListLabels, OneLabels, TwoLabels, SoloLabels, ThreeLabels, SignatureLabels,
         RhsLabels, PropertyLabels, ForLabels, CaseLabels, ClauseLabels, SwitchLabels
<1>2. \A label \in RhsLabels : \A s :
        IsSequence(s) /\ Len(s) >= 2 /\ Whole(s[2], seen) <=> Owns(label, s, seen)
  BY DEF Owns, ListLabels, OneLabels, TwoLabels, SoloLabels, ThreeLabels, SignatureLabels,
         RhsLabels, PropertyLabels, ForLabels, CaseLabels, ClauseLabels, SwitchLabels
<1>3. \A label \in PropertyLabels : \A s :
        IsSequence(s) /\ Len(s) >= 2 /\ Properties(s[1], seen) /\ Value(s[2], seen) <=>
        Owns(label, s, seen)
  BY DEF Owns, ListLabels, OneLabels, TwoLabels, SoloLabels, ThreeLabels, SignatureLabels,
         RhsLabels, PropertyLabels, ForLabels, CaseLabels, ClauseLabels, SwitchLabels
<1>4. \A label \in CaseLabels : \A s :
        Len(s) = 2 /\ AllValues(s[1], seen) /\ AllValues(s[2], seen) <=> Owns(label, s, seen)
  BY DEF Owns, ListLabels, OneLabels, TwoLabels, SoloLabels, ThreeLabels, SignatureLabels,
         RhsLabels, PropertyLabels, ForLabels, CaseLabels, ClauseLabels, SwitchLabels
<1>5. \A label \in ClauseLabels : \A s :
        /\ "SWITCH" \in seen /\ Len(s) = 3
        /\ Value(s[1], seen) /\ AllValues(s[2], seen) /\ Value(s[3], seen)
        <=> Owns(label, s, seen)
  BY DEF Owns, ListLabels, OneLabels, TwoLabels, SoloLabels, ThreeLabels, SignatureLabels,
         RhsLabels, PropertyLabels, ForLabels, CaseLabels, ClauseLabels, SwitchLabels
<1>6. \A label \in {"Switch", "Switch.open", "Switch.close"} : \A s :
        "SWITCH" \in seen <=> Owns(label, s, seen)
  BY DEF Owns, ListLabels, OneLabels, TwoLabels, SoloLabels, ThreeLabels, SignatureLabels,
         RhsLabels, PropertyLabels, ForLabels, CaseLabels, ClauseLabels, SwitchLabels
<1>7. \A label \in ForLabels : \A s :
        /\ IsSequence(s) /\ ForSized(label, Len(s))
        /\ \A i \in 2..Len(s) : Value(s[i], seen)
        <=> Owns(label, s, seen)
  BY DEF Owns, ListLabels, OneLabels, TwoLabels, SoloLabels, ThreeLabels, SignatureLabels,
         RhsLabels, PropertyLabels, ForLabels, CaseLabels, ClauseLabels, SwitchLabels
<1> QED
  BY <1>1, <1>2, <1>3, <1>4, <1>5, <1>6, <1>7

LEMMA Asks ==
  ASSUME NEW seen
  PROVE  /\ \A label \in Unasking : \A value, tok : Gets(label, value, tok, seen)
         /\ \A label \in StatementSites : \A value, tok :
              Sealed(value, tok, seen) <=> Gets(label, value, tok, seen)
         /\ \A label \in WholeSites : \A value, tok :
              Whole(value, seen) <=> Gets(label, value, tok, seen)
         /\ \A label \in SignatureSites : \A value, tok :
              Tree(value, seen) <=> Gets(label, value, tok, seen)
         /\ \A value, tok : Tree(value, seen) /\ value.kind = "clauses" <=>
                            Gets("Switch.case", value, tok, seen)
         /\ \A value, tok : Whole(value, seen) => Sealed(value, tok, seen)
         /\ \A value : Whole(value, seen) => Value(value, seen)
         /\ \A value, tok : Sealed(value, tok, seen) => Value(value, seen)
<1>1. \A label \in Unasking : \A value, tok : Gets(label, value, tok, seen)
  BY DEF Unasking, Gets, StatementSites, WholeSites, CommaSites, AssignSites, SignatureSites
<1>2. \A label \in StatementSites : \A value, tok :
        Sealed(value, tok, seen) <=> Gets(label, value, tok, seen)
  BY DEF Gets, StatementSites, WholeSites, CommaSites, AssignSites, SignatureSites
<1>3. \A label \in WholeSites : \A value, tok :
        Whole(value, seen) <=> Gets(label, value, tok, seen)
  BY DEF Gets, StatementSites, WholeSites, CommaSites, AssignSites, SignatureSites
<1>4. \A label \in SignatureSites : \A value, tok :
        Tree(value, seen) <=> Gets(label, value, tok, seen)
  BY DEF Gets, StatementSites, WholeSites, CommaSites, AssignSites, SignatureSites
<1>5. \A value, tok : Tree(value, seen) /\ value.kind = "clauses" <=>
                      Gets("Switch.case", value, tok, seen)
  BY DEF Gets, StatementSites, WholeSites, CommaSites, AssignSites, SignatureSites
<1>6. \A value, tok : Whole(value, seen) => Sealed(value, tok, seen)
  BY DEF Whole, Sealed
<1>7. \A value, tok : Sealed(value, tok, seen) => Value(value, seen)
  BY DEF Sealed
<1> QED
  BY <1>1, <1>2, <1>3, <1>4, <1>5, <1>6, <1>7 DEF Whole

(* Nodes of a few parts, and the parts of a few.                           *)
LEMMA SmallNodes ==
  ASSUME NEW seen, NEW op
  PROVE  /\ \A kind \in {"array", "arguments", "var", "block", "return", "true", "break"} :
              Whole(Node(kind, op, <<>>), seen)
         /\ Tree(Node("parameters", op, <<>>), seen)
         /\ \A kind \in {"new", "prefix", "postfix", "times", "throw", "label", "declaration",
                         "return", "break"} :
              \A a : Value(a, seen) => Whole(Node(kind, op, <<a>>), seen)
         /\ \A kind \in {"call", "dot", "index", "binary", "assign", "do", "case"} :
              \A a, b : Value(a, seen) /\ Value(b, seen) => Whole(Node(kind, op, <<a, b>>), seen)
<1>1. AllValues(<<>>, seen) /\ Len(<<>>) <= 1
  BY ListsOfValues, Tuples
<1>2. ASSUME NEW a, Value(a, seen)
      PROVE  AllValues(<<a>>, seen) /\ Len(<<a>>) >= 1 /\ Len(<<a>>) <= 1
  <2>1. AllValues(<<a>>, seen)
    BY <1>2, ListsOfValues
  <2> QED
    BY <2>1
<1>3. ASSUME NEW a, NEW b, Value(a, seen), Value(b, seen)
      PROVE  AllValues(<<a, b>>, seen) /\ Len(<<a, b>>) >= 2
  <2>1. AllValues(<<a, b>>, seen)
    BY <1>3, ListsOfValues
  <2> QED
    BY <2>1
<1>4. /\ \A kind \in {"array", "arguments", "var", "block", "return", "true", "break"} :
           Whole(Node(kind, op, <<>>), seen)
      /\ Tree(Node("parameters", op, <<>>), seen)
  <2> PICK kids : kids = <<>>
    OBVIOUS
  <2>1. AllValues(kids, seen) /\ Len(kids) <= 1
    BY <1>1
  <2>2. /\ \A kind \in {"array", "arguments", "var", "block", "return", "true", "break"} :
             Whole(Node(kind, op, kids), seen)
        /\ Tree(Node("parameters", op, kids), seen)
    BY <2>1, NodesAre
  <2> QED
    BY <2>2
<1>5. ASSUME NEW a, Value(a, seen)
      PROVE  \A kind \in {"new", "prefix", "postfix", "times", "throw", "label", "declaration",
                          "return", "break"} :
               Whole(Node(kind, op, <<a>>), seen)
  <2> DEFINE kids == <<a>>
  <2>1. AllValues(kids, seen) /\ Len(kids) >= 1 /\ Len(kids) <= 1
    BY <1>2, <1>5
  <2> HIDE DEF kids
  <2>2. \A kind \in {"new", "prefix", "postfix", "times", "throw", "label", "declaration",
                     "return", "break"} :
          Whole(Node(kind, op, kids), seen)
    BY <2>1, NodesAre
  <2> QED
    BY <2>2 DEF kids
<1>6. ASSUME NEW a, NEW b, Value(a, seen), Value(b, seen)
      PROVE  \A kind \in {"call", "dot", "index", "binary", "assign", "do", "case"} :
               Whole(Node(kind, op, <<a, b>>), seen)
  <2> DEFINE kids == <<a, b>>
  <2>1. AllValues(kids, seen) /\ Len(kids) >= 2
    BY <1>3, <1>6
  <2> HIDE DEF kids
  <2>2. \A kind \in {"call", "dot", "index", "binary", "assign", "do", "case"} :
          Whole(Node(kind, op, kids), seen)
    BY <2>1, NodesAre
  <2> QED
    BY <2>2 DEF kids
<1> QED
  BY <1>4, <1>5, <1>6

LEMMA Pieces ==
  ASSUME NEW seen, NEW s, AllValues(s, seen)
  PROVE  /\ Len(s) \in Nat
         /\ Len(s) >= 1 => Value(s[1], seen)
         /\ Len(s) = 2 => Value(s[1], seen) /\ Value(s[2], seen)
         /\ \A n : Value(n, seen) =>
              /\ AllValues(Append(s, n), seen) /\ Len(Append(s, n)) = Len(s) + 1
              /\ Len(Append(s, n)) >= 1
              /\ Len(s) >= 1 => Len(Append(s, n)) >= 2 /\ Append(s, n)[1] = s[1]
              /\ Len(s) = 1 => Len(Append(s, n)) = 2 /\ Append(s, n)[2] = n
              /\ Len(s) = 2 => Len(Append(s, n)) = 3 /\ Append(s, n)[3] = n /\ Append(s, n)[2] = s[2]
              /\ Len(s) = 3 => Len(Append(s, n)) = 4
<1>1. Len(s) \in Nat
  BY DEF AllValues, IsSequence
<1>2. Len(s) >= 1 => Value(s[1], seen)
  <2>1. Len(s) >= 1 => 1 \in 1..Len(s)
    BY <1>1
  <2> QED
    BY <2>1 DEF AllValues
<1>3. Len(s) = 2 => Value(s[1], seen) /\ Value(s[2], seen)
  BY DEF AllValues
<1>4. ASSUME NEW n, Value(n, seen)
      PROVE  /\ AllValues(Append(s, n), seen) /\ Len(Append(s, n)) = Len(s) + 1
             /\ Len(Append(s, n)) >= 1
             /\ Len(s) >= 1 => Len(Append(s, n)) >= 2 /\ Append(s, n)[1] = s[1]
             /\ Len(s) = 1 => Len(Append(s, n)) = 2 /\ Append(s, n)[2] = n
             /\ Len(s) = 2 =>
                  Len(Append(s, n)) = 3 /\ Append(s, n)[3] = n /\ Append(s, n)[2] = s[2]
             /\ Len(s) = 3 => Len(Append(s, n)) = 4
  <2> DEFINE t == Append(s, n)
  <2>1. /\ AllValues(t, seen) /\ Len(t) = Len(s) + 1
        /\ \A i \in 1..Len(s) : t[i] = s[i]
        /\ t[Len(s) + 1] = n
    BY <1>4, OneMoreValue
  <2> HIDE DEF t
  <2> PICK m \in Nat : m = Len(s)
    BY <1>1
  <2>2. Len(t) = m + 1 /\ \A i \in 1..m : t[i] = s[i]
    BY <2>1
  <2>3. t[m + 1] = n
    BY <2>1
  <2>4. m >= 1 => m + 1 >= 2 /\ 1 \in 1..m
    OBVIOUS
  <2>5. m = 2 => m + 1 = 3 /\ 2 \in 1..m
    OBVIOUS
  <2>6. /\ Len(t) >= 1
        /\ m >= 1 => Len(t) >= 2 /\ t[1] = s[1]
        /\ m = 1 => Len(t) = 2 /\ t[2] = n
        /\ m = 2 => Len(t) = 3 /\ t[3] = n /\ t[2] = s[2]
        /\ m = 3 => Len(t) = 4
    BY <2>2, <2>3, <2>4, <2>5
  <2> QED
    BY <2>1, <2>6 DEF t
<1> QED
  BY <1>1, <1>2, <1>3, <1>4

(* Locals of one expression.                                               *)
LEMMA Singles ==
  ASSUME NEW seen
  PROVE  /\ \A label \in OneLabels \ {"Member.next", "Switch.brace"} : \A n :
              Value(n, seen) => Owns(label, <<n>>, seen)
         /\ \A n : Whole(n, seen) => Value(n, seen) /\ Owns("Member.next", <<n>>, seen)
<1>1. ASSUME NEW n, Value(n, seen)
      PROVE  AllValues(<<n>>, seen) /\ Len(<<n>>) >= 1 /\ Len(<<n>>) = 1 /\ <<n>>[1] = n
  <2>1. AllValues(<<n>>, seen)
    BY <1>1, ListsOfValues
  <2> QED
    BY <2>1
<1>2. ASSUME NEW label \in OneLabels \ {"Member.next", "Switch.brace"}, NEW n, Value(n, seen)
      PROVE  Owns(label, <<n>>, seen)
  <2> DEFINE s == <<n>>
  <2>1. AllValues(s, seen) /\ Len(s) >= 1 /\ Len(s) = 1
    BY <1>1, <1>2
  <2> HIDE DEF s
  <2>2. Owns(label, s, seen)
    BY <1>2, <2>1, Needs
  <2> QED
    BY <2>2 DEF s
<1>3. ASSUME NEW n, Whole(n, seen)
      PROVE  Value(n, seen) /\ Owns("Member.next", <<n>>, seen)
  <2> DEFINE s == <<n>>
  <2>1. AllValues(s, seen) /\ Len(s) >= 1 /\ ~TakesElse(s[1]) /\ Value(n, seen)
    BY <1>1, <1>3 DEF Whole
  <2> HIDE DEF s
  <2>2. Owns("Member.next", s, seen)
    BY <2>1, Needs
  <2> QED
    BY <2>1, <2>2 DEF s
<1> QED
  BY <1>2, <1>3

(* Locals of at least one.                                                 *)
LEMMA AtLeastOne ==
  ASSUME NEW seen, NEW label, NEW s, Owns(label, s, seen),
         label \in OneLabels \ ({"Member.next", "Switch.brace"} \union SoloLabels)
  PROVE  AllValues(s, seen) /\ Len(s) >= 1 /\ Value(s[1], seen)
<1>1. AllValues(s, seen) /\ Len(s) >= 1
  BY Needs
<1> QED
  BY <1>1, Pieces

LEMMA EnoughLocals ==
  ASSUME NEW seen, NEW label, NEW s, AllValues(s, seen), Len(s) >= 1,
         label \in OneLabels \ ({"Member.next", "Switch.brace"} \union SoloLabels)
  PROVE  Owns(label, s, seen)
  BY Needs

LEMMA AppendedOperator ==
  ASSUME NEW s, NEW t, IsSequence(s), Len(s) >= 2
  PROVE  /\ IsSequence(Append(s, t)) /\ Len(Append(s, t)) >= 2
         /\ Append(s, t)[1] = s[1] /\ Append(s, t)[2] = s[2]
<1> PICK m \in Nat : m = Len(s)
  BY DEF IsSequence
<1> DEFINE u == Append(s, t)
<1>1. PICK S : s \in Seq(S)
  BY DEF IsSequence
<1>2. s \in Seq(S \union {t}) /\ t \in S \union {t}
  BY <1>1
<1>3. u \in Seq(S \union {t}) /\ Len(u) = m + 1 /\ \A i \in 1..m : u[i] = s[i]
  BY <1>2
<1> HIDE DEF u
<1>4. IsSequence(u) /\ Len(u) >= 2 /\ u[1] = s[1] /\ u[2] = s[2]
  <2>1. m >= 2 /\ 1 \in 1..m /\ 2 \in 1..m /\ m + 1 >= 2
    OBVIOUS
  <2> QED
    BY <1>3, <2>1 DEF IsSequence
<1> QED
  BY <1>4 DEF u

LEMMA RhsLocals ==
  ASSUME NEW seen, NEW a, NEW n, Whole(n, seen)
  PROVE  Owns("Rhs", <<a, n>>, seen)
<1> DEFINE s == <<a, n>>
<1>1. IsSequence(s) /\ Len(s) = 2 /\ s[2] = n
  BY Tuples
<1> HIDE DEF s
<1>2. IsSequence(s) /\ Len(s) >= 2 /\ Whole(s[2], seen)
  BY <1>1
<1>3. Owns("Rhs", s, seen)
  BY <1>2, SpecialNeeds DEF RhsLabels
<1> QED
  BY <1>3 DEF s

LEMMA PropertyLocals ==
  ASSUME NEW seen, NEW label \in PropertyLabels, NEW proxy, NEW prop, Properties(proxy, seen),
         Value(prop, seen)
  PROVE  Owns(label, <<proxy, prop>>, seen) /\ \A name : Owns(label, <<proxy, prop, name>>, seen)
<1>1. Owns(label, <<proxy, prop>>, seen)
  <2> DEFINE s == <<proxy, prop>>
  <2>1. IsSequence(s) /\ Len(s) = 2 /\ s[1] = proxy /\ s[2] = prop
    BY Tuples
  <2> HIDE DEF s
  <2>2. Owns(label, s, seen)
    BY <2>1, SpecialNeeds
  <2> QED
    BY <2>2 DEF s
<1>2. ASSUME NEW name PROVE Owns(label, <<proxy, prop, name>>, seen)
  <2> DEFINE s == <<proxy, prop, name>>
  <2>1. IsSequence(s) /\ Len(s) = 3
    BY Tuples
  <2>2. s[1] = proxy /\ s[2] = prop
    OBVIOUS
  <2> HIDE DEF s
  <2>3. Owns(label, s, seen)
    BY <2>1, <2>2, SpecialNeeds
  <2> QED
    BY <2>3 DEF s
<1> QED
  BY <1>1, <1>2

LEMMA NoProperties ==
  ASSUME NEW seen
  PROVE  Properties(<<>>, seen)
<1>1. IsSequence(<<>>) /\ \A i \in 1..Len(<<>>) : FALSE
  BY Tuples
<1> QED
  BY <1>1 DEF Properties

LEMMA Signatures ==
  ASSUME NEW seen, NEW n, Tree(n, seen)
  PROVE  /\ Owns("Method.end", <<n>>, seen)
         /\ \A s : AllValues(s, seen) => Owns("Function.end", Append(s, n), seen)
<1>1. Owns("Method.end", <<n>>, seen)
  <2> DEFINE t == <<n>>
  <2>1. IsSequence(t) /\ t # <<>> /\ Len(t) = 1 /\ t[1] = n
    BY Tuples
  <2> HIDE DEF t
  <2>2. Signature(t, seen)
    BY <2>1 DEF Signature
  <2>3. Owns("Method.end", t, seen)
    BY <2>2, SpecialNeeds DEF SignatureLabels
  <2> QED
    BY <2>3 DEF t
<1>2. ASSUME NEW s, AllValues(s, seen) PROVE Owns("Function.end", Append(s, n), seen)
  <2> DEFINE t == Append(s, n)
  <2> PICK m \in Nat : m = Len(s)
    BY <1>2 DEF AllValues, IsSequence
  <2>1. IsSequence(s)
    BY <1>2 DEF AllValues
  <2>2. IsSequence(t) /\ Len(t) = m + 1 /\ (\A i \in 1..m : t[i] = s[i]) /\ t[m + 1] = n
    BY <2>1, OneMore
  <2> HIDE DEF t
  <2>3. \A i \in 1..Len(t) : i \in 1..m \/ i = m + 1
    BY <2>2
  <2>4. t # <<>>
    BY <2>2
  <2>5. \A i \in 1..m : Value(s[i], seen)
    BY <1>2 DEF AllValues
  <2>6. Signature(t, seen)
    BY <2>2, <2>3, <2>4, <2>5 DEF Signature, Value
  <2>7. Owns("Function.end", t, seen)
    BY <2>6, SpecialNeeds DEF SignatureLabels
  <2> QED
    BY <2>7 DEF t
<1> QED
  BY <1>1, <1>2

-----------------------------------------------------------------------------
(* The parse functions, one by one.                                        *)

LEMMA CommaShapes ==
  ASSUME Typed, Flow, Shapes, ParseCommaExpression
  PROVE  Shapes'
<1> DEFINE Mine == {"Comma", "Comma.next"}
<1>1. status = "running" /\ Top.at \in Mine
  BY DEF ParseCommaExpression, At
<1>2. \A label \in Mine : Sites(label) = CommaSites /\ label \notin Entry
  BY SitesTable DEF Entry, ForLabels, RhsLabels, FunctionLabels
<1> PICK seen : seen = Words'
  OBVIOUS
<1>3. ASSUME Reads, Top.at = "Comma.next"
      PROVE  /\ AllValues(mem, seen)
             /\ Whole(ret, seen)
  <2>1. Owns("Comma.next", mem, seen) /\ Gets("Comma.next", ret, peek, seen)
    BY <1>1, <1>3, ShapeSteps
  <2>2. AllValues(mem, seen)
    BY <2>1, Needs DEF ListLabels
  <2>3. Whole(ret, seen)
    BY <2>1, Asks DEF WholeSites, AssignSites
  <2> QED
    BY <2>2, <2>3
<1>4. Owns("Assign", <<>>, seen) /\ Gets("Assign", ret, peek', seen)
  BY Needs, Asks DEF Unowning, Unasking
<1>5. \A s : AllValues(s, seen) => Owns("Comma.next", s, seen)
  BY Needs DEF ListLabels
<1>6. ASSUME NEW value, Whole(value, seen), NEW label \in Sites(Top.at)
      PROVE  Gets(label, value, peek', seen)
  BY <1>1, <1>2, <1>6, Asks DEF WholeSites
<1>7. /\ AllValues(<<>>, seen)
      /\ \A s, n : AllValues(s, seen) /\ Whole(n, seen) => AllValues(Append(s, n), seen)
      /\ \A s : AllValues(s, seen) => Whole(Node("comma", "", s), seen)
  BY ListsOfValues, OneMoreValue, NodesAre, SmallNodes, LeavesAreWhole, Asks
<1> QED
  BY <1>1, <1>2, <1>3, <1>4, <1>5, <1>6, <1>7, ShapeSteps
     DEF ParseCommaExpression, Reads, At

LEMMA AssignShapes ==
  ASSUME Typed, Flow, Shapes, ParseAssignExpression
  PROVE  Shapes'
<1> DEFINE Mine == {"Assign", "Assign.left", "Assign.right"}
<1>1. status = "running" /\ Top.at \in Mine
  BY DEF ParseAssignExpression, At
<1>2. \A label \in Mine : Sites(label) = AssignSites /\ label \notin Entry
  BY SitesTable DEF Entry, ForLabels, RhsLabels, FunctionLabels
<1> PICK seen : seen = Words'
  OBVIOUS
<1>3. ASSUME Reads, Top.at = "Assign.left"
      PROVE  Whole(ret, seen)
  <2>1. Owns("Assign.left", mem, seen) /\ Gets("Assign.left", ret, peek, seen)
    BY <1>1, <1>3, ShapeSteps
  <2>2. Whole(ret, seen)
    BY <2>1, Asks DEF WholeSites
  <2> QED
    BY <2>2
<1>4. ASSUME Reads, Top.at = "Assign.right"
      PROVE  /\ AllValues(mem, seen) /\ Len(mem) >= 1
             /\ Whole(ret, seen)
             /\ Value(mem[1], seen)
  <2>1. Owns("Assign.right", mem, seen) /\ Gets("Assign.right", ret, peek, seen)
    BY <1>1, <1>4, ShapeSteps
  <2>2. AllValues(mem, seen) /\ Len(mem) >= 1
    BY <2>1, AtLeastOne DEF OneLabels, SoloLabels
  <2>3. Whole(ret, seen)
    BY <2>1, Asks DEF WholeSites, AssignSites
  <2>4. Value(mem[1], seen)
    BY <2>2, <2>3, Pieces
  <2> QED
    BY <2>2, <2>3, <2>4
<1>5. /\ Owns("Ternary", <<>>, seen) /\ Gets("Ternary", ret, peek', seen)
      /\ Owns("Assign", <<>>, seen) /\ Gets("Assign", ret, peek', seen)
  BY Needs, Asks DEF Unowning, Unasking
<1>6. \A s : Owns("Assign.left", s, seen)
  BY Needs DEF Unowning
<1>7. \A n : Whole(n, seen) => Owns("Assign.right", <<n>>, seen)
  BY Singles DEF OneLabels
<1>8. ASSUME NEW value, Whole(value, seen), NEW label \in Sites(Top.at)
      PROVE  Gets(label, value, peek', seen)
  BY <1>1, <1>2, <1>8, Asks DEF WholeSites
<1>9. \A a, b : Value(a, seen) /\ Whole(b, seen) => Whole(Node("assign", "", <<a, b>>), seen)
  BY ListsOfValues, OneMoreValue, NodesAre, SmallNodes, LeavesAreWhole, Asks
<1> QED
  BY <1>1, <1>2, <1>3, <1>4, <1>5, <1>6, <1>7, <1>8, <1>9, ShapeSteps
     DEF ParseAssignExpression, Reads, At

LEMMA TernaryShapes ==
  ASSUME Typed, Flow, Shapes, ParseTernaryExpression
  PROVE  Shapes'
<1> DEFINE Mine == {"Ternary", "Ternary.first", "Ternary.second", "Ternary.third"}
<1>1. status = "running" /\ Top.at \in Mine
  BY DEF ParseTernaryExpression, At
<1>2. \A label \in Mine : Sites(label) = {"Assign.left"} /\ label \notin Entry
  BY SitesTable DEF Entry, ForLabels, RhsLabels, FunctionLabels
<1> PICK seen : seen = Words'
  OBVIOUS
<1>3. ASSUME Reads, Top.at = "Ternary.first"
      PROVE  Whole(ret, seen)
  <2>1. Owns("Ternary.first", mem, seen) /\ Gets("Ternary.first", ret, peek, seen)
    BY <1>1, <1>3, ShapeSteps
  <2>2. Whole(ret, seen)
    BY <2>1, Asks DEF WholeSites
  <2> QED
    BY <2>2
<1>4. ASSUME Reads, Top.at = "Ternary.second"
      PROVE  /\ AllValues(mem, seen) /\ Len(mem) >= 1
             /\ Whole(ret, seen)
  <2>1. Owns("Ternary.second", mem, seen) /\ Gets("Ternary.second", ret, peek, seen)
    BY <1>1, <1>4, ShapeSteps
  <2>2. AllValues(mem, seen) /\ Len(mem) >= 1
    BY <2>1, AtLeastOne DEF OneLabels, SoloLabels
  <2>3. Whole(ret, seen)
    BY <2>1, Asks DEF WholeSites, AssignSites
  <2> QED
    BY <2>2, <2>3
<1>5. ASSUME Reads, Top.at = "Ternary.third"
      PROVE  /\ AllValues(mem, seen)
             /\ Whole(ret, seen)
  <2>1. Owns("Ternary.third", mem, seen) /\ Gets("Ternary.third", ret, peek, seen)
    BY <1>1, <1>5, ShapeSteps
  <2>2. AllValues(mem, seen)
    BY <2>1, Needs DEF ListLabels
  <2>3. Whole(ret, seen)
    BY <2>1, Asks DEF WholeSites, AssignSites
  <2> QED
    BY <2>2, <2>3
<1>6. /\ Owns("Binary", <<>>, seen) /\ Gets("Binary", ret, peek', seen)
      /\ Owns("Assign", <<>>, seen) /\ Gets("Assign", ret, peek', seen)
  BY Needs, Asks DEF Unowning, Unasking
<1>7. \A s : Owns("Ternary.first", s, seen)
  BY Needs DEF Unowning
<1>8. \A n : Whole(n, seen) => Owns("Ternary.second", <<n>>, seen)
  BY Singles DEF OneLabels
<1>9. \A s : AllValues(s, seen) => Owns("Ternary.third", s, seen)
  BY Needs DEF ListLabels
<1>10. ASSUME NEW value, Whole(value, seen), NEW label \in Sites(Top.at)
      PROVE  Gets(label, value, peek', seen)
  BY <1>1, <1>2, <1>10, Asks DEF WholeSites
<1>11. /\ \A s, n : AllValues(s, seen) /\ Whole(n, seen) => AllValues(Append(s, n), seen)
      /\ \A s : AllValues(s, seen) => Whole(Node("ternary", "", s), seen)
  BY ListsOfValues, OneMoreValue, NodesAre, SmallNodes, LeavesAreWhole, Asks
<1> QED
  BY <1>1, <1>2, <1>3, <1>4, <1>5, <1>6, <1>7, <1>8, <1>9, <1>10, <1>11, ShapeSteps
     DEF ParseTernaryExpression, Reads, At, Eat, EatAs

LEMMA BinaryShapes ==
  ASSUME Typed, Flow, Shapes, ParseBinaryExpression
  PROVE  Shapes'
<1> DEFINE Mine == {"Binary", "Binary.left"}
<1>1. status = "running" /\ Top.at \in Mine
  BY DEF ParseBinaryExpression, At
<1>2. \A label \in Mine : Sites(label) = {"Ternary.first"} /\ label \notin Entry
  BY SitesTable DEF Entry, ForLabels, RhsLabels, FunctionLabels
<1> PICK seen : seen = Words'
  OBVIOUS
<1>3. ASSUME Reads, Top.at = "Binary.left"
      PROVE  Whole(ret, seen)
  <2>1. Owns("Binary.left", mem, seen) /\ Gets("Binary.left", ret, peek, seen)
    BY <1>1, <1>3, ShapeSteps
  <2>2. Whole(ret, seen)
    BY <2>1, Asks DEF WholeSites
  <2> QED
    BY <2>2
<1>4. Owns("Unary", <<>>, seen) /\ Gets("Unary", ret, peek', seen)
  BY Needs, Asks DEF Unowning, Unasking
<1>5. \A s : Owns("Binary.left", s, seen)
  BY Needs DEF Unowning
<1>6. Gets("Rhs", ret, peek', seen)
  BY Asks DEF Unasking
<1>7. \A n : Whole(n, seen) => Owns("Rhs", <<3, n>>, seen)
  BY RhsLocals
<1> QED
  BY <1>1, <1>2, <1>3, <1>4, <1>5, <1>6, <1>7, ShapeSteps
     DEF ParseBinaryExpression, Reads, At

LEMMA UnaryShapes ==
  ASSUME Typed, Flow, Shapes, ParseUnaryExpression
  PROVE  Shapes'
<1> DEFINE Mine == {"Unary", "Unary.operand", "Unary.postfix"}
<1>1. status = "running" /\ Top.at \in Mine
  BY DEF ParseUnaryExpression, At
<1>2. \A label \in Mine : Sites(label) = {"Unary.operand", "Binary.left", "Rhs.operand"} /\
          label \notin Entry
  BY SitesTable DEF Entry, ForLabels, RhsLabels, FunctionLabels
<1> PICK seen : seen = Words'
  OBVIOUS
<1>3. ASSUME Reads, Top.at = "Unary.operand"
      PROVE  Whole(ret, seen)
  <2>1. Owns("Unary.operand", mem, seen) /\ Gets("Unary.operand", ret, peek, seen)
    BY <1>1, <1>3, ShapeSteps
  <2>2. Whole(ret, seen)
    BY <2>1, Asks DEF WholeSites
  <2> QED
    BY <2>2
<1>4. ASSUME Reads, Top.at = "Unary.postfix"
      PROVE  Whole(ret, seen)
  <2>1. Owns("Unary.postfix", mem, seen) /\ Gets("Unary.postfix", ret, peek, seen)
    BY <1>1, <1>4, ShapeSteps
  <2>2. Whole(ret, seen)
    BY <2>1, Asks DEF WholeSites
  <2> QED
    BY <2>2
<1>5. /\ Owns("Unary", <<>>, seen) /\ Gets("Unary", ret, peek', seen)
      /\ Owns("LeftHandSide", <<>>, seen) /\ Gets("LeftHandSide", ret, peek', seen)
  BY Needs, Asks DEF Unowning, Unasking
<1>6. /\ \A s : Owns("Unary.operand", s, seen)
      /\ \A s : Owns("Unary.postfix", s, seen)
  BY Needs DEF Unowning
<1>7. ASSUME NEW value, Whole(value, seen), NEW label \in Sites(Top.at)
      PROVE  Gets(label, value, peek', seen)
  BY <1>1, <1>2, <1>7, Asks DEF WholeSites
<1>8. \A kind \in {"prefix", "postfix", "times"} : \A op, n :
           Whole(n, seen) => Whole(Node(kind, op, <<n>>), seen)
  BY ListsOfValues, OneMoreValue, NodesAre, SmallNodes, LeavesAreWhole, Asks
<1> QED
  BY <1>1, <1>2, <1>3, <1>4, <1>5, <1>6, <1>7, <1>8, ShapeSteps
     DEF ParseUnaryExpression, Reads, At

LEMMA NewShapes ==
  ASSUME Typed, Flow, Shapes, ParseNewExpression
  PROVE  Shapes'
<1> DEFINE Mine == {"LeftHandSide", "New.target"}
<1>1. status = "running" /\ Top.at \in Mine
  BY DEF ParseNewExpression, At
<1>2. \A label \in Mine : Sites(label) = {"New.target", "Unary.postfix"} /\ label \notin
          Entry
  BY SitesTable DEF Entry, ForLabels, RhsLabels, FunctionLabels
<1> PICK seen : seen = Words'
  OBVIOUS
<1>3. ASSUME Reads, Top.at = "New.target"
      PROVE  Whole(ret, seen)
  <2>1. Owns("New.target", mem, seen) /\ Gets("New.target", ret, peek, seen)
    BY <1>1, <1>3, ShapeSteps
  <2>2. Whole(ret, seen)
    BY <2>1, Asks DEF WholeSites
  <2> QED
    BY <2>2
<1>4. /\ Owns("LeftHandSide", <<>>, seen) /\ Gets("LeftHandSide", ret, peek', seen)
      /\ Owns("Member", <<>>, seen) /\ Gets("Member", ret, peek', seen)
  BY Needs, Asks DEF Unowning, Unasking
<1>5. \A s : Owns("New.target", s, seen)
  BY Needs DEF Unowning
<1>6. ASSUME NEW value, Whole(value, seen), NEW label \in Sites(Top.at)
      PROVE  Gets(label, value, peek', seen)
  BY <1>1, <1>2, <1>6, Asks DEF WholeSites
<1>7. \A n : Whole(n, seen) => Whole(Node("new", "", <<n>>), seen)
  BY ListsOfValues, OneMoreValue, NodesAre, SmallNodes, LeavesAreWhole, Asks
<1> QED
  BY <1>1, <1>2, <1>3, <1>4, <1>5, <1>6, <1>7, ShapeSteps
     DEF ParseNewExpression, Reads, At, Become

LEMMA MemberShapes ==
  ASSUME Typed, Flow, Shapes, ParseMemberExpression
  PROVE  Shapes'
<1> DEFINE Mine == {"Member", "Member.first", "Member.next"}
<1>1. status = "running" /\ Top.at \in Mine
  BY DEF ParseMemberExpression, At
<1>2. \A label \in Mine : Sites(label) = {"New.target", "Unary.postfix"} /\ label \notin
          Entry
  BY SitesTable DEF Entry, ForLabels, RhsLabels, FunctionLabels
<1> PICK seen : seen = Words'
  OBVIOUS
<1>3. ASSUME Reads, Top.at = "Member.first"
      PROVE  Whole(ret, seen)
  <2>1. Owns("Member.first", mem, seen) /\ Gets("Member.first", ret, peek, seen)
    BY <1>1, <1>3, ShapeSteps
  <2>2. Whole(ret, seen)
    BY <2>1, Asks DEF WholeSites
  <2> QED
    BY <2>2
<1>4. ASSUME Reads, Top.at = "Member.next"
      PROVE  /\ AllValues(mem, seen) /\ Len(mem) >= 1 /\ ~TakesElse(mem[1])
             /\ Whole(mem[1], seen)
  <2>1. Owns("Member.next", mem, seen) /\ Gets("Member.next", ret, peek, seen)
    BY <1>1, <1>4, ShapeSteps
  <2>2. AllValues(mem, seen) /\ Len(mem) >= 1 /\ ~TakesElse(mem[1])
    BY <2>1, Needs
  <2>3. Whole(mem[1], seen)
    BY <2>2, Pieces DEF Whole
  <2> QED
    BY <2>2, <2>3
<1>5. /\ Owns("Primary", <<>>, seen) /\ Gets("Primary", ret, peek', seen)
      /\ Owns("Assign", <<>>, seen) /\ Gets("Assign", ret, peek', seen)
  BY Needs, Asks DEF Unowning, Unasking
<1>6. \A s : Owns("Member.first", s, seen)
  BY Needs DEF Unowning
<1>7. /\ Gets("Member.next", ret, peek', seen)
      /\ Gets("Dot", ret, peek', seen)
      /\ Gets("Arguments", ret, peek', seen)
  BY Asks DEF Unasking
<1>8. \A n : Whole(n, seen) => Owns("Member.next", <<n>>, seen)
  BY Singles DEF OneLabels
<1>9. /\ \A s : AllValues(s, seen) /\ Len(s) >= 1 => Owns("Dot", s, seen)
      /\ \A s : AllValues(s, seen) /\ Len(s) >= 1 => Owns("Index", s, seen)
      /\ \A s : AllValues(s, seen) /\ Len(s) >= 1 => Owns("Arguments", s, seen)
  BY EnoughLocals DEF OneLabels, SoloLabels
<1>10. ASSUME NEW value, Whole(value, seen), NEW label \in Sites(Top.at)
      PROVE  Gets(label, value, peek', seen)
  BY <1>1, <1>2, <1>10, Asks DEF WholeSites
<1> QED
  BY <1>1, <1>2, <1>3, <1>4, <1>5, <1>6, <1>7, <1>8, <1>9, <1>10, ShapeSteps
     DEF ParseMemberExpression, Reads, At

LEMMA DotShapes ==
  ASSUME Typed, Flow, Shapes, ParseDotExpression
  PROVE  Shapes'
<1> DEFINE Mine == {"Dot"}
<1>1. status = "running" /\ Top.at \in Mine
  BY DEF ParseDotExpression, At
<1>2. \A label \in Mine : Sites(label) = {"New.target", "Unary.postfix"} /\ label \notin
          Entry
  BY SitesTable DEF Entry, ForLabels, RhsLabels, FunctionLabels
<1> PICK seen : seen = Words'
  OBVIOUS
<1>3. ASSUME Reads, Top.at = "Dot"
      PROVE  /\ AllValues(mem, seen) /\ Len(mem) >= 1
             /\ Value(mem[1], seen)
  <2>1. Owns("Dot", mem, seen) /\ Gets("Dot", ret, peek, seen)
    BY <1>1, <1>3, ShapeSteps
  <2>2. AllValues(mem, seen) /\ Len(mem) >= 1
    BY <2>1, AtLeastOne DEF OneLabels, SoloLabels
  <2>3. Value(mem[1], seen)
    BY <2>2, Pieces
  <2> QED
    BY <2>2, <2>3
<1>4. Gets("Member.next", ret, peek', seen)
  BY Asks DEF Unasking
<1>5. \A n : Whole(n, seen) => Owns("Member.next", <<n>>, seen)
  BY Singles DEF OneLabels
<1>6. \A n, i : Value(n, seen) => Whole(Node("dot", "", <<n, Leaf(i)>>), seen)
  BY ListsOfValues, OneMoreValue, NodesAre, SmallNodes, LeavesAreWhole, Asks
<1> QED
  BY <1>1, <1>2, <1>3, <1>4, <1>5, <1>6, ShapeSteps
     DEF ParseDotExpression, Reads, At

LEMMA IndexShapes ==
  ASSUME Typed, Flow, Shapes, ParseIndexExpression
  PROVE  Shapes'
<1> DEFINE Mine == {"Index"}
<1>1. status = "running" /\ Top.at \in Mine
  BY DEF ParseIndexExpression, At
<1>2. \A label \in Mine : Sites(label) = {"New.target", "Unary.postfix"} /\ label \notin
          Entry
  BY SitesTable DEF Entry, ForLabels, RhsLabels, FunctionLabels
<1> PICK seen : seen = Words'
  OBVIOUS
<1>3. ASSUME Reads, Top.at = "Index"
      PROVE  /\ AllValues(mem, seen) /\ Len(mem) >= 1
             /\ Whole(ret, seen)
             /\ Value(mem[1], seen)
  <2>1. Owns("Index", mem, seen) /\ Gets("Index", ret, peek, seen)
    BY <1>1, <1>3, ShapeSteps
  <2>2. AllValues(mem, seen) /\ Len(mem) >= 1
    BY <2>1, AtLeastOne DEF OneLabels, SoloLabels
  <2>3. Whole(ret, seen)
    BY <2>1, Asks DEF WholeSites, AssignSites
  <2>4. Value(mem[1], seen)
    BY <2>2, <2>3, Pieces
  <2> QED
    BY <2>2, <2>3, <2>4
<1>4. Gets("Member.next", ret, peek', seen)
  BY Asks DEF Unasking
<1>5. \A n : Whole(n, seen) => Owns("Member.next", <<n>>, seen)
  BY Singles DEF OneLabels
<1>6. \A a, b : Value(a, seen) /\ Whole(b, seen) => Whole(Node("index", "", <<a, b>>), seen)
  BY ListsOfValues, OneMoreValue, NodesAre, SmallNodes, LeavesAreWhole, Asks
<1> QED
  BY <1>1, <1>2, <1>3, <1>4, <1>5, <1>6, ShapeSteps
     DEF ParseIndexExpression, Reads, At, EatAs

LEMMA ArgumentsShapes ==
  ASSUME Typed, Flow, Shapes, ParseArgumentList
  PROVE  Shapes'
<1> DEFINE Mine == {"Arguments", "Arguments.next"}
<1>1. status = "running" /\ Top.at \in Mine
  BY DEF ParseArgumentList, At
<1>2. \A label \in Mine : Sites(label) = {"New.target", "Unary.postfix"} /\ label \notin
          Entry
  BY SitesTable DEF Entry, ForLabels, RhsLabels, FunctionLabels
<1> PICK seen : seen = Words'
  OBVIOUS
<1>3. ASSUME Reads, Top.at = "Arguments"
      PROVE  /\ AllValues(mem, seen) /\ Len(mem) >= 1
             /\ Value(mem[1], seen)
  <2>1. Owns("Arguments", mem, seen) /\ Gets("Arguments", ret, peek, seen)
    BY <1>1, <1>3, ShapeSteps
  <2>2. AllValues(mem, seen) /\ Len(mem) >= 1
    BY <2>1, AtLeastOne DEF OneLabels, SoloLabels
  <2>3. Value(mem[1], seen)
    BY <2>2, Pieces
  <2> QED
    BY <2>2, <2>3
<1>4. ASSUME Reads, Top.at = "Arguments.next"
      PROVE  /\ AllValues(mem, seen) /\ Len(mem) >= 1
             /\ Whole(ret, seen)
             /\ AllValues(Append(mem, ret), seen) /\ Len(Append(mem, ret)) >= 1
             /\ Whole(Node("call", "", Append(mem, ret)), seen)
  <2>1. Owns("Arguments.next", mem, seen) /\ Gets("Arguments.next", ret, peek, seen)
    BY <1>1, <1>4, ShapeSteps
  <2>2. AllValues(mem, seen) /\ Len(mem) >= 1
    BY <2>1, AtLeastOne DEF OneLabels, SoloLabels
  <2>3. Whole(ret, seen)
    BY <2>1, Asks DEF WholeSites, AssignSites
  <2>4. AllValues(Append(mem, ret), seen) /\ Len(Append(mem, ret)) >= 1
    BY <2>2, <2>3, Pieces, Asks
  <2>5. Whole(Node("call", "", Append(mem, ret)), seen)
    BY <2>2, <2>3, <2>4, Pieces, Asks, NodesAre
  <2> QED
    BY <2>2, <2>3, <2>4, <2>5
<1>5. Owns("Assign", <<>>, seen) /\ Gets("Assign", ret, peek', seen)
  BY Needs, Asks DEF Unowning, Unasking
<1>6. Gets("Member.next", ret, peek', seen)
  BY Asks DEF Unasking
<1>7. \A n : Whole(n, seen) => Owns("Member.next", <<n>>, seen)
  BY Singles DEF OneLabels
<1>8. \A s : AllValues(s, seen) /\ Len(s) >= 1 => Owns("Arguments.next", s, seen)
  BY EnoughLocals DEF OneLabels, SoloLabels
<1>9. \A n : Value(n, seen) => Whole(Node("call", "", <<n, Null>>), seen)
  BY ListsOfValues, OneMoreValue, NodesAre, SmallNodes, LeavesAreWhole, Asks
<1> QED
  BY <1>1, <1>2, <1>3, <1>4, <1>5, <1>6, <1>7, <1>8, <1>9, ShapeSteps
     DEF ParseArgumentList, Reads, At, EatAs

LEMMA PrimaryShapes ==
  ASSUME Typed, Flow, Shapes, ParsePrimary
  PROVE  Shapes'
<1> DEFINE Mine == {"Primary", "Paren"}
<1>1. status = "running" /\ Top.at \in Mine
  BY DEF ParsePrimary, At
<1>2. \A label \in Mine : Sites(label) = {"Member.first"} /\ label \notin Entry
  BY SitesTable DEF Entry, ForLabels, RhsLabels, FunctionLabels
<1> PICK seen : seen = Words'
  OBVIOUS
<1>3. ASSUME Reads, Top.at = "Paren"
      PROVE  Whole(ret, seen)
  <2>1. Owns("Paren", mem, seen) /\ Gets("Paren", ret, peek, seen)
    BY <1>1, <1>3, ShapeSteps
  <2>2. Whole(ret, seen)
    BY <2>1, Asks DEF WholeSites, CommaSites
  <2> QED
    BY <2>2
<1>4. /\ Owns("Comma", <<>>, seen) /\ Gets("Comma", ret, peek', seen)
      /\ Owns("Array", <<>>, seen) /\ Gets("Array", ret, peek', seen)
      /\ Owns("Object", <<>>, seen) /\ Gets("Object", ret, peek', seen)
      /\ Owns("Function", <<>>, seen) /\ Gets("Function", ret, peek', seen)
  BY Needs, Asks DEF Unowning, Unasking
<1>5. \A s : Owns("Paren", s, seen)
  BY Needs DEF Unowning
<1>6. ASSUME NEW value, Whole(value, seen), NEW label \in Sites(Top.at)
      PROVE  Gets(label, value, peek', seen)
  BY <1>1, <1>2, <1>6, Asks DEF WholeSites
<1>7. \A i : Whole(Leaf(i), seen)
  BY ListsOfValues, OneMoreValue, NodesAre, SmallNodes, LeavesAreWhole, Asks
<1> QED
  BY <1>1, <1>2, <1>3, <1>4, <1>5, <1>6, <1>7, ShapeSteps
     DEF ParsePrimary, Reads, At, EatAs, Become

LEMMA ArrayShapes ==
  ASSUME Typed, Flow, Shapes, ParseArrayLiteral
  PROVE  Shapes'
<1> DEFINE Mine == {"Array", "Array.next"}
<1>1. status = "running" /\ Top.at \in Mine
  BY DEF ParseArrayLiteral, At
<1>2. \A label \in Mine : Sites(label) = {"Member.first"} /\ label \notin Entry
  BY SitesTable DEF Entry, ForLabels, RhsLabels, FunctionLabels
<1> PICK seen : seen = Words'
  OBVIOUS
<1>3. ASSUME Reads, Top.at = "Array.next"
      PROVE  /\ AllValues(mem, seen)
             /\ Whole(ret, seen)
  <2>1. Owns("Array.next", mem, seen) /\ Gets("Array.next", ret, peek, seen)
    BY <1>1, <1>3, ShapeSteps
  <2>2. AllValues(mem, seen)
    BY <2>1, Needs DEF ListLabels
  <2>3. Whole(ret, seen)
    BY <2>1, Asks DEF WholeSites, AssignSites
  <2> QED
    BY <2>2, <2>3
<1>4. Owns("Assign", <<>>, seen) /\ Gets("Assign", ret, peek', seen)
  BY Needs, Asks DEF Unowning, Unasking
<1>5. \A s : AllValues(s, seen) => Owns("Array.next", s, seen)
  BY Needs DEF ListLabels
<1>6. ASSUME NEW value, Whole(value, seen), NEW label \in Sites(Top.at)
      PROVE  Gets(label, value, peek', seen)
  BY <1>1, <1>2, <1>6, Asks DEF WholeSites
<1>7. /\ AllValues(<<>>, seen)
      /\ \A s, n : AllValues(s, seen) /\ Whole(n, seen) => AllValues(Append(s, n), seen)
      /\ \A s : AllValues(s, seen) => Whole(Node("array", "", s), seen)
  BY ListsOfValues, OneMoreValue, NodesAre, SmallNodes, LeavesAreWhole, Asks
<1> QED
  BY <1>1, <1>2, <1>3, <1>4, <1>5, <1>6, <1>7, ShapeSteps
     DEF ParseArrayLiteral, Reads, At, Eat, EatAs

LEMMA RhsShapes ==
  ASSUME Typed, Flow, Shapes, ParseBinaryExpressionRhs
  PROVE  Shapes'
<1> DEFINE Mine == {"Rhs", "Rhs.operand", "Rhs.merge"}
<1>1. status = "running" /\ Top.at \in Mine
  BY DEF ParseBinaryExpressionRhs, At
<1>2. \A label \in Mine : Sites(label) = {"Ternary.first", "Rhs.merge"} /\ label \notin
          Entry
  BY SitesTable DEF Entry, ForLabels, RhsLabels, FunctionLabels
<1> PICK seen : seen = Words'
  OBVIOUS
<1>3. ASSUME Reads, Top.at = "Rhs"
      PROVE  /\ IsSequence(mem) /\ Len(mem) >= 2 /\ Whole(mem[2], seen)
             /\ Owns("Rhs.operand", Append(mem, peek), seen)
  <2>1. Owns("Rhs", mem, seen) /\ Gets("Rhs", ret, peek, seen)
    BY <1>1, <1>3, ShapeSteps
  <2>2. IsSequence(mem) /\ Len(mem) >= 2 /\ Whole(mem[2], seen)
    BY <2>1, SpecialNeeds DEF RhsLabels
  <2>3. Owns("Rhs.operand", Append(mem, peek), seen)
    BY <2>2, AppendedOperator, SpecialNeeds DEF RhsLabels
  <2> QED
    BY <2>2, <2>3
<1>4. ASSUME Reads, Top.at = "Rhs.operand"
      PROVE  /\ IsSequence(mem) /\ Len(mem) >= 2 /\ Whole(mem[2], seen)
             /\ Whole(ret, seen)
  <2>1. Owns("Rhs.operand", mem, seen) /\ Gets("Rhs.operand", ret, peek, seen)
    BY <1>1, <1>4, ShapeSteps
  <2>2. IsSequence(mem) /\ Len(mem) >= 2 /\ Whole(mem[2], seen)
    BY <2>1, SpecialNeeds DEF RhsLabels
  <2>3. Whole(ret, seen)
    BY <2>1, Asks DEF WholeSites
  <2> QED
    BY <2>2, <2>3
<1>5. ASSUME Reads, Top.at = "Rhs.merge"
      PROVE  /\ IsSequence(mem) /\ Len(mem) >= 2 /\ Whole(mem[2], seen)
             /\ Whole(ret, seen)
  <2>1. Owns("Rhs.merge", mem, seen) /\ Gets("Rhs.merge", ret, peek, seen)
    BY <1>1, <1>5, ShapeSteps
  <2>2. IsSequence(mem) /\ Len(mem) >= 2 /\ Whole(mem[2], seen)
    BY <2>1, SpecialNeeds DEF RhsLabels
  <2>3. Whole(ret, seen)
    BY <2>1, Asks DEF WholeSites
  <2> QED
    BY <2>2, <2>3
<1>6. Owns("Unary", <<>>, seen) /\ Gets("Unary", ret, peek', seen)
  BY Needs, Asks DEF Unowning, Unasking
<1>7. Gets("Rhs", ret, peek', seen)
  BY Asks DEF Unasking
<1>8. \A a, n : Whole(n, seen) => Owns("Rhs", <<a, n>>, seen)
  BY RhsLocals
<1>9. \A s : IsSequence(s) /\ Len(s) >= 2 /\ Whole(s[2], seen) => Owns("Rhs.merge", s, seen)
  BY SpecialNeeds DEF RhsLabels
<1>10. ASSUME NEW value, Whole(value, seen), NEW label \in Sites(Top.at)
      PROVE  Gets(label, value, peek', seen)
  BY <1>1, <1>2, <1>10, Asks DEF WholeSites
<1>11. \A op, a, b : Whole(a, seen) /\ Whole(b, seen) => Whole(Node("binary", op, <<a, b>>), seen)
  BY SmallNodes, Asks
<1>12. ASSUME NEW upper, Reads, Top.at = "Rhs.operand", UNCHANGED <<ret, status>>,
             stack' = Callers \o << Frame("Rhs.merge", mem, Top.from),
                                     Frame("Rhs", <<upper, ret>>, here) >>
      PROVE  Shapes'
  <2> DEFINE more == <<upper, ret>>
  <2>1. /\ Owns("Rhs.merge", mem, seen) /\ Owns("Rhs", more, seen)
        /\ Gets("Rhs", ret', peek', seen)
    BY <1>4, <1>7, <1>8, <1>9, <1>12
  <2> HIDE DEF more
  <2> PICK first, second : first = Top.from /\ second = here
    OBVIOUS
  <2>2. stack' = Callers \o <<Frame("Rhs.merge", mem, first), Frame("Rhs", more, second)>>
    BY <1>12 DEF more
  <2> QED
    BY <1>1, <2>1, <2>2, <1>12, CallShapes
<1> QED
  BY <1>1, <1>2, <1>3, <1>4, <1>5, <1>6, <1>7, <1>8, <1>9, <1>10, <1>11, <1>12, ShapeSteps
     DEF ParseBinaryExpressionRhs, Reads, At

LEMMA ObjectShapes ==
  ASSUME Typed, Flow, Shapes, ParseObjectLiteral
  PROVE  Shapes'
<1> DEFINE Mine == {"Object", "Object.name", "Object.value", "Object.assign", "Object.next"}
<1>1. status = "running" /\ Top.at \in Mine
  BY DEF ParseObjectLiteral, At
<1>2. \A label \in Mine : Sites(label) = {"Member.first"} /\ label \notin Entry
  BY SitesTable DEF Entry, ForLabels, RhsLabels, FunctionLabels
<1> PICK seen : seen = Words'
  OBVIOUS
<1>3. ASSUME Reads, Top.at = "Object.name"
      PROVE  /\ IsSequence(mem) /\ Len(mem) >= 2 /\ Properties(mem[1], seen) /\ Value(mem[2], seen)
             /\ \A name : Owns("Object.value", Append(mem, name), seen)
  <2>1. Owns("Object.name", mem, seen) /\ Gets("Object.name", ret, peek, seen)
    BY <1>1, <1>3, ShapeSteps
  <2>2. IsSequence(mem) /\ Len(mem) >= 2 /\ Properties(mem[1], seen) /\ Value(mem[2], seen)
    BY <2>1, SpecialNeeds DEF PropertyLabels
  <2>3. \A name : Owns("Object.value", Append(mem, name), seen)
    BY <2>2, AppendedOperator, SpecialNeeds DEF PropertyLabels
  <2> QED
    BY <2>2, <2>3
<1>4. ASSUME Reads, Top.at = "Object.value"
      PROVE  /\ IsSequence(mem) /\ Len(mem) >= 2 /\ Properties(mem[1], seen) /\ Value(mem[2], seen)
             /\ Owns("Object.assign", mem, seen)
  <2>1. Owns("Object.value", mem, seen) /\ Gets("Object.value", ret, peek, seen)
    BY <1>1, <1>4, ShapeSteps
  <2>2. IsSequence(mem) /\ Len(mem) >= 2 /\ Properties(mem[1], seen) /\ Value(mem[2], seen)
    BY <2>1, SpecialNeeds DEF PropertyLabels
  <2>3. Owns("Object.assign", mem, seen)
    BY <2>2, SpecialNeeds DEF PropertyLabels
  <2> QED
    BY <2>2, <2>3
<1>5. ASSUME Reads, Top.at = "Object.assign"
      PROVE  /\ IsSequence(mem) /\ Len(mem) >= 2 /\ Properties(mem[1], seen) /\ Value(mem[2], seen)
             /\ Whole(ret, seen)
             /\ Value(ret, seen)
  <2>1. Owns("Object.assign", mem, seen) /\ Gets("Object.assign", ret, peek, seen)
    BY <1>1, <1>5, ShapeSteps
  <2>2. IsSequence(mem) /\ Len(mem) >= 2 /\ Properties(mem[1], seen) /\ Value(mem[2], seen)
    BY <2>1, SpecialNeeds DEF PropertyLabels
  <2>3. Whole(ret, seen)
    BY <2>1, Asks DEF WholeSites, AssignSites
  <2>4. Value(ret, seen)
    BY <2>2, <2>3, Asks
  <2> QED
    BY <2>2, <2>3, <2>4
<1>6. ASSUME Reads, Top.at = "Object.next"
      PROVE  /\ IsSequence(mem) /\ Len(mem) >= 2 /\ Properties(mem[1], seen) /\ Value(mem[2], seen)
             /\ Owns("Object.name", mem, seen)
  <2>1. Owns("Object.next", mem, seen) /\ Gets("Object.next", ret, peek, seen)
    BY <1>1, <1>6, ShapeSteps
  <2>2. IsSequence(mem) /\ Len(mem) >= 2 /\ Properties(mem[1], seen) /\ Value(mem[2], seen)
    BY <2>1, SpecialNeeds DEF PropertyLabels
  <2>3. Owns("Object.name", mem, seen)
    BY <2>2, SpecialNeeds DEF PropertyLabels
  <2> QED
    BY <2>2, <2>3
<1>7. /\ Owns("Assign", <<>>, seen) /\ Gets("Assign", ret, peek', seen)
      /\ Owns("Method", <<>>, seen) /\ Gets("Method", ret, peek', seen)
  BY Needs, Asks DEF Unowning, Unasking
<1>8. /\ Gets("Object.name", ret, peek', seen)
      /\ Gets("Object.value", ret, peek', seen)
      /\ Gets("Object.next", ret, peek', seen)
  BY Asks DEF Unasking
<1>9. /\ \A p, v : Properties(p, seen) /\ Value(v, seen) => Owns("Object.next", <<p, v>>, seen)
      /\ \A p, v, w : Properties(p, seen) /\ Value(v, seen) => Owns("Object.assign", <<p, v, w>>, seen)
      /\ Owns("Object.name", << <<>>, Null >>, seen)
  BY PropertyLocals, NoProperties, LeavesAreWhole, Asks DEF PropertyLabels
<1>10. ASSUME NEW value, Whole(value, seen), NEW label \in Sites(Top.at)
      PROVE  Gets(label, value, peek', seen)
  BY <1>1, <1>2, <1>10, Asks DEF WholeSites
<1>11. /\ \A s : Properties(s, seen) => Whole(Node("object", "", s), seen)
      /\ Properties(<<>>, seen)
      /\ \A s, name, v : Properties(s, seen) /\ Value(v, seen) =>
           Properties(Assigned(s, name, v), seen)
  BY ObjectNodes, NoProperties, AssignedProperties
<1>12. CASE Top.at = "Object"
  BY <1>1, <1>2, <1>12, <1>7, <1>8, <1>9, <1>10, <1>11, ShapeSteps
     DEF ParseObjectLiteral, Reads, At, Eat, EatAs
<1>13. CASE Top.at = "Object.name"
  <2>1. ASSUME NEW name, advance(FALSE), Goto("Object.value", Append(mem, name)) PROVE Shapes'
    <3>1. Owns("Object.value", Append(mem, name), seen)
      BY <1>3, <1>13, <2>1 DEF Reads
    <3> QED
      BY <1>1, <1>8, <2>1, <3>1, ShapeSteps DEF Reads
  <2> QED
    BY <1>1, <1>13, <2>1, ShapeSteps DEF ParseObjectLiteral, At
<1>14. CASE Top.at = "Object.value"
  BY <1>1, <1>2, <1>14, <1>4, <1>7, <1>8, <1>9, <1>10, <1>11, ShapeSteps
     DEF ParseObjectLiteral, Reads, At, Eat, EatAs
<1>15. CASE Top.at = "Object.assign"
  BY <1>1, <1>2, <1>15, <1>5, <1>7, <1>8, <1>9, <1>10, <1>11, ShapeSteps
     DEF ParseObjectLiteral, Reads, At, Eat, EatAs
<1>16. CASE Top.at = "Object.next"
  BY <1>1, <1>2, <1>16, <1>6, <1>7, <1>8, <1>9, <1>10, <1>11, ShapeSteps
     DEF ParseObjectLiteral, Reads, At, Eat, EatAs
<1> QED
  BY <1>1, <1>12, <1>13, <1>14, <1>15, <1>16

LEMMA MethodShapes ==
  ASSUME Typed, Flow, Shapes, ParseObjectMethod
  PROVE  Shapes'
<1> DEFINE Mine == {"Method", "Method.body", "Method.end"}
<1>1. status = "running" /\ Top.at \in Mine
  BY DEF ParseObjectMethod, At
<1>2. \A label \in Mine : Sites(label) = {"Object.assign"} /\ label \notin Entry
  BY SitesTable DEF Entry, ForLabels, RhsLabels, FunctionLabels
<1> PICK seen : seen = Words'
  OBVIOUS
<1>3. ASSUME Reads, Top.at = "Method.body"
      PROVE  Tree(ret, seen)
  <2>1. Owns("Method.body", mem, seen) /\ Gets("Method.body", ret, peek, seen)
    BY <1>1, <1>3, ShapeSteps
  <2>2. Tree(ret, seen)
    BY <2>1, Asks DEF SignatureSites
  <2> QED
    BY <2>2
<1>4. ASSUME Reads, Top.at = "Method.end"
      PROVE  /\ Signature(mem, seen)
             /\ Whole(ret, seen)
  <2>1. Owns("Method.end", mem, seen) /\ Gets("Method.end", ret, peek, seen)
    BY <1>1, <1>4, ShapeSteps
  <2>2. Signature(mem, seen)
    BY <2>1, SpecialNeeds DEF SignatureLabels
  <2>3. Whole(ret, seen)
    BY <2>1, Asks DEF WholeSites
  <2> QED
    BY <2>2, <2>3
<1>5. /\ Owns("Parameters", <<>>, seen) /\ Gets("Parameters", ret, peek', seen)
      /\ Owns("Block", <<>>, seen) /\ Gets("Block", ret, peek', seen)
  BY Needs, Asks DEF Unowning, Unasking
<1>6. \A s : Owns("Method.body", s, seen)
  BY Needs DEF Unowning
<1>7. \A n : Tree(n, seen) => Owns("Method.end", <<n>>, seen)
  BY Signatures
<1>8. ASSUME NEW value, Whole(value, seen), NEW label \in Sites(Top.at)
      PROVE  Gets(label, value, peek', seen)
  BY <1>1, <1>2, <1>8, Asks DEF WholeSites, AssignSites
<1>9. \A s, n : Signature(s, seen) /\ Whole(n, seen) =>
           Whole(Node("function", "", Append(s, n)), seen)
  BY FunctionNodes, Asks
<1> QED
  BY <1>1, <1>2, <1>3, <1>4, <1>5, <1>6, <1>7, <1>8, <1>9, ShapeSteps
     DEF ParseObjectMethod, Reads, At

-----------------------------------------------------------------------------
(* What an if, a loop and their parts ask for.                             *)

LEMMA IfNodes ==
  ASSUME NEW seen, NEW s, AllValues(s, seen), NEW n, NEW tok, Sealed(n, tok, seen)
  PROVE  /\ Len(s) = 1 /\ tok # "ELSE" => Sealed(Node("if", "", Append(s, n)), tok, seen)
         /\ Len(s) = 1 /\ tok = "ELSE" /\ "ELSE" \in seen => Owns("If.else", Append(s, n), seen)
         /\ Len(s) = 2 /\ ~TakesElse(s[2]) /\ "ELSE" \in seen =>
              Sealed(Node("if", "", Append(s, n)), tok, seen)
         /\ Len(s) >= 1 => Sealed(Node("while", "", Append(s, n)), tok, seen)
<1> DEFINE t == Append(s, n)
<1>1. Value(n, seen) /\ (tok # "ELSE" \/ ~TakesElse(n))
  BY DEF Sealed
<1>2. /\ AllValues(t, seen) /\ Len(s) \in Nat
      /\ Len(s) >= 1 => Len(t) >= 2
      /\ Len(s) = 1 => Len(t) = 2 /\ t[2] = n
      /\ Len(s) = 2 => Len(t) = 3 /\ t[2] = s[2]
      /\ t[Len(t)] = n
  BY <1>1, Pieces, OneMoreValue
<1> HIDE DEF t
<1>3. Len(s) = 1 \/ Len(s) = 2 => Len(s) >= 1
  BY <1>2
<1>4. Len(s) >= 1 => Sealed(Node("while", "", t), tok, seen)
  BY <1>1, <1>2, OpenEndings
<1>5. Len(s) = 1 /\ tok # "ELSE" => Sealed(Node("if", "", t), tok, seen)
  BY <1>1, <1>2, <1>3, OpenEndings
<1>6. Len(s) = 2 /\ ~TakesElse(s[2]) /\ "ELSE" \in seen => Sealed(Node("if", "", t), tok, seen)
  BY <1>1, <1>2, <1>3, OpenEndings
<1>7. Len(s) = 1 /\ tok = "ELSE" /\ "ELSE" \in seen => Owns("If.else", t, seen)
  BY <1>1, <1>2, Needs
<1> QED
  BY <1>4, <1>5, <1>6, <1>7 DEF t

LEMMA ForNodes ==
  ASSUME NEW seen, NEW a, NEW b, NEW c, NEW n, NEW tok,
         Value(a, seen), Value(b, seen), Value(c, seen), Sealed(n, tok, seen)
  PROVE  Sealed(Node("for", "", <<a, b, c, n>>), tok, seen)
<1> DEFINE t == <<a, b, c, n>>
<1>1. Value(n, seen) /\ (tok # "ELSE" \/ ~TakesElse(n))
  BY DEF Sealed
<1>2. AllValues(t, seen)
  BY <1>1, ListsOfValues
<1>3. Len(t) = 4 /\ t[4] = n
  OBVIOUS
<1> HIDE DEF t
<1>4. Len(t) >= 4 /\ Len(t) >= 2 /\ t[Len(t)] = n
  BY <1>3
<1>5. Sealed(Node("for", "", t), tok, seen)
  BY <1>1, <1>2, <1>4, OpenEndings
<1> QED
  BY <1>5 DEF t

(* A for statement's locals, one more at a time.                           *)
LEMMA MoreForLocals ==
  ASSUME NEW seen, NEW s, IsSequence(s), Len(s) \in {1, 2, 3}, \A i \in 2..Len(s) : Value(s[i], seen),
         NEW n, Value(n, seen)
  PROVE  /\ Len(s) = 1 => Owns("For.condition", Append(s, n), seen) /\ Owns("For.in", Append(s, n), seen)
         /\ Len(s) = 2 => Owns("For.update", Append(s, n), seen)
         /\ Len(s) = 3 => Owns("For.body", Append(s, n), seen)
<1> DEFINE t == Append(s, n)
<1> PICK m \in Nat : m = Len(s)
  BY DEF IsSequence
<1>1. IsSequence(t) /\ Len(t) = m + 1 /\ (\A i \in 1..m : t[i] = s[i]) /\ t[m + 1] = n
  BY OneMore
<1> HIDE DEF t
<1>2. ASSUME NEW i \in 2..m + 1 PROVE i = m + 1 \/ (i \in 2..m /\ i \in 1..m)
  <2>1. i \in Int /\ 2 <= i /\ i <= m + 1
    OBVIOUS
  <2>2. i = m + 1 \/ i <= m
    BY <2>1
  <2> QED
    BY <2>1, <2>2
<1>3. \A i \in 2..Len(t) : Value(t[i], seen)
  BY <1>1, <1>2
<1>4. m = 1 => ForSized("For.condition", Len(t)) /\ ForSized("For.in", Len(t))
  BY <1>1 DEF ForSized
<1>5. m = 2 => ForSized("For.update", Len(t))
  BY <1>1 DEF ForSized
<1>6. m = 3 => ForSized("For.body", Len(t))
  BY <1>1 DEF ForSized
<1>7. m = 1 => Owns("For.condition", t, seen) /\ Owns("For.in", t, seen)
  BY <1>1, <1>3, <1>4, SpecialNeeds DEF ForLabels
<1>8. m = 2 => Owns("For.update", t, seen)
  BY <1>1, <1>3, <1>5, SpecialNeeds DEF ForLabels
<1>9. m = 3 => Owns("For.body", t, seen)
  BY <1>1, <1>3, <1>6, SpecialNeeds DEF ForLabels
<1> QED
  BY <1>7, <1>8, <1>9 DEF t

LEMMA ForLocals ==
  ASSUME NEW seen, NEW s
  PROVE  /\ \A label \in {"For.init", "For.head"} :
              Owns(label, s, seen) <=> IsSequence(s) /\ Len(s) = 1
         /\ \A label \in {"For.condition", "For.second", "For.in"} :
              Owns(label, s, seen) <=> IsSequence(s) /\ Len(s) = 2 /\ Value(s[2], seen)
         /\ \A label \in {"For.update", "For.third"} :
              Owns(label, s, seen) <=>
                IsSequence(s) /\ Len(s) = 3 /\ \A i \in 2..3 : Value(s[i], seen)
         /\ Owns("For.body", s, seen) <=>
              IsSequence(s) /\ Len(s) = 4 /\ \A i \in 2..4 : Value(s[i], seen)
<1>1. \A label \in ForLabels :
        Owns(label, s, seen) <=>
          IsSequence(s) /\ ForSized(label, Len(s)) /\ \A i \in 2..Len(s) : Value(s[i], seen)
  BY SpecialNeeds
<1>2. /\ \A label \in {"For.init", "For.head"} : \A size : ForSized(label, size) <=> size = 1
      /\ \A label \in {"For.condition", "For.second", "For.in"} : \A size : ForSized(label, size) <=> size = 2
      /\ \A label \in {"For.update", "For.third"} : \A size : ForSized(label, size) <=> size = 3
      /\ \A size : ForSized("For.body", size) <=> size = 4
  BY DEF ForSized
<1>3. (\A i \in 2..1 : Value(s[i], seen)) /\ (Value(s[2], seen) <=> \A i \in 2..2 : Value(s[i], seen))
  OBVIOUS
<1>4. \A label \in {"For.init", "For.head"} : Owns(label, s, seen) <=> IsSequence(s) /\ Len(s) = 1
  BY <1>1, <1>2, <1>3 DEF ForLabels
<1>5. \A label \in {"For.condition", "For.second", "For.in"} :
        Owns(label, s, seen) <=> IsSequence(s) /\ Len(s) = 2 /\ Value(s[2], seen)
  BY <1>1, <1>2, <1>3 DEF ForLabels
<1>6. \A label \in {"For.update", "For.third"} :
        Owns(label, s, seen) <=> IsSequence(s) /\ Len(s) = 3 /\ \A i \in 2..3 : Value(s[i], seen)
  BY <1>1, <1>2 DEF ForLabels
<1>7. Owns("For.body", s, seen) <=>
        IsSequence(s) /\ Len(s) = 4 /\ \A i \in 2..4 : Value(s[i], seen)
  BY <1>1, <1>2 DEF ForLabels
<1> QED
  BY <1>4, <1>5, <1>6, <1>7

LEMMA NextForLocals ==
  ASSUME NEW seen, NEW s, NEW n, Value(n, seen)
  PROVE  /\ Owns("For.init", s, seen) =>
              Owns("For.head", s, seen) /\ Owns("For.condition", Append(s, n), seen)
         /\ Owns("For.head", s, seen) =>
              Owns("For.in", Append(s, n), seen) /\ Owns("For.condition", Append(s, n), seen)
         /\ Owns("For.condition", s, seen) =>
              Owns("For.second", s, seen) /\ Owns("For.update", Append(s, n), seen)
         /\ Owns("For.second", s, seen) => Owns("For.update", Append(s, n), seen)
         /\ Owns("For.update", s, seen) =>
              Owns("For.third", s, seen) /\ Owns("For.body", Append(s, n), seen)
         /\ Owns("For.third", s, seen) => Owns("For.body", Append(s, n), seen)
<1>1. \A i \in 2..1 : Value(s[i], seen)
  OBVIOUS
<1>2. Value(s[2], seen) => \A i \in 2..2 : Value(s[i], seen)
  OBVIOUS
<1>3. IsSequence(s) /\ Len(s) = 1 =>
        Owns("For.in", Append(s, n), seen) /\ Owns("For.condition", Append(s, n), seen)
  BY <1>1, MoreForLocals
<1>4. IsSequence(s) /\ Len(s) = 2 /\ Value(s[2], seen) => Owns("For.update", Append(s, n), seen)
  BY <1>2, MoreForLocals
<1>5. IsSequence(s) /\ Len(s) = 3 /\ (\A i \in 2..3 : Value(s[i], seen)) =>
        Owns("For.body", Append(s, n), seen)
  BY MoreForLocals
<1> QED
  BY <1>3, <1>4, <1>5, ForLocals

LEMMA ForBodies ==
  ASSUME NEW seen, NEW flag, NEW n, Value(n, seen)
  PROVE  Owns("For.body", <<flag, n, Null, Null>>, seen) /\ Owns("For.init", <<flag>>, seen)
<1>1. Value(Null, seen)
  BY LeavesAreWhole, Asks
<1>2. Owns("For.body", <<flag, n, Null, Null>>, seen)
  <2> DEFINE s == <<flag, n, Null, Null>>
  <2>1. IsSequence(s) /\ Len(s) = 4
    BY Tuples
  <2>2. s[2] = n /\ s[3] = Null /\ s[4] = Null
    OBVIOUS
  <2> HIDE DEF s
  <2>3. \A i \in 2..4 : Value(s[i], seen)
    <3>1. \A i \in 2..4 : i = 2 \/ i = 3 \/ i = 4
      OBVIOUS
    <3> QED
      BY <1>1, <2>2, <3>1
  <2>4. Owns("For.body", s, seen)
    BY <2>1, <2>3, ForLocals
  <2> QED
    BY <2>4 DEF s
<1>3. Owns("For.init", <<flag>>, seen)
  <2> DEFINE s == <<flag>>
  <2>1. IsSequence(s) /\ Len(s) = 1
    BY Tuples
  <2> HIDE DEF s
  <2>2. Owns("For.init", s, seen)
    BY <2>1, ForLocals
  <2> QED
    BY <2>2 DEF s
<1> QED
  BY <1>2, <1>3

LEMMA OnePair ==
  ASSUME NEW seen, NEW s, AllValues(s, seen), Len(s) = 1, NEW n, Whole(n, seen)
  PROVE  Owns("Do.end", Append(s, n), seen) /\ Owns("Try.handler", Append(s, n), seen)
<1> DEFINE t == Append(s, n)
<1>1. AllValues(t, seen) /\ Len(t) = 2
  BY Pieces, Asks
<1> HIDE DEF t
<1>2. Owns("Do.end", t, seen) /\ Owns("Try.handler", t, seen)
  BY <1>1, Needs
<1> QED
  BY <1>2 DEF t

LEMMA StatementShapes ==
  ASSUME Typed, Flow, Shapes, ParseStatement
  PROVE  Shapes'
<1> DEFINE Mine == {"Statement", "Expression.end"}
<1>1. status = "running" /\ Top.at \in Mine
  BY DEF ParseStatement, At
<1>2. \A label \in Mine : Sites(label) = StatementSites /\ label \notin Entry
  BY SitesTable DEF Entry, ForLabels, RhsLabels, FunctionLabels
<1> PICK seen : seen = Words'
  OBVIOUS
<1>3. ASSUME Reads, Top.at = "Expression.end"
      PROVE  Whole(ret, seen)
  <2>1. Owns("Expression.end", mem, seen) /\ Gets("Expression.end", ret, peek, seen)
    BY <1>1, <1>3, ShapeSteps
  <2>2. Whole(ret, seen)
    BY <2>1, Asks DEF WholeSites, CommaSites
  <2> QED
    BY <2>2
<1>4. Owns("Comma", <<>>, seen) /\ Gets("Comma", ret, peek', seen)
  BY Needs, Asks DEF Unowning, Unasking
<1>5. \A s : Owns("Expression.end", s, seen)
  BY Needs DEF Unowning
<1>6. ASSUME NEW value, Whole(value, seen), NEW label \in Sites(Top.at)
      PROVE  Gets(label, value, peek', seen)
  BY <1>1, <1>2, <1>6, Asks
<1>7. /\ \A n : Whole(n, seen) => Whole(Node("label", "", <<n>>), seen)
      /\ Whole(Undefined, seen)
  BY ListsOfValues, OneMoreValue, NodesAre, SmallNodes, LeavesAreWhole, Asks
<1>8. ASSUME Reads, NEW function, function = StatementOf(peek), function # "Expression"
      PROVE  Owns(function, <<>>, seen) /\ Gets(function, ret, peek', seen)
  <2>1. \/ function \in {"If", "For", "Function", "Block", "Return", "While", "Do", "Variable",
                         "Break", "Try", "Throw"}
        \/ function = "Switch" /\ peek = "SWITCH"
    BY <1>8 DEF StatementOf
  <2>2. peek = "SWITCH" => "SWITCH" \in seen
    BY <1>8, WordsStay DEF Typed
  <2>3. CASE function = "Switch"
    BY <2>1, <2>2, <2>3, SpecialNeeds, Asks DEF Unasking
  <2>4. \A label \in {"If", "For", "Function", "Block", "Return", "While", "Do", "Variable",
                     "Break", "Try", "Throw"} :
          label \in Unowning /\ label \in Unasking
    BY DEF Unowning, Unasking
  <2>5. CASE function # "Switch"
    BY <2>1, <2>4, <2>5, Needs, Asks
  <2> QED
    BY <2>3, <2>5
<1> QED
  BY <1>1, <1>2, <1>3, <1>4, <1>5, <1>6, <1>7, <1>8, ShapeSteps
     DEF ParseStatement, Reads, At, Eat, EatAs, Become

LEMMA IfShapes ==
  ASSUME Typed, Flow, Shapes, ParseIfStatement
  PROVE  Shapes'
<1> DEFINE Mine == {"If", "If.open", "If.close", "If.body", "If.else"}
<1>1. status = "running" /\ Top.at \in Mine
  BY DEF ParseIfStatement, At
<1>2. \A label \in Mine : Sites(label) = StatementSites /\ label \notin Entry
  BY SitesTable DEF Entry, ForLabels, RhsLabels, FunctionLabels
<1> PICK seen : seen = Words'
  OBVIOUS
<1>3. ASSUME Reads, Top.at = "If.close"
      PROVE  Whole(ret, seen)
  <2>1. Owns("If.close", mem, seen) /\ Gets("If.close", ret, peek, seen)
    BY <1>1, <1>3, ShapeSteps
  <2>2. Whole(ret, seen)
    BY <2>1, Asks DEF WholeSites, CommaSites
  <2> QED
    BY <2>2
<1>4. ASSUME Reads, Top.at = "If.body"
      PROVE  /\ AllValues(mem, seen) /\ Len(mem) = 1
             /\ Sealed(ret, peek, seen)
             /\ peek = "ELSE" => "ELSE" \in seen
             /\ peek = "ELSE" => Owns("If.else", Append(mem, ret), seen)
             /\ peek # "ELSE" => Sealed(Node("if", "", Append(mem, ret)), peek, seen)
  <2>1. Owns("If.body", mem, seen) /\ Gets("If.body", ret, peek, seen)
    BY <1>1, <1>4, ShapeSteps
  <2>2. AllValues(mem, seen) /\ Len(mem) = 1
    BY <2>1, Needs DEF SoloLabels
  <2>3. Sealed(ret, peek, seen)
    BY <2>1, Asks DEF StatementSites
  <2>4. peek = "ELSE" => "ELSE" \in seen
    BY <2>2, <2>3, <1>4, WordsStay DEF Typed
  <2>5. peek = "ELSE" => Owns("If.else", Append(mem, ret), seen)
    BY <2>2, <2>3, <2>4, IfNodes
  <2>6. peek # "ELSE" => Sealed(Node("if", "", Append(mem, ret)), peek, seen)
    BY <2>2, <2>3, <2>4, <2>5, IfNodes
  <2> QED
    BY <2>2, <2>3, <2>4, <2>5, <2>6
<1>5. ASSUME Reads, Top.at = "If.else"
      PROVE  /\ AllValues(mem, seen) /\ Len(mem) = 2 /\ ~TakesElse(mem[2]) /\ "ELSE" \in seen
             /\ Sealed(ret, peek, seen)
             /\ Sealed(Node("if", "", Append(mem, ret)), peek, seen)
  <2>1. Owns("If.else", mem, seen) /\ Gets("If.else", ret, peek, seen)
    BY <1>1, <1>5, ShapeSteps
  <2>2. AllValues(mem, seen) /\ Len(mem) = 2 /\ ~TakesElse(mem[2]) /\ "ELSE" \in seen
    BY <2>1, Needs
  <2>3. Sealed(ret, peek, seen)
    BY <2>1, Asks DEF StatementSites
  <2>4. Sealed(Node("if", "", Append(mem, ret)), peek, seen)
    BY <2>2, <2>3, IfNodes
  <2> QED
    BY <2>2, <2>3, <2>4
<1>6. /\ Owns("Comma", <<>>, seen) /\ Gets("Comma", ret, peek', seen)
      /\ Owns("Statement", <<>>, seen) /\ Gets("Statement", ret, peek', seen)
  BY Needs, Asks DEF Unowning, Unasking
<1>7. /\ \A s : Owns("If.open", s, seen)
      /\ \A s : Owns("If.close", s, seen)
  BY Needs DEF Unowning
<1>8. Gets("If.open", ret, peek', seen)
  BY Asks DEF Unasking
<1>9. \A n : Whole(n, seen) => Owns("If.body", <<n>>, seen)
  BY Singles DEF OneLabels
<1>10. ASSUME NEW value, Sealed(value, peek', seen), NEW label \in Sites(Top.at)
      PROVE  Gets(label, value, peek', seen)
  BY <1>1, <1>2, <1>10, Asks
<1>11. Reads => (Keep => peek' = peek)
  BY WordsStay DEF Typed
<1>12. CASE Top.at = "If"
  BY <1>1, <1>2, <1>12, <1>6, <1>7, <1>8, <1>9, <1>10, <1>11, ShapeSteps
     DEF ParseIfStatement, Reads, At, Eat, EatAs
<1>13. CASE Top.at = "If.open"
  BY <1>1, <1>2, <1>13, <1>6, <1>7, <1>8, <1>9, <1>10, <1>11, ShapeSteps
     DEF ParseIfStatement, Reads, At, Eat, EatAs
<1>14. CASE Top.at = "If.close"
  BY <1>1, <1>2, <1>14, <1>3, <1>6, <1>7, <1>8, <1>9, <1>10, <1>11, ShapeSteps
     DEF ParseIfStatement, Reads, At, Eat, EatAs
<1>15. CASE Top.at = "If.body"
  BY <1>1, <1>2, <1>15, <1>4, <1>6, <1>7, <1>8, <1>9, <1>10, <1>11, ShapeSteps
     DEF ParseIfStatement, Reads, At, Eat, EatAs
<1>16. CASE Top.at = "If.else"
  BY <1>1, <1>2, <1>16, <1>5, <1>6, <1>7, <1>8, <1>9, <1>10, <1>11, ShapeSteps
     DEF ParseIfStatement, Reads, At, Eat, EatAs
<1> QED
  BY <1>1, <1>12, <1>13, <1>14, <1>15, <1>16

LEMMA ForShapes ==
  ASSUME Typed, Flow, Shapes, ParseForStatement
  PROVE  Shapes'
<1> DEFINE Mine == {"For", "For.open", "For.init", "For.head", "For.in", "For.condition",
                  "For.second", "For.update", "For.third", "For.body"}
<1>1. status = "running" /\ Top.at \in Mine
  BY DEF ParseForStatement, At
<1>2. \A label \in Mine : Sites(label) = StatementSites /\ label \notin Entry
  BY SitesTable DEF Entry, ForLabels, RhsLabels, FunctionLabels
<1> PICK seen : seen = Words'
  OBVIOUS
<1>3. ASSUME Reads, Top.at = "For.init"
      PROVE  /\ Owns("For.init", mem, seen)
             /\ Owns("For.head", mem, seen) /\ Owns("For.condition", Append(mem, Undefined), seen)
  <2>1. Owns("For.init", mem, seen) /\ Gets("For.init", ret, peek, seen)
    BY <1>1, <1>3, ShapeSteps
  <2>2. Owns("For.init", mem, seen)
    BY <2>1, ForLocals
  <2>3. Owns("For.head", mem, seen) /\ Owns("For.condition", Append(mem, Undefined), seen)
    BY <2>2, NextForLocals, LeavesAreWhole, Asks
  <2> QED
    BY <2>2, <2>3
<1>4. ASSUME Reads, Top.at = "For.head"
      PROVE  /\ Owns("For.head", mem, seen)
             /\ Whole(ret, seen)
             /\ Value(ret, seen)
             /\ Owns("For.in", Append(mem, ret), seen) /\ Owns("For.condition", Append(mem, ret), seen)
             /\ Owns("For.body", <<mem[1], ret, Null, Null>>, seen)
  <2>1. Owns("For.head", mem, seen) /\ Gets("For.head", ret, peek, seen)
    BY <1>1, <1>4, ShapeSteps
  <2>2. Owns("For.head", mem, seen)
    BY <2>1, ForLocals
  <2>3. Whole(ret, seen)
    BY <2>1, Asks DEF WholeSites, CommaSites
  <2>4. Value(ret, seen)
    BY <2>2, <2>3, Asks
  <2>5. Owns("For.in", Append(mem, ret), seen) /\ Owns("For.condition", Append(mem, ret), seen)
    BY <2>2, <2>3, <2>4, NextForLocals
  <2>6. Owns("For.body", <<mem[1], ret, Null, Null>>, seen)
    BY <2>2, <2>3, <2>4, <2>5, ForBodies
  <2> QED
    BY <2>2, <2>3, <2>4, <2>5, <2>6
<1>5. ASSUME Reads, Top.at = "For.in"
      PROVE  /\ Owns("For.in", mem, seen)
             /\ Whole(ret, seen)
             /\ Value(ret, seen)
             /\ Value(Node("binary", "IN", <<mem[2], ret>>), seen)
             /\ Owns("For.body", <<mem[1], Node("binary", "IN", <<mem[2], ret>>), Null, Null>>, seen)
  <2>1. Owns("For.in", mem, seen) /\ Gets("For.in", ret, peek, seen)
    BY <1>1, <1>5, ShapeSteps
  <2>2. Owns("For.in", mem, seen)
    BY <2>1, ForLocals
  <2>3. Whole(ret, seen)
    BY <2>1, Asks DEF WholeSites, AssignSites
  <2>4. Value(ret, seen)
    BY <2>2, <2>3, Asks
  <2>5. Value(Node("binary", "IN", <<mem[2], ret>>), seen)
    BY <2>2, <2>3, <2>4, ForLocals, SmallNodes, Asks
  <2>6. Owns("For.body", <<mem[1], Node("binary", "IN", <<mem[2], ret>>), Null, Null>>, seen)
    BY <2>2, <2>3, <2>4, <2>5, ForBodies
  <2> QED
    BY <2>2, <2>3, <2>4, <2>5, <2>6
<1>6. ASSUME Reads, Top.at = "For.condition"
      PROVE  /\ Owns("For.condition", mem, seen)
             /\ Value(Node("true", "", <<>>), seen)
             /\ Owns("For.second", mem, seen)
             /\ Owns("For.update", Append(mem, Node("true", "", <<>>)), seen)
  <2>1. Owns("For.condition", mem, seen) /\ Gets("For.condition", ret, peek, seen)
    BY <1>1, <1>6, ShapeSteps
  <2>2. Owns("For.condition", mem, seen)
    BY <2>1, ForLocals
  <2>3. Value(Node("true", "", <<>>), seen)
    BY <2>2, SmallNodes, Asks
  <2>4. Owns("For.second", mem, seen)
             /\ Owns("For.update", Append(mem, Node("true", "", <<>>)), seen)
    BY <2>2, <2>3, NextForLocals
  <2> QED
    BY <2>2, <2>3, <2>4
<1>7. ASSUME Reads, Top.at = "For.second"
      PROVE  /\ Owns("For.second", mem, seen)
             /\ Whole(ret, seen)
             /\ Value(ret, seen)
             /\ Owns("For.update", Append(mem, ret), seen)
  <2>1. Owns("For.second", mem, seen) /\ Gets("For.second", ret, peek, seen)
    BY <1>1, <1>7, ShapeSteps
  <2>2. Owns("For.second", mem, seen)
    BY <2>1, ForLocals
  <2>3. Whole(ret, seen)
    BY <2>1, Asks DEF WholeSites, CommaSites
  <2>4. Value(ret, seen)
    BY <2>2, <2>3, Asks
  <2>5. Owns("For.update", Append(mem, ret), seen)
    BY <2>2, <2>3, <2>4, NextForLocals
  <2> QED
    BY <2>2, <2>3, <2>4, <2>5
<1>8. ASSUME Reads, Top.at = "For.update"
      PROVE  /\ Owns("For.update", mem, seen)
             /\ Owns("For.third", mem, seen) /\ Owns("For.body", Append(mem, Undefined), seen)
  <2>1. Owns("For.update", mem, seen) /\ Gets("For.update", ret, peek, seen)
    BY <1>1, <1>8, ShapeSteps
  <2>2. Owns("For.update", mem, seen)
    BY <2>1, ForLocals
  <2>3. Owns("For.third", mem, seen) /\ Owns("For.body", Append(mem, Undefined), seen)
    BY <2>2, NextForLocals, LeavesAreWhole, Asks
  <2> QED
    BY <2>2, <2>3
<1>9. ASSUME Reads, Top.at = "For.third"
      PROVE  /\ Owns("For.third", mem, seen)
             /\ Whole(ret, seen)
             /\ Value(ret, seen)
             /\ Owns("For.body", Append(mem, ret), seen)
  <2>1. Owns("For.third", mem, seen) /\ Gets("For.third", ret, peek, seen)
    BY <1>1, <1>9, ShapeSteps
  <2>2. Owns("For.third", mem, seen)
    BY <2>1, ForLocals
  <2>3. Whole(ret, seen)
    BY <2>1, Asks DEF WholeSites, CommaSites
  <2>4. Value(ret, seen)
    BY <2>2, <2>3, Asks
  <2>5. Owns("For.body", Append(mem, ret), seen)
    BY <2>2, <2>3, <2>4, NextForLocals
  <2> QED
    BY <2>2, <2>3, <2>4, <2>5
<1>10. ASSUME Reads, Top.at = "For.body"
      PROVE  /\ Owns("For.body", mem, seen)
             /\ Sealed(ret, peek, seen)
             /\ Value(mem[2], seen) /\ Value(mem[3], seen) /\ Value(mem[4], seen)
             /\ Sealed(Node("for", "", <<mem[2], mem[3], mem[4], ret>>), peek, seen)
  <2>1. Owns("For.body", mem, seen) /\ Gets("For.body", ret, peek, seen)
    BY <1>1, <1>10, ShapeSteps
  <2>2. Owns("For.body", mem, seen)
    BY <2>1, ForLocals
  <2>3. Sealed(ret, peek, seen)
    BY <2>1, Asks DEF StatementSites
  <2>4. Value(mem[2], seen) /\ Value(mem[3], seen) /\ Value(mem[4], seen)
    BY <2>2, <2>3, ForLocals
  <2>5. Sealed(Node("for", "", <<mem[2], mem[3], mem[4], ret>>), peek, seen)
    BY <2>2, <2>3, <2>4, ForNodes
  <2> QED
    BY <2>2, <2>3, <2>4, <2>5
<1>11. /\ Owns("Comma", <<>>, seen) /\ Gets("Comma", ret, peek', seen)
      /\ Owns("Statement", <<>>, seen) /\ Gets("Statement", ret, peek', seen)
      /\ Owns("Variable", <<>>, seen) /\ Gets("Variable", ret, peek', seen)
      /\ Owns("Assign", <<>>, seen) /\ Gets("Assign", ret, peek', seen)
  BY Needs, Asks DEF Unowning, Unasking
<1>12. \A s : Owns("For.open", s, seen)
  BY Needs DEF Unowning
<1>13. /\ Gets("For.open", ret, peek', seen)
      /\ Gets("For.init", ret, peek', seen)
      /\ Gets("For.condition", ret, peek', seen)
      /\ Gets("For.update", ret, peek', seen)
  BY Asks DEF Unasking
<1>14. ASSUME NEW value, Sealed(value, peek', seen), NEW label \in Sites(Top.at)
      PROVE  Gets(label, value, peek', seen)
  BY <1>1, <1>2, <1>14, Asks
<1>15. Reads => (Keep => peek' = peek)
  BY WordsStay DEF Typed
<1>16. ASSUME Reads, UNCHANGED <<ret, status>>, NEW flag,
             stack' = Append(Callers, Frame("For.init", <<flag>>, Top.from))
      PROVE  Shapes'
  <2> DEFINE locals == <<flag>>
  <2>1. Owns("For.init", locals, seen) /\ Gets("For.init", ret', peek', seen)
    BY <1>16, ForBodies, LeavesAreWhole, Asks DEF Unasking
  <2> HIDE DEF locals
  <2> PICK first : first = Top.from
    OBVIOUS
  <2>2. stack' = Append(Callers, Frame("For.init", locals, first))
    BY <1>16 DEF locals
  <2> QED
    BY <1>1, <2>1, <2>2, <1>16, GotoShapes
<1>17. CASE Top.at = "For"
  BY <1>1, <1>2, <1>17, <1>11, <1>12, <1>13, <1>14, <1>15, <1>16, ShapeSteps
     DEF ParseForStatement, Reads, At, ParseForInStatement, Eat, EatAs
<1>18. CASE Top.at = "For.open"
  BY <1>1, <1>2, <1>18, <1>11, <1>12, <1>13, <1>14, <1>15, <1>16, ShapeSteps
     DEF ParseForStatement, Reads, At, ParseForInStatement, Eat, EatAs
<1>19. CASE Top.at = "For.init"
  BY <1>1, <1>2, <1>19, <1>3, <1>11, <1>12, <1>13, <1>14, <1>15, <1>16, ShapeSteps
     DEF ParseForStatement, Reads, At, ParseForInStatement, Eat, EatAs
<1>20. CASE Top.at = "For.head"
  BY <1>1, <1>2, <1>20, <1>4, <1>11, <1>12, <1>13, <1>14, <1>15, <1>16, ShapeSteps
     DEF ParseForStatement, Reads, At, ParseForInStatement, Eat, EatAs
<1>21. CASE Top.at = "For.in"
  BY <1>1, <1>2, <1>21, <1>5, <1>11, <1>12, <1>13, <1>14, <1>15, <1>16, ShapeSteps
     DEF ParseForStatement, Reads, At, ParseForInStatement, Eat, EatAs
<1>22. CASE Top.at = "For.condition"
  BY <1>1, <1>2, <1>22, <1>6, <1>11, <1>12, <1>13, <1>14, <1>15, <1>16, ShapeSteps
     DEF ParseForStatement, Reads, At, ParseForInStatement, Eat, EatAs
<1>23. CASE Top.at = "For.second"
  BY <1>1, <1>2, <1>23, <1>7, <1>11, <1>12, <1>13, <1>14, <1>15, <1>16, ShapeSteps
     DEF ParseForStatement, Reads, At, ParseForInStatement, Eat, EatAs
<1>24. CASE Top.at = "For.update"
  BY <1>1, <1>2, <1>24, <1>8, <1>11, <1>12, <1>13, <1>14, <1>15, <1>16, ShapeSteps
     DEF ParseForStatement, Reads, At, ParseForInStatement, Eat, EatAs
<1>25. CASE Top.at = "For.third"
  BY <1>1, <1>2, <1>25, <1>9, <1>11, <1>12, <1>13, <1>14, <1>15, <1>16, ShapeSteps
     DEF ParseForStatement, Reads, At, ParseForInStatement, Eat, EatAs
<1>26. CASE Top.at = "For.body"
  BY <1>1, <1>2, <1>26, <1>10, <1>11, <1>12, <1>13, <1>14, <1>15, <1>16, ShapeSteps
     DEF ParseForStatement, Reads, At, ParseForInStatement, Eat, EatAs
<1> QED
  BY <1>1, <1>17, <1>18, <1>19, <1>20, <1>21, <1>22, <1>23, <1>24, <1>25, <1>26

LEMMA WhileShapes ==
  ASSUME Typed, Flow, Shapes, ParseWhileStatement
  PROVE  Shapes'
<1> DEFINE Mine == {"While", "While.open", "While.close", "While.body"}
<1>1. status = "running" /\ Top.at \in Mine
  BY DEF ParseWhileStatement, At
<1>2. \A label \in Mine : Sites(label) = StatementSites /\ label \notin Entry
  BY SitesTable DEF Entry, ForLabels, RhsLabels, FunctionLabels
<1> PICK seen : seen = Words'
  OBVIOUS
<1>3. ASSUME Reads, Top.at = "While.close"
      PROVE  Whole(ret, seen)
  <2>1. Owns("While.close", mem, seen) /\ Gets("While.close", ret, peek, seen)
    BY <1>1, <1>3, ShapeSteps
  <2>2. Whole(ret, seen)
    BY <2>1, Asks DEF WholeSites, CommaSites
  <2> QED
    BY <2>2
<1>4. ASSUME Reads, Top.at = "While.body"
      PROVE  /\ AllValues(mem, seen) /\ Len(mem) >= 1
             /\ Sealed(ret, peek, seen)
             /\ Sealed(Node("while", "", Append(mem, ret)), peek, seen)
  <2>1. Owns("While.body", mem, seen) /\ Gets("While.body", ret, peek, seen)
    BY <1>1, <1>4, ShapeSteps
  <2>2. AllValues(mem, seen) /\ Len(mem) >= 1
    BY <2>1, AtLeastOne DEF OneLabels, SoloLabels
  <2>3. Sealed(ret, peek, seen)
    BY <2>1, Asks DEF StatementSites
  <2>4. Sealed(Node("while", "", Append(mem, ret)), peek, seen)
    BY <2>2, <2>3, IfNodes
  <2> QED
    BY <2>2, <2>3, <2>4
<1>5. /\ Owns("Comma", <<>>, seen) /\ Gets("Comma", ret, peek', seen)
      /\ Owns("Statement", <<>>, seen) /\ Gets("Statement", ret, peek', seen)
  BY Needs, Asks DEF Unowning, Unasking
<1>6. /\ \A s : Owns("While.open", s, seen)
      /\ \A s : Owns("While.close", s, seen)
  BY Needs DEF Unowning
<1>7. Gets("While.open", ret, peek', seen)
  BY Asks DEF Unasking
<1>8. \A n : Whole(n, seen) => Owns("While.body", <<n>>, seen)
  BY Singles DEF OneLabels
<1>9. ASSUME NEW value, Sealed(value, peek', seen), NEW label \in Sites(Top.at)
      PROVE  Gets(label, value, peek', seen)
  BY <1>1, <1>2, <1>9, Asks
<1>10. Reads => (Keep => peek' = peek)
  BY WordsStay DEF Typed
<1> QED
  BY <1>1, <1>2, <1>3, <1>4, <1>5, <1>6, <1>7, <1>8, <1>9, <1>10, ShapeSteps
     DEF ParseWhileStatement, Reads, At, Eat, EatAs

LEMMA DoShapes ==
  ASSUME Typed, Flow, Shapes, ParseDoWhileStatement
  PROVE  Shapes'
<1> DEFINE Mine == {"Do", "Do.while", "Do.open", "Do.close", "Do.end"}
<1>1. status = "running" /\ Top.at \in Mine
  BY DEF ParseDoWhileStatement, At
<1>2. \A label \in Mine : Sites(label) = StatementSites /\ label \notin Entry
  BY SitesTable DEF Entry, ForLabels, RhsLabels, FunctionLabels
<1> PICK seen : seen = Words'
  OBVIOUS
<1>3. ASSUME Reads, Top.at = "Do.while"
      PROVE  /\ Sealed(ret, peek, seen)
             /\ Value(ret, seen)
  <2>1. Owns("Do.while", mem, seen) /\ Gets("Do.while", ret, peek, seen)
    BY <1>1, <1>3, ShapeSteps
  <2>2. Sealed(ret, peek, seen)
    BY <2>1, Asks DEF StatementSites
  <2>3. Value(ret, seen)
    BY <2>2, Asks
  <2> QED
    BY <2>2, <2>3
<1>4. ASSUME Reads, Top.at = "Do.open"
      PROVE  AllValues(mem, seen) /\ Len(mem) = 1
  <2>1. Owns("Do.open", mem, seen) /\ Gets("Do.open", ret, peek, seen)
    BY <1>1, <1>4, ShapeSteps
  <2>2. AllValues(mem, seen) /\ Len(mem) = 1
    BY <2>1, Needs DEF SoloLabels
  <2> QED
    BY <2>2
<1>5. ASSUME Reads, Top.at = "Do.close"
      PROVE  /\ AllValues(mem, seen) /\ Len(mem) = 1
             /\ Whole(ret, seen)
             /\ Owns("Do.end", Append(mem, ret), seen)
  <2>1. Owns("Do.close", mem, seen) /\ Gets("Do.close", ret, peek, seen)
    BY <1>1, <1>5, ShapeSteps
  <2>2. AllValues(mem, seen) /\ Len(mem) = 1
    BY <2>1, Needs DEF SoloLabels
  <2>3. Whole(ret, seen)
    BY <2>1, Asks DEF WholeSites, CommaSites
  <2>4. Owns("Do.end", Append(mem, ret), seen)
    BY <2>2, <2>3, OnePair
  <2> QED
    BY <2>2, <2>3, <2>4
<1>6. ASSUME Reads, Top.at = "Do.end"
      PROVE  /\ AllValues(mem, seen) /\ Len(mem) = 2
             /\ Value(mem[1], seen) /\ Value(mem[2], seen)
  <2>1. Owns("Do.end", mem, seen) /\ Gets("Do.end", ret, peek, seen)
    BY <1>1, <1>6, ShapeSteps
  <2>2. AllValues(mem, seen) /\ Len(mem) = 2
    BY <2>1, Needs
  <2>3. Value(mem[1], seen) /\ Value(mem[2], seen)
    BY <2>2, Pieces
  <2> QED
    BY <2>2, <2>3
<1>7. /\ Owns("Comma", <<>>, seen) /\ Gets("Comma", ret, peek', seen)
      /\ Owns("Statement", <<>>, seen) /\ Gets("Statement", ret, peek', seen)
  BY Needs, Asks DEF Unowning, Unasking
<1>8. \A s : Owns("Do.while", s, seen)
  BY Needs DEF Unowning
<1>9. /\ Gets("Do.open", ret, peek', seen)
      /\ Gets("Do.end", ret, peek', seen)
  BY Asks DEF Unasking
<1>10. \A n : Value(n, seen) => Owns("Do.open", <<n>>, seen)
  BY Singles DEF OneLabels
<1>11. \A s : AllValues(s, seen) /\ Len(s) = 1 => Owns("Do.close", s, seen)
  BY Needs DEF SoloLabels
<1>12. ASSUME NEW value, Whole(value, seen), NEW label \in Sites(Top.at)
      PROVE  Gets(label, value, peek', seen)
  BY <1>1, <1>2, <1>12, Asks
<1>13. \A a, b : Value(a, seen) /\ Value(b, seen) => Whole(Node("do", "", <<a, b>>), seen)
  BY ListsOfValues, OneMoreValue, NodesAre, SmallNodes, LeavesAreWhole, Asks
<1>14. CASE Top.at = "Do"
  BY <1>1, <1>2, <1>14, <1>7, <1>8, <1>9, <1>10, <1>11, <1>12, <1>13, ShapeSteps
     DEF ParseDoWhileStatement, Reads, At, Eat, EatAs
<1>15. CASE Top.at = "Do.while"
  BY <1>1, <1>2, <1>15, <1>3, <1>7, <1>8, <1>9, <1>10, <1>11, <1>12, <1>13, ShapeSteps
     DEF ParseDoWhileStatement, Reads, At, Eat, EatAs
<1>16. CASE Top.at = "Do.open"
  BY <1>1, <1>2, <1>16, <1>4, <1>7, <1>8, <1>9, <1>10, <1>11, <1>12, <1>13, ShapeSteps
     DEF ParseDoWhileStatement, Reads, At, Eat, EatAs
<1>17. CASE Top.at = "Do.close"
  BY <1>1, <1>2, <1>17, <1>5, <1>7, <1>8, <1>9, <1>10, <1>11, <1>12, <1>13, ShapeSteps
     DEF ParseDoWhileStatement, Reads, At, Eat, EatAs
<1>18. CASE Top.at = "Do.end"
  BY <1>1, <1>2, <1>18, <1>6, <1>7, <1>8, <1>9, <1>10, <1>11, <1>12, <1>13, ShapeSteps
     DEF ParseDoWhileStatement, Reads, At, Eat, EatAs
<1> QED
  BY <1>1, <1>14, <1>15, <1>16, <1>17, <1>18

LEMMA ParametersShapes ==
  ASSUME Typed, Flow, Shapes, ParseParameterList
  PROVE  Shapes'
<1> DEFINE Mine == {"Parameters", "Parameters.first", "Parameters.name", "Parameters.next"}
<1>1. status = "running" /\ Top.at \in Mine
  BY DEF ParseParameterList, At
<1>2. \A label \in Mine : Sites(label) = {"Function.body", "Method.body"} /\ label \notin
          Entry
  BY SitesTable DEF Entry, ForLabels, RhsLabels, FunctionLabels
<1> PICK seen : seen = Words'
  OBVIOUS
<1>3. ASSUME Reads, Top.at = "Parameters.first"
      PROVE  AllValues(mem, seen)
  <2>1. Owns("Parameters.first", mem, seen) /\ Gets("Parameters.first", ret, peek, seen)
    BY <1>1, <1>3, ShapeSteps
  <2>2. AllValues(mem, seen)
    BY <2>1, Needs DEF ListLabels
  <2> QED
    BY <2>2
<1>4. ASSUME Reads, Top.at = "Parameters.name"
      PROVE  AllValues(mem, seen)
  <2>1. Owns("Parameters.name", mem, seen) /\ Gets("Parameters.name", ret, peek, seen)
    BY <1>1, <1>4, ShapeSteps
  <2>2. AllValues(mem, seen)
    BY <2>1, Needs DEF ListLabels
  <2> QED
    BY <2>2
<1>5. ASSUME Reads, Top.at = "Parameters.next"
      PROVE  AllValues(mem, seen)
  <2>1. Owns("Parameters.next", mem, seen) /\ Gets("Parameters.next", ret, peek, seen)
    BY <1>1, <1>5, ShapeSteps
  <2>2. AllValues(mem, seen)
    BY <2>1, Needs DEF ListLabels
  <2> QED
    BY <2>2
<1>6. /\ Gets("Parameters.first", ret, peek', seen)
      /\ Gets("Parameters.name", ret, peek', seen)
      /\ Gets("Parameters.next", ret, peek', seen)
  BY Asks DEF Unasking
<1>7. /\ \A s : AllValues(s, seen) => Owns("Parameters.first", s, seen)
      /\ \A s : AllValues(s, seen) => Owns("Parameters.name", s, seen)
      /\ \A s : AllValues(s, seen) => Owns("Parameters.next", s, seen)
  BY Needs DEF ListLabels
<1>8. ASSUME NEW value, Tree(value, seen), NEW label \in Sites(Top.at)
      PROVE  Gets(label, value, peek', seen)
  BY <1>1, <1>2, <1>8, Asks DEF SignatureSites
<1>9. /\ AllValues(<<>>, seen)
      /\ \A s : AllValues(s, seen) => Tree(Node("parameters", "", s), seen)
      /\ \A s, i : AllValues(s, seen) => AllValues(Append(s, Leaf(i)), seen)
  BY ListsOfValues, OneMoreValue, NodesAre, SmallNodes, LeavesAreWhole, Asks
<1> QED
  BY <1>1, <1>2, <1>3, <1>4, <1>5, <1>6, <1>7, <1>8, <1>9, ShapeSteps
     DEF ParseParameterList, Reads, At, Eat, EatAs

LEMMA FunctionShapes ==
  ASSUME Typed, Flow, Shapes, ParseFunctionStatement
  PROVE  Shapes'
<1> DEFINE Mine == {"Function", "Function.name", "Function.body", "Function.end"}
<1>1. status = "running" /\ Top.at \in Mine
  BY DEF ParseFunctionStatement, At
<1>2. \A label \in Mine : Sites(label) = StatementSites \union {"Member.first"} /\ label
          \notin Entry
  BY SitesTable DEF Entry, ForLabels, RhsLabels, FunctionLabels
<1> PICK seen : seen = Words'
  OBVIOUS
<1>3. ASSUME Reads, Top.at = "Function.body"
      PROVE  /\ AllValues(mem, seen)
             /\ Tree(ret, seen)
             /\ Owns("Function.end", Append(mem, ret), seen)
  <2>1. Owns("Function.body", mem, seen) /\ Gets("Function.body", ret, peek, seen)
    BY <1>1, <1>3, ShapeSteps
  <2>2. AllValues(mem, seen)
    BY <2>1, Needs DEF ListLabels
  <2>3. Tree(ret, seen)
    BY <2>1, Asks DEF SignatureSites
  <2>4. Owns("Function.end", Append(mem, ret), seen)
    BY <2>2, <2>3, Signatures
  <2> QED
    BY <2>2, <2>3, <2>4
<1>4. ASSUME Reads, Top.at = "Function.end"
      PROVE  /\ Signature(mem, seen)
             /\ Sealed(ret, peek, seen)
             /\ Whole(Node("function", "", Append(mem, ret)), seen)
  <2>1. Owns("Function.end", mem, seen) /\ Gets("Function.end", ret, peek, seen)
    BY <1>1, <1>4, ShapeSteps
  <2>2. Signature(mem, seen)
    BY <2>1, SpecialNeeds DEF SignatureLabels
  <2>3. Sealed(ret, peek, seen)
    BY <2>1, Asks DEF StatementSites
  <2>4. Whole(Node("function", "", Append(mem, ret)), seen)
    BY <2>2, <2>3, FunctionNodes, Asks
  <2> QED
    BY <2>2, <2>3, <2>4
<1>5. /\ Owns("Parameters", <<>>, seen) /\ Gets("Parameters", ret, peek', seen)
      /\ Owns("Statement", <<>>, seen) /\ Gets("Statement", ret, peek', seen)
  BY Needs, Asks DEF Unowning, Unasking
<1>6. \A s : Owns("Function.name", s, seen)
  BY Needs DEF Unowning
<1>7. Gets("Function.name", ret, peek', seen)
  BY Asks DEF Unasking
<1>8. \A s : AllValues(s, seen) => Owns("Function.body", s, seen)
  BY Needs DEF ListLabels
<1>9. ASSUME NEW value, Whole(value, seen), NEW label \in Sites(Top.at)
      PROVE  Gets(label, value, peek', seen)
  BY <1>1, <1>2, <1>9, Asks DEF WholeSites, CommaSites
<1>10. /\ AllValues(<<>>, seen)
      /\ \A i : AllValues(<<Leaf(i)>>, seen)
  BY ListsOfValues, OneMoreValue, NodesAre, SmallNodes, LeavesAreWhole, Asks
<1> QED
  BY <1>1, <1>2, <1>3, <1>4, <1>5, <1>6, <1>7, <1>8, <1>9, <1>10, ShapeSteps
     DEF ParseFunctionStatement, Reads, At

LEMMA BlockShapes ==
  ASSUME Typed, Flow, Shapes, ParseBlockStatement
  PROVE  Shapes'
<1> DEFINE Mine == {"Block", "Block.next", "Block.statement"}
<1>1. status = "running" /\ Top.at \in Mine
  BY DEF ParseBlockStatement, At
<1>2. \A label \in Mine : Sites(label) = BlockSites /\ label \notin Entry
  BY SitesTable DEF Entry, ForLabels, RhsLabels, FunctionLabels
<1> PICK seen : seen = Words'
  OBVIOUS
<1>3. ASSUME Reads, Top.at = "Block.next"
      PROVE  AllValues(mem, seen)
  <2>1. Owns("Block.next", mem, seen) /\ Gets("Block.next", ret, peek, seen)
    BY <1>1, <1>3, ShapeSteps
  <2>2. AllValues(mem, seen)
    BY <2>1, Needs DEF ListLabels
  <2> QED
    BY <2>2
<1>4. ASSUME Reads, Top.at = "Block.statement"
      PROVE  /\ AllValues(mem, seen)
             /\ Sealed(ret, peek, seen)
             /\ Value(ret, seen)
  <2>1. Owns("Block.statement", mem, seen) /\ Gets("Block.statement", ret, peek, seen)
    BY <1>1, <1>4, ShapeSteps
  <2>2. AllValues(mem, seen)
    BY <2>1, Needs DEF ListLabels
  <2>3. Sealed(ret, peek, seen)
    BY <2>1, Asks DEF StatementSites
  <2>4. Value(ret, seen)
    BY <2>2, <2>3, Asks
  <2> QED
    BY <2>2, <2>3, <2>4
<1>5. Owns("Statement", <<>>, seen) /\ Gets("Statement", ret, peek', seen)
  BY Needs, Asks DEF Unowning, Unasking
<1>6. Gets("Block.next", ret, peek', seen)
  BY Asks DEF Unasking
<1>7. /\ \A s : AllValues(s, seen) => Owns("Block.next", s, seen)
      /\ \A s : AllValues(s, seen) => Owns("Block.statement", s, seen)
  BY Needs DEF ListLabels
<1>8. ASSUME NEW value, Whole(value, seen), NEW label \in Sites(Top.at)
      PROVE  Gets(label, value, peek', seen)
  BY <1>1, <1>2, <1>8, Asks DEF BlockSites, WholeSites
<1>9. /\ AllValues(<<>>, seen)
      /\ \A s : AllValues(s, seen) => Whole(Node("block", "", s), seen)
      /\ \A s, n : AllValues(s, seen) /\ Value(n, seen) => AllValues(Append(s, n), seen)
  BY ListsOfValues, OneMoreValue, NodesAre, SmallNodes, LeavesAreWhole, Asks
<1> QED
  BY <1>1, <1>2, <1>3, <1>4, <1>5, <1>6, <1>7, <1>8, <1>9, ShapeSteps
     DEF ParseBlockStatement, Reads, At, Open

-----------------------------------------------------------------------------
(* Clauses, and the parts of a switch and of a try.                        *)

LEMMA CaseLocals ==
  ASSUME NEW seen, NEW label \in CaseLabels, NEW a, NEW b, AllValues(a, seen), AllValues(b, seen)
  PROVE  Owns(label, <<a, b>>, seen)
<1> DEFINE s == <<a, b>>
<1>1. Len(s) = 2 /\ s[1] = a /\ s[2] = b
  OBVIOUS
<1> HIDE DEF s
<1>2. Owns(label, s, seen)
  BY <1>1, SpecialNeeds
<1> QED
  BY <1>2 DEF s

LEMMA ClauseLocals ==
  ASSUME NEW seen, "SWITCH" \in seen, NEW label \in ClauseLabels, NEW a, NEW b, NEW c,
         Value(a, seen), AllValues(b, seen), Value(c, seen)
  PROVE  Owns(label, <<a, b, c>>, seen)
<1> DEFINE s == <<a, b, c>>
<1>1. Len(s) = 3 /\ s[1] = a /\ s[2] = b /\ s[3] = c
  OBVIOUS
<1> HIDE DEF s
<1>2. Owns(label, s, seen)
  BY <1>1, SpecialNeeds
<1> QED
  BY <1>2 DEF s

LEMMA FromFunction ==
  ASSUME NEW m \in Nat, NEW S, NEW f \in [1..m -> S]
  PROVE  IsSequence(f) /\ Len(f) = m
<1>1. f \in Seq(S)
  OBVIOUS
<1>2. Len(f) = m
  OBVIOUS
<1> QED
  BY <1>1, <1>2, OwnElements

LEMMA ClauseNodes ==
  ASSUME NEW seen, NEW expr, NEW statements, Value(expr, seen), AllValues(statements, seen)
  PROVE  Value(Node("case", "", <<expr, Node("block", "", statements)>>), seen)
<1> PICK block : block = Node("block", "", statements)
  OBVIOUS
<1>1. Value(block, seen)
  <2>1. Whole(Node("block", "", statements), seen)
    BY NodesAre
  <2> QED
    BY <2>1, Asks
<1>2. Whole(Node("case", "", <<expr, block>>), seen)
  BY <1>1, SmallNodes
<1> QED
  BY <1>2, Asks

(* The clauses of a case are no parts outside of a switch.                 *)
LEMMA ClausesAreValues ==
  ASSUME NEW seen, NEW n, Tree(n, seen), n.kind = "clauses"
  PROVE  AllValues(n.kids, seen)
<1>1. Shape(n, seen) /\ \A i \in 1..Len(n.kids) : Tree(n.kids[i], seen)
  BY TreeIs
<1>2. \A i : ~MayHavePart(n, i)
  BY DEF MayHavePart
<1> QED
  BY <1>1, <1>2 DEF Shape, AllValues, Value

LEMMA SwitchNodes ==
  ASSUME NEW seen, "SWITCH" \in seen, NEW a, NEW b, NEW c,
         Value(a, seen), AllValues(b, seen), Value(c, seen)
  PROVE  Whole(Node("switch", "", <<a>> \o b \o <<c>>), seen)
<1> DEFINE s == <<a>>
           t == <<c>>
<1>1. AllValues(s, seen) /\ AllValues(t, seen) /\ Len(s) = 1 /\ Len(t) = 1
  BY ListsOfValues, Tuples
<1> HIDE DEF s, t
<1> DEFINE u == s \o b
<1>2. AllValues(u, seen)
  BY <1>1, JoinedValues
<1>3. Len(u) = Len(s) + Len(b) /\ Len(b) \in Nat
  BY <1>1, Concatenated DEF AllValues
<1> HIDE DEF u
<1> DEFINE kids == u \o t
<1>4. AllValues(kids, seen)
  BY <1>1, <1>2, JoinedValues
<1>5. Len(kids) = Len(u) + Len(t)
  BY <1>1, <1>2, Concatenated DEF AllValues
<1> HIDE DEF kids
<1>6. Len(kids) >= 2
  BY <1>1, <1>3, <1>5
<1>7. Whole(Node("switch", "", kids), seen)
  BY <1>4, <1>6, NodesAre
<1> QED
  BY <1>7 DEF kids, u, s, t

LEMMA SwitchLocals ==
  ASSUME NEW seen, NEW s, Owns("Switch.brace", s, seen)
  PROVE  Owns("Switch.clause", s \o << <<>>, Null >>, seen)
<1> DEFINE t == << <<>>, Null >>
<1>1. AllValues(s, seen) /\ IsSequence(s) /\ Len(s) = 1 /\ "SWITCH" \in seen
  BY Needs DEF AllValues
<1>2. IsSequence(t) /\ Len(t) = 2 /\ t[1] = <<>> /\ t[2] = Null
  BY Tuples
<1> HIDE DEF t
<1>9. IsSequence(s) /\ IsSequence(t)
  BY <1>1, <1>2
<1> DEFINE u == s \o t
<1>3. /\ Len(u) = Len(s) + Len(t)
      /\ \A i \in 1..Len(s) : u[i] = s[i]
      /\ \A i \in 1..Len(t) : u[Len(s) + i] = t[i]
  BY <1>9, Concatenated
<1> HIDE DEF u
<1>4. Len(u) = 3 /\ u[1] = s[1] /\ u[2] = <<>> /\ u[3] = Null
  <2>1. 1 \in 1..1 /\ 1 \in 1..2 /\ 2 \in 1..2 /\ 1 + 1 = 2 /\ 1 + 2 = 3
    OBVIOUS
  <2> QED
    BY <1>1, <1>2, <1>3, <2>1
<1>5. Value(s[1], seen) /\ AllValues(<<>>, seen) /\ Value(Null, seen)
  <2>1. Value(s[1], seen)
    BY <1>1 DEF AllValues
  <2>2. AllValues(<<>>, seen)
    BY ListsOfValues
  <2>3. Value(Null, seen)
    BY LeavesAreWhole, Asks
  <2> QED
    BY <2>1, <2>2, <2>3
<1>6. Owns("Switch.clause", u, seen)
  BY <1>1, <1>4, <1>5, SpecialNeeds DEF ClauseLabels
<1> QED
  BY <1>6 DEF u, t

LEMMA TryParts ==
  ASSUME NEW seen, NEW s, AllValues(s, seen), NEW n, Value(n, seen)
  PROVE  /\ Len(s) = 2 => Owns("Try.finally", Append(s, n), seen)
         /\ Len(s) = 3 => Whole(Node("try", "", Append(s, n)), seen)
<1> DEFINE t == Append(s, n)
<1>1. /\ AllValues(t, seen)
      /\ Len(s) = 2 => Len(t) = 3
      /\ Len(s) = 3 => Len(t) = 4
  BY Pieces
<1> HIDE DEF t
<1>2. Len(s) = 2 => Owns("Try.finally", t, seen)
  BY <1>1, Needs DEF ThreeLabels
<1>3. Len(s) = 3 => Whole(Node("try", "", t), seen)
  <2>1. Len(t) = 4 => Len(t) >= 4
    OBVIOUS
  <2> QED
    BY <1>1, <2>1, NodesAre
<1> QED
  BY <1>2, <1>3 DEF t

LEMMA TryWithoutCatch ==
  ASSUME NEW seen, NEW n, Value(n, seen)
  PROVE  Owns("Try.finally", <<n, Null, Null>>, seen)
<1> DEFINE t == <<n, Null, Null>>
<1>1. Value(Null, seen)
  BY LeavesAreWhole, Asks
<1>2. AllValues(t, seen)
  BY <1>1, ListsOfValues
<1>3. Len(t) = 3
  OBVIOUS
<1> HIDE DEF t
<1>4. Owns("Try.finally", t, seen)
  BY <1>2, <1>3, Needs DEF ThreeLabels
<1> QED
  BY <1>4 DEF t

LEMMA BraceLocals ==
  ASSUME NEW seen, "SWITCH" \in seen, NEW n, Whole(n, seen)
  PROVE  Owns("Switch.brace", <<n>>, seen)
<1> DEFINE s == <<n>>
<1>1. AllValues(s, seen) /\ Len(s) = 1
  BY ListsOfValues, Asks, Tuples
<1> HIDE DEF s
<1>2. Owns("Switch.brace", s, seen)
  BY <1>1, Needs
<1> QED
  BY <1>2 DEF s

LEMMA ReturnShape ==
  ASSUME Typed, Flow, Shapes, ParseReturnStatement
  PROVE  Shapes'
<1> DEFINE Mine == {"Return", "Return.value", "Return.end"}
<1>1. status = "running" /\ Top.at \in Mine
  BY DEF ParseReturnStatement, At
<1>2. \A label \in Mine : Sites(label) = StatementSites /\ label \notin Entry
  BY SitesTable DEF Entry, ForLabels, RhsLabels, FunctionLabels
<1> PICK seen : seen = Words'
  OBVIOUS
<1>3. ASSUME Reads, Top.at = "Return.end"
      PROVE  Whole(ret, seen)
  <2>1. Owns("Return.end", mem, seen) /\ Gets("Return.end", ret, peek, seen)
    BY <1>1, <1>3, ShapeSteps
  <2>2. Whole(ret, seen)
    BY <2>1, Asks DEF WholeSites, CommaSites
  <2> QED
    BY <2>2
<1>4. Owns("Comma", <<>>, seen) /\ Gets("Comma", ret, peek', seen)
  BY Needs, Asks DEF Unowning, Unasking
<1>5. /\ \A s : Owns("Return.value", s, seen)
      /\ \A s : Owns("Return.end", s, seen)
  BY Needs DEF Unowning
<1>6. Gets("Return.value", ret, peek', seen)
  BY Asks DEF Unasking
<1>7. ASSUME NEW value, Whole(value, seen), NEW label \in Sites(Top.at)
      PROVE  Gets(label, value, peek', seen)
  BY <1>1, <1>2, <1>7, Asks
<1>8. /\ Whole(Node("return", "", <<>>), seen)
      /\ \A n : Whole(n, seen) => Whole(Node("return", "", <<n>>), seen)
  BY ListsOfValues, OneMoreValue, NodesAre, SmallNodes, LeavesAreWhole, Asks
<1> QED
  BY <1>1, <1>2, <1>3, <1>4, <1>5, <1>6, <1>7, <1>8, ShapeSteps
     DEF ParseReturnStatement, Reads, At, Eat, EatAs

LEMMA DeclarationShapes ==
  ASSUME Typed, Flow, Shapes, ParseDeclaration
  PROVE  Shapes'
<1> DEFINE Mine == {"Declaration", "Declaration.name", "Declaration.value"}
<1>1. status = "running" /\ Top.at \in Mine
  BY DEF ParseDeclaration, At
<1>2. \A label \in Mine : Sites(label) = {"Variable.next"} /\ label \notin Entry
  BY SitesTable DEF Entry, ForLabels, RhsLabels, FunctionLabels
<1> PICK seen : seen = Words'
  OBVIOUS
<1>3. ASSUME Reads, Top.at = "Declaration.name"
      PROVE  AllValues(mem, seen) /\ Len(mem) >= 1
  <2>1. Owns("Declaration.name", mem, seen) /\ Gets("Declaration.name", ret, peek, seen)
    BY <1>1, <1>3, ShapeSteps
  <2>2. AllValues(mem, seen) /\ Len(mem) >= 1
    BY <2>1, AtLeastOne DEF OneLabels, SoloLabels
  <2> QED
    BY <2>2
<1>4. ASSUME Reads, Top.at = "Declaration.value"
      PROVE  /\ AllValues(mem, seen) /\ Len(mem) >= 1
             /\ Whole(ret, seen)
             /\ Len(Append(mem, ret)) >= 1
  <2>1. Owns("Declaration.value", mem, seen) /\ Gets("Declaration.value", ret, peek, seen)
    BY <1>1, <1>4, ShapeSteps
  <2>2. AllValues(mem, seen) /\ Len(mem) >= 1
    BY <2>1, AtLeastOne DEF OneLabels, SoloLabels
  <2>3. Whole(ret, seen)
    BY <2>1, Asks DEF WholeSites, AssignSites
  <2>4. Len(Append(mem, ret)) >= 1
    BY <2>2, <2>3, Pieces, Asks
  <2> QED
    BY <2>2, <2>3, <2>4
<1>5. Owns("Assign", <<>>, seen) /\ Gets("Assign", ret, peek', seen)
  BY Needs, Asks DEF Unowning, Unasking
<1>6. Gets("Declaration.name", ret, peek', seen)
  BY Asks DEF Unasking
<1>7. \A s : AllValues(s, seen) /\ Len(s) >= 1 => Owns("Declaration.value", s, seen)
  BY EnoughLocals DEF OneLabels, SoloLabels
<1>8. \A i : Owns("Declaration.name", <<Leaf(i)>>, seen)
  BY Singles, LeavesAreWhole, Asks DEF OneLabels
<1>9. ASSUME NEW value, Whole(value, seen), NEW label \in Sites(Top.at)
      PROVE  Gets(label, value, peek', seen)
  BY <1>1, <1>2, <1>9, Asks DEF WholeSites
<1>10. /\ \A s, n : AllValues(s, seen) /\ Whole(n, seen) => AllValues(Append(s, n), seen)
      /\ \A s : AllValues(s, seen) /\ Len(s) >= 1 => Whole(Node("declaration", "", s), seen)
  BY ListsOfValues, OneMoreValue, NodesAre, SmallNodes, LeavesAreWhole, Asks
<1>11. CASE Top.at = "Declaration"
  BY <1>1, <1>2, <1>11, <1>5, <1>6, <1>7, <1>8, <1>9, <1>10, ShapeSteps
     DEF ParseDeclaration, Reads, At, Eat, EatAs
<1>12. CASE Top.at = "Declaration.name"
  BY <1>1, <1>2, <1>12, <1>3, <1>5, <1>6, <1>7, <1>8, <1>9, <1>10, ShapeSteps
     DEF ParseDeclaration, Reads, At, Eat, EatAs
<1>13. CASE Top.at = "Declaration.value"
  BY <1>1, <1>2, <1>13, <1>4, <1>5, <1>6, <1>7, <1>8, <1>9, <1>10, ShapeSteps
     DEF ParseDeclaration, Reads, At, Eat, EatAs
<1> QED
  BY <1>1, <1>11, <1>12, <1>13

LEMMA VariableShapes ==
  ASSUME Typed, Flow, Shapes, ParseVariableStatement
  PROVE  Shapes'
<1> DEFINE Mine == {"Variable", "Variable.next"}
<1>1. status = "running" /\ Top.at \in Mine
  BY DEF ParseVariableStatement, At
<1>2. \A label \in Mine : Sites(label) = StatementSites \union {"For.head"} /\ label \notin
          Entry
  BY SitesTable DEF Entry, ForLabels, RhsLabels, FunctionLabels
<1> PICK seen : seen = Words'
  OBVIOUS
<1>3. ASSUME Reads, Top.at = "Variable.next"
      PROVE  /\ AllValues(mem, seen)
             /\ Whole(ret, seen)
  <2>1. Owns("Variable.next", mem, seen) /\ Gets("Variable.next", ret, peek, seen)
    BY <1>1, <1>3, ShapeSteps
  <2>2. AllValues(mem, seen)
    BY <2>1, Needs DEF ListLabels
  <2>3. Whole(ret, seen)
    BY <2>1, Asks DEF WholeSites
  <2> QED
    BY <2>2, <2>3
<1>4. Owns("Declaration", <<>>, seen) /\ Gets("Declaration", ret, peek', seen)
  BY Needs, Asks DEF Unowning, Unasking
<1>5. \A s : AllValues(s, seen) => Owns("Variable.next", s, seen)
  BY Needs DEF ListLabels
<1>6. ASSUME NEW value, Whole(value, seen), NEW label \in Sites(Top.at)
      PROVE  Gets(label, value, peek', seen)
  BY <1>1, <1>2, <1>6, Asks DEF WholeSites, CommaSites
<1>7. /\ AllValues(<<>>, seen)
      /\ \A s, n : AllValues(s, seen) /\ Whole(n, seen) => AllValues(Append(s, n), seen)
      /\ \A s : AllValues(s, seen) => Whole(Node("var", "", s), seen)
  BY ListsOfValues, OneMoreValue, NodesAre, SmallNodes, LeavesAreWhole, Asks
<1> QED
  BY <1>1, <1>2, <1>3, <1>4, <1>5, <1>6, <1>7, ShapeSteps
     DEF ParseVariableStatement, Reads, At, Eat, EatAs

LEMMA CaseShapes ==
  ASSUME Typed, Flow, Shapes, ParseCaseBlock
  PROVE  Shapes'
<1> DEFINE Mine == {"Case", "Case.first", "Case.do", "Case.colon", "Case.statement",
                  "Case.while"}
<1>1. status = "running" /\ Top.at \in Mine
  BY DEF ParseCaseBlock, At
<1>2. \A label \in Mine : Sites(label) = {"Switch.case"} /\ label \notin Entry
  BY SitesTable DEF Entry, ForLabels, RhsLabels, FunctionLabels
<1> PICK seen : seen = Words'
  OBVIOUS
<1>3. ASSUME Reads, Top.at = "Case.first"
      PROVE  /\ Len(mem) = 2 /\ AllValues(mem[1], seen) /\ AllValues(mem[2], seen)
             /\ Whole(ret, seen)
             /\ Value(ret, seen)
  <2>1. Owns("Case.first", mem, seen) /\ Gets("Case.first", ret, peek, seen)
    BY <1>1, <1>3, ShapeSteps
  <2>2. Len(mem) = 2 /\ AllValues(mem[1], seen) /\ AllValues(mem[2], seen)
    BY <2>1, SpecialNeeds DEF CaseLabels
  <2>3. Whole(ret, seen)
    BY <2>1, Asks DEF WholeSites, AssignSites
  <2>4. Value(ret, seen)
    BY <2>2, <2>3, Asks
  <2> QED
    BY <2>2, <2>3, <2>4
<1>4. ASSUME Reads, Top.at = "Case.do"
      PROVE  /\ Len(mem) = 2 /\ AllValues(mem[1], seen) /\ AllValues(mem[2], seen)
             /\ Owns("Case.colon", mem, seen) /\ Owns("Case.statement", mem, seen)
  <2>1. Owns("Case.do", mem, seen) /\ Gets("Case.do", ret, peek, seen)
    BY <1>1, <1>4, ShapeSteps
  <2>2. Len(mem) = 2 /\ AllValues(mem[1], seen) /\ AllValues(mem[2], seen)
    BY <2>1, SpecialNeeds DEF CaseLabels
  <2>3. Owns("Case.colon", mem, seen) /\ Owns("Case.statement", mem, seen)
    BY <2>2, SpecialNeeds DEF CaseLabels
  <2> QED
    BY <2>2, <2>3
<1>5. ASSUME Reads, Top.at = "Case.colon"
      PROVE  /\ Len(mem) = 2 /\ AllValues(mem[1], seen) /\ AllValues(mem[2], seen)
             /\ Whole(ret, seen)
             /\ Value(ret, seen)
  <2>1. Owns("Case.colon", mem, seen) /\ Gets("Case.colon", ret, peek, seen)
    BY <1>1, <1>5, ShapeSteps
  <2>2. Len(mem) = 2 /\ AllValues(mem[1], seen) /\ AllValues(mem[2], seen)
    BY <2>1, SpecialNeeds DEF CaseLabels
  <2>3. Whole(ret, seen)
    BY <2>1, Asks DEF WholeSites, AssignSites
  <2>4. Value(ret, seen)
    BY <2>2, <2>3, Asks
  <2> QED
    BY <2>2, <2>3, <2>4
<1>6. ASSUME Reads, Top.at = "Case.statement"
      PROVE  /\ Len(mem) = 2 /\ AllValues(mem[1], seen) /\ AllValues(mem[2], seen)
             /\ Sealed(ret, peek, seen)
             /\ Value(ret, seen)
  <2>1. Owns("Case.statement", mem, seen) /\ Gets("Case.statement", ret, peek, seen)
    BY <1>1, <1>6, ShapeSteps
  <2>2. Len(mem) = 2 /\ AllValues(mem[1], seen) /\ AllValues(mem[2], seen)
    BY <2>1, SpecialNeeds DEF CaseLabels
  <2>3. Sealed(ret, peek, seen)
    BY <2>1, Asks DEF StatementSites
  <2>4. Value(ret, seen)
    BY <2>2, <2>3, Asks
  <2> QED
    BY <2>2, <2>3, <2>4
<1>7. ASSUME Reads, Top.at = "Case.while"
      PROVE  /\ Len(mem) = 2 /\ AllValues(mem[1], seen) /\ AllValues(mem[2], seen)
             /\ Owns("Case.do", mem, seen)
  <2>1. Owns("Case.while", mem, seen) /\ Gets("Case.while", ret, peek, seen)
    BY <1>1, <1>7, ShapeSteps
  <2>2. Len(mem) = 2 /\ AllValues(mem[1], seen) /\ AllValues(mem[2], seen)
    BY <2>1, SpecialNeeds DEF CaseLabels
  <2>3. Owns("Case.do", mem, seen)
    BY <2>2, SpecialNeeds DEF CaseLabels
  <2> QED
    BY <2>2, <2>3
<1>8. /\ Owns("Assign", <<>>, seen) /\ Gets("Assign", ret, peek', seen)
      /\ Owns("Statement", <<>>, seen) /\ Gets("Statement", ret, peek', seen)
  BY Needs, Asks DEF Unowning, Unasking
<1>9. /\ Gets("Case.do", ret, peek', seen)
      /\ Gets("Case.while", ret, peek', seen)
  BY Asks DEF Unasking
<1>10. Owns("Case.first", << <<>>, <<>> >>, seen)
  BY CaseLocals, ListsOfValues DEF CaseLabels
<1>11. \A a, b : AllValues(a, seen) /\ AllValues(b, seen) =>
        Owns("Case.do", <<a, b>>, seen) /\ Owns("Case.while", <<a, b>>, seen)
  BY CaseLocals DEF CaseLabels
<1>12. ASSUME NEW value, Tree(value, seen), value.kind = "clauses", NEW label \in Sites(Top.at)
      PROVE  Gets(label, value, peek', seen)
  BY <1>1, <1>2, <1>12, Asks
<1>13. \A s, n : AllValues(s, seen) /\ Value(n, seen) => AllValues(Append(s, n), seen)
  BY ListsOfValues, OneMoreValue, NodesAre, SmallNodes, LeavesAreWhole, Asks
<1>14. ASSUME NEW n, Reads, Top.at = "Case.while",
             n = Node("clauses", "", [i \in 1..Len(mem[1]) |->
                   Node("case", "", <<mem[1][i], Node("block", "", mem[2])>>)])
      PROVE  Tree(n, seen) /\ n.kind = "clauses"
  <2> PICK exprs, statements : exprs = mem[1] /\ statements = mem[2]
    OBVIOUS
  <2>1. AllValues(exprs, seen) /\ AllValues(statements, seen)
    BY <1>7, <1>14
  <2>2. ASSUME NEW i \in 1..Len(exprs)
        PROVE  Value(Node("case", "", <<exprs[i], Node("block", "", statements)>>), seen)
    <3> PICK expr : expr = exprs[i]
      OBVIOUS
    <3>1. Value(expr, seen)
      BY <2>1 DEF AllValues
    <3> QED
      BY <2>1, <3>1, ClauseNodes
  <2> DEFINE kids == [i \in 1..Len(exprs) |->
                       Node("case", "", <<exprs[i], Node("block", "", statements)>>)]
  <2>3. \A i \in 1..Len(exprs) : Value(kids[i], seen)
    BY <2>2
  <2> PICK S : S = {kids[i] : i \in 1..Len(exprs)}
    OBVIOUS
  <2>4. Len(exprs) \in Nat
    BY <2>1, Pieces
  <2>5. kids \in [1..Len(exprs) -> S]
    BY <2>4
  <2>6. n = Node("clauses", "", kids)
    BY <1>14
  <2> HIDE DEF kids
  <2>7. IsSequence(kids) /\ Len(kids) = Len(exprs)
    BY <2>4, <2>5, FromFunction
  <2>8. AllValues(kids, seen)
    BY <2>3, <2>7 DEF AllValues
  <2>9. Tree(Node("clauses", "", kids), seen) /\ Node("clauses", "", kids).kind = "clauses"
    BY <2>8, NodesAre DEF Node
  <2> QED
    BY <2>6, <2>9
<1>15. CASE Top.at = "Case"
  BY <1>1, <1>2, <1>15, <1>8, <1>9, <1>10, <1>11, <1>12, <1>13, <1>14, ShapeSteps
     DEF ParseCaseBlock, Reads, At, Eat, EatAs
<1>16. CASE Top.at = "Case.first"
  BY <1>1, <1>2, <1>16, <1>3, <1>8, <1>9, <1>10, <1>11, <1>12, <1>13, <1>14, ShapeSteps
     DEF ParseCaseBlock, Reads, At, Eat, EatAs
<1>17. CASE Top.at = "Case.do"
  BY <1>1, <1>2, <1>17, <1>4, <1>8, <1>9, <1>10, <1>11, <1>12, <1>13, <1>14, ShapeSteps
     DEF ParseCaseBlock, Reads, At, Eat, EatAs
<1>18. CASE Top.at = "Case.colon"
  BY <1>1, <1>2, <1>18, <1>5, <1>8, <1>9, <1>10, <1>11, <1>12, <1>13, <1>14, ShapeSteps
     DEF ParseCaseBlock, Reads, At, Eat, EatAs
<1>19. CASE Top.at = "Case.statement"
  BY <1>1, <1>2, <1>19, <1>6, <1>8, <1>9, <1>10, <1>11, <1>12, <1>13, <1>14, ShapeSteps
     DEF ParseCaseBlock, Reads, At, Eat, EatAs
<1>20. CASE Top.at = "Case.while"
  BY <1>1, <1>2, <1>20, <1>7, <1>8, <1>9, <1>10, <1>11, <1>12, <1>13, <1>14, ShapeSteps
     DEF ParseCaseBlock, Reads, At, Eat, EatAs
<1> QED
  BY <1>1, <1>15, <1>16, <1>17, <1>18, <1>19, <1>20

LEMMA DefaultShapes ==
  ASSUME Typed, Flow, Shapes, ParseDefaultClause
  PROVE  Shapes'
<1> DEFINE Mine == {"Default", "Default.colon", "Default.while"}
<1>1. status = "running" /\ Top.at \in Mine
  BY DEF ParseDefaultClause, At
<1>2. \A label \in Mine : Sites(label) = {"Switch.default"} /\ label \notin Entry
  BY SitesTable DEF Entry, ForLabels, RhsLabels, FunctionLabels
<1> PICK seen : seen = Words'
  OBVIOUS
<1>3. ASSUME Reads, Top.at = "Default.while"
      PROVE  /\ AllValues(mem, seen)
             /\ Sealed(ret, peek, seen)
             /\ Value(ret, seen)
  <2>1. Owns("Default.while", mem, seen) /\ Gets("Default.while", ret, peek, seen)
    BY <1>1, <1>3, ShapeSteps
  <2>2. AllValues(mem, seen)
    BY <2>1, Needs DEF ListLabels
  <2>3. Sealed(ret, peek, seen)
    BY <2>1, Asks DEF StatementSites
  <2>4. Value(ret, seen)
    BY <2>2, <2>3, Asks
  <2> QED
    BY <2>2, <2>3, <2>4
<1>4. Owns("Statement", <<>>, seen) /\ Gets("Statement", ret, peek', seen)
  BY Needs, Asks DEF Unowning, Unasking
<1>5. \A s : Owns("Default.colon", s, seen)
  BY Needs DEF Unowning
<1>6. Gets("Default.colon", ret, peek', seen)
  BY Asks DEF Unasking
<1>7. \A s : AllValues(s, seen) => Owns("Default.while", s, seen)
  BY Needs DEF ListLabels
<1>8. ASSUME NEW value, Whole(value, seen), NEW label \in Sites(Top.at)
      PROVE  Gets(label, value, peek', seen)
  BY <1>1, <1>2, <1>8, Asks DEF WholeSites
<1>9. /\ AllValues(<<>>, seen)
      /\ \A s, n : AllValues(s, seen) /\ Value(n, seen) => AllValues(Append(s, n), seen)
      /\ \A s : AllValues(s, seen) => Whole(Node("block", "", s), seen)
  BY ListsOfValues, OneMoreValue, NodesAre, SmallNodes, LeavesAreWhole, Asks
<1> QED
  BY <1>1, <1>2, <1>3, <1>4, <1>5, <1>6, <1>7, <1>8, <1>9, ShapeSteps
     DEF ParseDefaultClause, Reads, At, Eat, EatAs

LEMMA SwitchShapes ==
  ASSUME Typed, Flow, Shapes, ParseSwitchStatement
  PROVE  Shapes'
<1> DEFINE Mine == {"Switch", "Switch.open", "Switch.close", "Switch.brace",
                  "Switch.clause", "Switch.case", "Switch.default"}
<1>1. status = "running" /\ Top.at \in Mine
  BY DEF ParseSwitchStatement, At
<1>2. \A label \in Mine : Sites(label) = StatementSites /\ label \notin Entry
  BY SitesTable DEF Entry, ForLabels, RhsLabels, FunctionLabels
<1> PICK seen : seen = Words'
  OBVIOUS
<1>3. ASSUME Reads, Top.at = "Switch"
      PROVE  /\ "SWITCH" \in seen
             /\ Owns("Switch.open", <<>>, seen)
  <2>1. Owns("Switch", mem, seen) /\ Gets("Switch", ret, peek, seen)
    BY <1>1, <1>3, ShapeSteps
  <2>2. "SWITCH" \in seen
    BY <2>1, SpecialNeeds
  <2>3. Owns("Switch.open", <<>>, seen)
    BY <2>2, SpecialNeeds
  <2> QED
    BY <2>2, <2>3
<1>4. ASSUME Reads, Top.at = "Switch.open"
      PROVE  /\ "SWITCH" \in seen
             /\ Owns("Switch.close", <<>>, seen)
  <2>1. Owns("Switch.open", mem, seen) /\ Gets("Switch.open", ret, peek, seen)
    BY <1>1, <1>4, ShapeSteps
  <2>2. "SWITCH" \in seen
    BY <2>1, SpecialNeeds
  <2>3. Owns("Switch.close", <<>>, seen)
    BY <2>2, SpecialNeeds
  <2> QED
    BY <2>2, <2>3
<1>5. ASSUME Reads, Top.at = "Switch.close"
      PROVE  /\ "SWITCH" \in seen
             /\ Whole(ret, seen)
             /\ Owns("Switch.brace", <<ret>>, seen)
  <2>1. Owns("Switch.close", mem, seen) /\ Gets("Switch.close", ret, peek, seen)
    BY <1>1, <1>5, ShapeSteps
  <2>2. "SWITCH" \in seen
    BY <2>1, SpecialNeeds
  <2>3. Whole(ret, seen)
    BY <2>1, Asks DEF WholeSites, AssignSites
  <2>4. Owns("Switch.brace", <<ret>>, seen)
    BY <2>2, <2>3, BraceLocals
  <2> QED
    BY <2>2, <2>3, <2>4
<1>6. ASSUME Reads, Top.at = "Switch.brace"
      PROVE  /\ AllValues(mem, seen) /\ Len(mem) = 1 /\ "SWITCH" \in seen
             /\ Owns("Switch.clause", mem \o << <<>>, Null >>, seen)
  <2>1. Owns("Switch.brace", mem, seen) /\ Gets("Switch.brace", ret, peek, seen)
    BY <1>1, <1>6, ShapeSteps
  <2>2. AllValues(mem, seen) /\ Len(mem) = 1 /\ "SWITCH" \in seen
    BY <2>1, Needs
  <2>3. Owns("Switch.clause", mem \o << <<>>, Null >>, seen)
    BY <2>2, SwitchLocals, Needs
  <2> QED
    BY <2>2, <2>3
<1>7. ASSUME Reads, Top.at = "Switch.clause"
      PROVE  /\ /\ "SWITCH" \in seen /\ Len(mem) = 3 /\ Value(mem[1], seen)
          /\ AllValues(mem[2], seen) /\ Value(mem[3], seen)
             /\ Owns("Switch.case", mem, seen) /\ Owns("Switch.default", mem, seen)
             /\ Whole(Node("switch", "", <<mem[1]>> \o mem[2] \o <<mem[3]>>), seen)
  <2>1. Owns("Switch.clause", mem, seen) /\ Gets("Switch.clause", ret, peek, seen)
    BY <1>1, <1>7, ShapeSteps
  <2>2. /\ "SWITCH" \in seen /\ Len(mem) = 3 /\ Value(mem[1], seen)
          /\ AllValues(mem[2], seen) /\ Value(mem[3], seen)
    BY <2>1, SpecialNeeds DEF ClauseLabels
  <2>3. Owns("Switch.case", mem, seen) /\ Owns("Switch.default", mem, seen)
    BY <2>2, SpecialNeeds DEF ClauseLabels
  <2>4. Whole(Node("switch", "", <<mem[1]>> \o mem[2] \o <<mem[3]>>), seen)
    BY <2>2, <2>3, SwitchNodes
  <2> QED
    BY <2>2, <2>3, <2>4
<1>8. ASSUME Reads, Top.at = "Switch.case"
      PROVE  /\ /\ "SWITCH" \in seen /\ Len(mem) = 3 /\ Value(mem[1], seen)
          /\ AllValues(mem[2], seen) /\ Value(mem[3], seen)
             /\ Tree(ret, seen) /\ ret.kind = "clauses"
             /\ AllValues(ret.kids, seen)
             /\ AllValues(mem[2] \o ret.kids, seen)
             /\ Owns("Switch.clause", <<mem[1], mem[2] \o ret.kids, mem[3]>>, seen)
  <2>1. Owns("Switch.case", mem, seen) /\ Gets("Switch.case", ret, peek, seen)
    BY <1>1, <1>8, ShapeSteps
  <2>2. /\ "SWITCH" \in seen /\ Len(mem) = 3 /\ Value(mem[1], seen)
          /\ AllValues(mem[2], seen) /\ Value(mem[3], seen)
    BY <2>1, SpecialNeeds DEF ClauseLabels
  <2>3. Tree(ret, seen) /\ ret.kind = "clauses"
    BY <2>1, Asks
  <2>4. AllValues(ret.kids, seen)
    BY <2>2, <2>3, ClausesAreValues
  <2>5. AllValues(mem[2] \o ret.kids, seen)
    BY <2>2, <2>3, <2>4, JoinedValues
  <2>6. Owns("Switch.clause", <<mem[1], mem[2] \o ret.kids, mem[3]>>, seen)
    BY <2>2, <2>3, <2>4, <2>5, ClauseLocals DEF ClauseLabels
  <2> QED
    BY <2>2, <2>3, <2>4, <2>5, <2>6
<1>9. ASSUME Reads, Top.at = "Switch.default"
      PROVE  /\ /\ "SWITCH" \in seen /\ Len(mem) = 3 /\ Value(mem[1], seen)
          /\ AllValues(mem[2], seen) /\ Value(mem[3], seen)
             /\ Whole(ret, seen)
             /\ Value(ret, seen)
             /\ Owns("Switch.clause", <<mem[1], mem[2], ret>>, seen)
  <2>1. Owns("Switch.default", mem, seen) /\ Gets("Switch.default", ret, peek, seen)
    BY <1>1, <1>9, ShapeSteps
  <2>2. /\ "SWITCH" \in seen /\ Len(mem) = 3 /\ Value(mem[1], seen)
          /\ AllValues(mem[2], seen) /\ Value(mem[3], seen)
    BY <2>1, SpecialNeeds DEF ClauseLabels
  <2>3. Whole(ret, seen)
    BY <2>1, Asks DEF WholeSites
  <2>4. Value(ret, seen)
    BY <2>2, <2>3, Asks
  <2>5. Owns("Switch.clause", <<mem[1], mem[2], ret>>, seen)
    BY <2>2, <2>3, <2>4, ClauseLocals DEF ClauseLabels
  <2> QED
    BY <2>2, <2>3, <2>4, <2>5
<1>10. /\ Owns("Assign", <<>>, seen) /\ Gets("Assign", ret, peek', seen)
      /\ Owns("Case", <<>>, seen) /\ Gets("Case", ret, peek', seen)
      /\ Owns("Default", <<>>, seen) /\ Gets("Default", ret, peek', seen)
  BY Needs, Asks DEF Unowning, Unasking
<1>11. /\ Gets("Switch.open", ret, peek', seen)
      /\ Gets("Switch.brace", ret, peek', seen)
      /\ Gets("Switch.clause", ret, peek', seen)
  BY Asks DEF Unasking
<1>12. ASSUME NEW value, Whole(value, seen), NEW label \in Sites(Top.at)
      PROVE  Gets(label, value, peek', seen)
  BY <1>1, <1>2, <1>12, Asks
<1>13. CASE Top.at = "Switch"
  BY <1>1, <1>2, <1>13, <1>3, <1>10, <1>11, <1>12, ShapeSteps
     DEF ParseSwitchStatement, Reads, At, Eat, EatAs
<1>14. CASE Top.at = "Switch.open"
  BY <1>1, <1>2, <1>14, <1>4, <1>10, <1>11, <1>12, ShapeSteps
     DEF ParseSwitchStatement, Reads, At, Eat, EatAs
<1>15. CASE Top.at = "Switch.close"
  BY <1>1, <1>2, <1>15, <1>5, <1>10, <1>11, <1>12, ShapeSteps
     DEF ParseSwitchStatement, Reads, At, Eat, EatAs
<1>16. CASE Top.at = "Switch.brace"
  BY <1>1, <1>2, <1>16, <1>6, <1>10, <1>11, <1>12, ShapeSteps
     DEF ParseSwitchStatement, Reads, At, Eat, EatAs
<1>17. CASE Top.at = "Switch.clause"
  BY <1>1, <1>2, <1>17, <1>7, <1>10, <1>11, <1>12, ShapeSteps
     DEF ParseSwitchStatement, Reads, At, Eat, EatAs
<1>18. CASE Top.at = "Switch.case"
  BY <1>1, <1>2, <1>18, <1>8, <1>10, <1>11, <1>12, ShapeSteps
     DEF ParseSwitchStatement, Reads, At, Eat, EatAs
<1>19. CASE Top.at = "Switch.default"
  BY <1>1, <1>2, <1>19, <1>9, <1>10, <1>11, <1>12, ShapeSteps
     DEF ParseSwitchStatement, Reads, At, Eat, EatAs
<1> QED
  BY <1>1, <1>13, <1>14, <1>15, <1>16, <1>17, <1>18, <1>19

LEMMA BreakShapes ==
  ASSUME Typed, Flow, Shapes, ParseBreakStatement
  PROVE  Shapes'
<1> DEFINE Mine == {"Break", "Break.label"}
<1>1. status = "running" /\ Top.at \in Mine
  BY DEF ParseBreakStatement, At
<1>2. \A label \in Mine : Sites(label) = StatementSites /\ label \notin Entry
  BY SitesTable DEF Entry, ForLabels, RhsLabels, FunctionLabels
<1> PICK seen : seen = Words'
  OBVIOUS
<1>3. \A s : Owns("Break.label", s, seen)
  BY Needs DEF Unowning
<1>4. Gets("Break.label", ret, peek', seen)
  BY Asks DEF Unasking
<1>5. ASSUME NEW value, Whole(value, seen), NEW label \in Sites(Top.at)
      PROVE  Gets(label, value, peek', seen)
  BY <1>1, <1>2, <1>5, Asks
<1>6. /\ Whole(Node("break", "", <<>>), seen)
      /\ \A i : Whole(Node("break", "", <<Leaf(i)>>), seen)
  BY ListsOfValues, OneMoreValue, NodesAre, SmallNodes, LeavesAreWhole, Asks
<1> QED
  BY <1>1, <1>2, <1>3, <1>4, <1>5, <1>6, ShapeSteps
     DEF ParseBreakStatement, Reads, At

LEMMA TryShapes ==
  ASSUME Typed, Flow, Shapes, ParseTryCatchStatement
  PROVE  Shapes'
<1> DEFINE Mine == {"Try", "Try.catch", "Try.open", "Try.close", "Try.handler",
                  "Try.finally", "Try.end"}
<1>1. status = "running" /\ Top.at \in Mine
  BY DEF ParseTryCatchStatement, At
<1>2. \A label \in Mine : Sites(label) = StatementSites /\ label \notin Entry
  BY SitesTable DEF Entry, ForLabels, RhsLabels, FunctionLabels
<1> PICK seen : seen = Words'
  OBVIOUS
<1>3. ASSUME Reads, Top.at = "Try.catch"
      PROVE  /\ Whole(ret, seen)
             /\ Value(ret, seen)
             /\ Owns("Try.finally", <<ret, Null, Null>>, seen)
  <2>1. Owns("Try.catch", mem, seen) /\ Gets("Try.catch", ret, peek, seen)
    BY <1>1, <1>3, ShapeSteps
  <2>2. Whole(ret, seen)
    BY <2>1, Asks DEF WholeSites
  <2>3. Value(ret, seen)
    BY <2>2, Asks
  <2>4. Owns("Try.finally", <<ret, Null, Null>>, seen)
    BY <2>2, <2>3, TryWithoutCatch
  <2> QED
    BY <2>2, <2>3, <2>4
<1>4. ASSUME Reads, Top.at = "Try.open"
      PROVE  AllValues(mem, seen) /\ Len(mem) = 1
  <2>1. Owns("Try.open", mem, seen) /\ Gets("Try.open", ret, peek, seen)
    BY <1>1, <1>4, ShapeSteps
  <2>2. AllValues(mem, seen) /\ Len(mem) = 1
    BY <2>1, Needs DEF SoloLabels
  <2> QED
    BY <2>2
<1>5. ASSUME Reads, Top.at = "Try.close"
      PROVE  /\ AllValues(mem, seen) /\ Len(mem) = 1
             /\ Whole(ret, seen)
             /\ Owns("Try.handler", Append(mem, ret), seen)
  <2>1. Owns("Try.close", mem, seen) /\ Gets("Try.close", ret, peek, seen)
    BY <1>1, <1>5, ShapeSteps
  <2>2. AllValues(mem, seen) /\ Len(mem) = 1
    BY <2>1, Needs DEF SoloLabels
  <2>3. Whole(ret, seen)
    BY <2>1, Asks DEF WholeSites, CommaSites
  <2>4. Owns("Try.handler", Append(mem, ret), seen)
    BY <2>2, <2>3, OnePair
  <2> QED
    BY <2>2, <2>3, <2>4
<1>6. ASSUME Reads, Top.at = "Try.handler"
      PROVE  /\ AllValues(mem, seen) /\ Len(mem) = 2
             /\ Whole(ret, seen)
             /\ Value(ret, seen)
             /\ Owns("Try.finally", Append(mem, ret), seen)
  <2>1. Owns("Try.handler", mem, seen) /\ Gets("Try.handler", ret, peek, seen)
    BY <1>1, <1>6, ShapeSteps
  <2>2. AllValues(mem, seen) /\ Len(mem) = 2
    BY <2>1, Needs
  <2>3. Whole(ret, seen)
    BY <2>1, Asks DEF WholeSites
  <2>4. Value(ret, seen)
    BY <2>2, <2>3, Asks
  <2>5. Owns("Try.finally", Append(mem, ret), seen)
    BY <2>2, <2>3, <2>4, TryParts
  <2> QED
    BY <2>2, <2>3, <2>4, <2>5
<1>7. ASSUME Reads, Top.at = "Try.finally"
      PROVE  /\ AllValues(mem, seen) /\ Len(mem) = 3
             /\ Whole(Node("try", "", Append(mem, Null)), seen)
  <2>1. Owns("Try.finally", mem, seen) /\ Gets("Try.finally", ret, peek, seen)
    BY <1>1, <1>7, ShapeSteps
  <2>2. AllValues(mem, seen) /\ Len(mem) = 3
    BY <2>1, Needs DEF ThreeLabels
  <2>3. Whole(Node("try", "", Append(mem, Null)), seen)
    BY <2>2, TryParts, LeavesAreWhole, Asks
  <2> QED
    BY <2>2, <2>3
<1>8. ASSUME Reads, Top.at = "Try.end"
      PROVE  /\ AllValues(mem, seen) /\ Len(mem) = 3
             /\ Whole(ret, seen)
             /\ Value(ret, seen)
             /\ Whole(Node("try", "", Append(mem, ret)), seen)
  <2>1. Owns("Try.end", mem, seen) /\ Gets("Try.end", ret, peek, seen)
    BY <1>1, <1>8, ShapeSteps
  <2>2. AllValues(mem, seen) /\ Len(mem) = 3
    BY <2>1, Needs DEF ThreeLabels
  <2>3. Whole(ret, seen)
    BY <2>1, Asks DEF WholeSites
  <2>4. Value(ret, seen)
    BY <2>2, <2>3, Asks
  <2>5. Whole(Node("try", "", Append(mem, ret)), seen)
    BY <2>2, <2>3, <2>4, TryParts
  <2> QED
    BY <2>2, <2>3, <2>4, <2>5
<1>9. /\ Owns("Block", <<>>, seen) /\ Gets("Block", ret, peek', seen)
      /\ Owns("Comma", <<>>, seen) /\ Gets("Comma", ret, peek', seen)
  BY Needs, Asks DEF Unowning, Unasking
<1>10. \A s : Owns("Try.catch", s, seen)
  BY Needs DEF Unowning
<1>11. /\ Gets("Try.open", ret, peek', seen)
      /\ Gets("Try.finally", ret, peek', seen)
  BY Asks DEF Unasking
<1>12. \A n : Whole(n, seen) => Owns("Try.open", <<n>>, seen)
  BY Singles DEF OneLabels
<1>13. \A s : AllValues(s, seen) /\ Len(s) = 1 => Owns("Try.close", s, seen)
  BY Needs DEF SoloLabels
<1>14. \A s : AllValues(s, seen) /\ Len(s) = 3 => Owns("Try.end", s, seen)
  BY Needs DEF ThreeLabels
<1>15. ASSUME NEW value, Whole(value, seen), NEW label \in Sites(Top.at)
      PROVE  Gets(label, value, peek', seen)
  BY <1>1, <1>2, <1>15, Asks
<1>16. CASE Top.at = "Try"
  BY <1>1, <1>2, <1>16, <1>9, <1>10, <1>11, <1>12, <1>13, <1>14, <1>15, ShapeSteps
     DEF ParseTryCatchStatement, Reads, At, Eat, EatAs
<1>17. CASE Top.at = "Try.catch"
  BY <1>1, <1>2, <1>17, <1>3, <1>9, <1>10, <1>11, <1>12, <1>13, <1>14, <1>15, ShapeSteps
     DEF ParseTryCatchStatement, Reads, At, Eat, EatAs
<1>18. CASE Top.at = "Try.open"
  BY <1>1, <1>2, <1>18, <1>4, <1>9, <1>10, <1>11, <1>12, <1>13, <1>14, <1>15, ShapeSteps
     DEF ParseTryCatchStatement, Reads, At, Eat, EatAs
<1>19. CASE Top.at = "Try.close"
  BY <1>1, <1>2, <1>19, <1>5, <1>9, <1>10, <1>11, <1>12, <1>13, <1>14, <1>15, ShapeSteps
     DEF ParseTryCatchStatement, Reads, At, Eat, EatAs
<1>20. CASE Top.at = "Try.handler"
  BY <1>1, <1>2, <1>20, <1>6, <1>9, <1>10, <1>11, <1>12, <1>13, <1>14, <1>15, ShapeSteps
     DEF ParseTryCatchStatement, Reads, At, Eat, EatAs
<1>21. CASE Top.at = "Try.finally"
  BY <1>1, <1>2, <1>21, <1>7, <1>9, <1>10, <1>11, <1>12, <1>13, <1>14, <1>15, ShapeSteps
     DEF ParseTryCatchStatement, Reads, At, Eat, EatAs
<1>22. CASE Top.at = "Try.end"
  BY <1>1, <1>2, <1>22, <1>8, <1>9, <1>10, <1>11, <1>12, <1>13, <1>14, <1>15, ShapeSteps
     DEF ParseTryCatchStatement, Reads, At, Eat, EatAs
<1> QED
  BY <1>1, <1>16, <1>17, <1>18, <1>19, <1>20, <1>21, <1>22

LEMMA ThrowShapes ==
  ASSUME Typed, Flow, Shapes, ParseThrowStatement
  PROVE  Shapes'
<1> DEFINE Mine == {"Throw", "Throw.end"}
<1>1. status = "running" /\ Top.at \in Mine
  BY DEF ParseThrowStatement, At
<1>2. \A label \in Mine : Sites(label) = StatementSites /\ label \notin Entry
  BY SitesTable DEF Entry, ForLabels, RhsLabels, FunctionLabels
<1> PICK seen : seen = Words'
  OBVIOUS
<1>3. ASSUME Reads, Top.at = "Throw.end"
      PROVE  Whole(ret, seen)
  <2>1. Owns("Throw.end", mem, seen) /\ Gets("Throw.end", ret, peek, seen)
    BY <1>1, <1>3, ShapeSteps
  <2>2. Whole(ret, seen)
    BY <2>1, Asks DEF WholeSites, CommaSites
  <2> QED
    BY <2>2
<1>4. Owns("Comma", <<>>, seen) /\ Gets("Comma", ret, peek', seen)
  BY Needs, Asks DEF Unowning, Unasking
<1>5. \A s : Owns("Throw.end", s, seen)
  BY Needs DEF Unowning
<1>6. ASSUME NEW value, Whole(value, seen), NEW label \in Sites(Top.at)
      PROVE  Gets(label, value, peek', seen)
  BY <1>1, <1>2, <1>6, Asks
<1>7. \A n : Whole(n, seen) => Whole(Node("throw", "", <<n>>), seen)
  BY ListsOfValues, OneMoreValue, NodesAre, SmallNodes, LeavesAreWhole, Asks
<1> QED
  BY <1>1, <1>2, <1>3, <1>4, <1>5, <1>6, <1>7, ShapeSteps
     DEF ParseThrowStatement, Reads, At

LEMMA ProgramShapes ==
  ASSUME Typed, Flow, Shapes, ParseProgram
  PROVE  Shapes'
<1>1. status = "running" /\ Top.at \in {"Program", "Program.statement"} /\ Reads
  BY DEF ParseProgram, At, Reads
<1> PICK seen : seen = Words'
  OBVIOUS
<1>2. ASSUME Top.at = "Program" PROVE AllValues(mem, seen)
  <2>1. Owns("Program", mem, seen)
    BY <1>1, <1>2, ShapeSteps
  <2> QED
    BY <2>1, Needs DEF ListLabels
<1>3. ASSUME Top.at = "Program.statement" PROVE AllValues(mem, seen) /\ Value(ret, seen)
  <2>1. Owns("Program.statement", mem, seen) /\ Gets("Program.statement", ret, peek, seen)
    BY <1>1, <1>3, ShapeSteps
  <2>2. AllValues(mem, seen)
    BY <2>1, Needs DEF ListLabels
  <2>3. Sealed(ret, peek, seen)
    BY <2>1, Asks DEF StatementSites
  <2> QED
    BY <2>2, <2>3, Asks
<1>4. /\ Owns("Statement", <<>>, seen) /\ Gets("Statement", ret, peek', seen)
      /\ Gets("Program", ret, peek', seen)
  BY Needs, Asks DEF Unowning, Unasking
<1>5. \A s : AllValues(s, seen) => Owns("Program", s, seen) /\ Owns("Program.statement", s, seen)
  BY Needs DEF ListLabels
<1>6. \A s, n : AllValues(s, seen) /\ Value(n, seen) => AllValues(Append(s, n), seen)
  BY OneMoreValue
<1>7. ASSUME status' = "done", ret' = Node("block", "", mem), Top.at = "Program" PROVE Shapes'
  <2>1. Whole(Node("block", "", mem), seen)
    BY <1>2, <1>7, NodesAre
  <2>2. Tree(ret', seen) /\ ret'.kind = "block"
    BY <1>7, <2>1 DEF Whole, Value, Node
  <2> QED
    BY <1>7, <2>2 DEF Shapes
<1> QED
  BY <1>1, <1>2, <1>3, <1>4, <1>5, <1>6, <1>7, ShapeSteps DEF ParseProgram, Reads, At

(* All of them.                                                            *)
LEMMA ShapesOfExpressions ==
  ASSUME Typed, Flow, Shapes, Expressions
  PROVE  Shapes'
  BY CommaShapes, AssignShapes, TernaryShapes, BinaryShapes, RhsShapes, UnaryShapes, NewShapes,
     MemberShapes, DotShapes, IndexShapes, ArgumentsShapes, PrimaryShapes, ArrayShapes,
     ObjectShapes, MethodShapes DEF Expressions

LEMMA ShapesOfStatements ==
  ASSUME Typed, Flow, Shapes, Statements
  PROVE  Shapes'
  BY StatementShapes, IfShapes, ForShapes, WhileShapes, DoShapes, ParametersShapes, FunctionShapes,
     BlockShapes, ReturnShape, DeclarationShapes, VariableShapes, CaseShapes, DefaultShapes,
     SwitchShapes, BreakShapes, TryShapes, ThrowShapes DEF Statements

LEMMA ShapesNext ==
  ASSUME Typed, Flow, Shapes, [Next]_vars
  PROVE  Shapes'
<1>1. ASSUME UnwindLoop \/ UnwindRest PROVE Shapes'
  BY <1>1 DEF UnwindLoop, UnwindRest, Shapes
<1>2. ASSUME Finished \/ UNCHANGED vars PROVE Shapes'
  <2>1. UNCHANGED vars
    BY <1>2 DEF Finished
  <2> QED
    BY <2>1 DEF vars, reading, Shapes, Words, Has, TypeOf, peek, here, Top
<1> QED
  BY <1>1, <1>2, ProgramShapes, ShapesOfExpressions, ShapesOfStatements DEF Next, Step

LEMMA ShapesInit ==
  ASSUME Init
  PROVE  Shapes
<1>1. stack = <<Frame("Program", <<>>, 1)>> /\ status = "running"
  BY DEF Init
<1>2. Len(stack) = 1 /\ stack[1].at = "Program" /\ stack[1].mem = <<>> /\ Top.at = "Program"
  BY <1>1 DEF Top, Frame
<1>3. Owns("Program", <<>>, Words)
  BY ListsOfValues, Needs DEF ListLabels
<1>4. Gets("Program", ret, peek, Words)
  BY Asks DEF Unasking
<1> QED
  BY <1>1, <1>2, <1>3, <1>4 DEF Shapes

(* What every parse function keeps at each of its labels: the handles it   *)
(* holds and the one it was returned are trees of the kinds the builder    *)
(* made for such a place, with all the parts those kinds have.             *)
THEOREM TreesAreShaped == Spec => []Shapes
<1>1. Typed /\ [Next]_vars => Typed'
  BY TypedNext, InvNext DEF Typed
<1>2. Typed /\ Balanced /\ [Next]_vars => Balanced'
  BY BalancedNext
<1>3. Typed /\ Balanced /\ Flow /\ [Next]_vars => Flow'
  BY FlowNext
<1>4. Typed /\ Flow /\ Shapes /\ [Next]_vars => Shapes'
  BY ShapesNext
<1> QED
  BY TypedInit, BalancedInit, FlowInit, ShapesInit, <1>1, <1>2, <1>3, <1>4, PTL DEF Spec

-----------------------------------------------------------------------------
(* What NearestElse says of an accepted text's tree.                       *)

Follow(f, m, node) == f = [n \in 0..m |-> IF n = 0 THEN node ELSE Ending(f[n - 1])]

LEMMA Followed ==
  ASSUME NEW node, NEW m \in Nat
  PROVE  \E f : Follow(f, m, node)
<1> DEFINE Wrong == {i \in Nat : ~\E f : Follow(f, i, node)}
<1>1. Wrong \in SUBSET Nat
  OBVIOUS
<1>2. SUFFICES Wrong = {}
  OBVIOUS
<1> SUFFICES ASSUME Wrong # {} PROVE FALSE
  OBVIOUS
<1>3. PICK i \in Wrong : \A j \in Wrong : i <= j
  BY <1>1, LeastOf
<1>4. i \in Nat /\ ~\E f : Follow(f, i, node)
  BY <1>3
<1>5. \A j \in Nat : j < i => \E f : Follow(f, j, node)
  BY <1>3, <1>4
<1> HIDE DEF Wrong
<1>6. CASE i = 0
  <2> DEFINE f == [n \in 0..0 |-> node]
  <2>1. f = [n \in 0..0 |-> IF n = 0 THEN node ELSE Ending(f[n - 1])]
    OBVIOUS
  <2> QED
    BY <1>4, <1>6, <2>1 DEF Follow
<1>7. CASE i # 0
  <2> PICK k \in Nat : k = i - 1 /\ k < i /\ k + 1 = i
    BY <1>4, <1>7
  <2>1. PICK g : Follow(g, k, node)
    BY <1>5
  <2> DEFINE f == [n \in 0..i |-> IF n = i THEN Ending(g[k]) ELSE g[n]]
  <2>2. ASSUME NEW n \in 0..i PROVE f[n] = IF n = 0 THEN node ELSE Ending(f[n - 1])
    <3>1. n \in Nat /\ (n = 0 \/ n - 1 \in 0..k) /\ (n = i \/ n \in 0..k) /\ k \in 0..k /\ k # i
      BY <1>4, <1>7
    <3>2. \A j \in 0..k : j \in 0..i /\ j # i /\ f[j] = g[j]
      BY <1>4
    <3>3. \A j \in 0..k : g[j] = IF j = 0 THEN node ELSE Ending(g[j - 1])
      BY <2>1 DEF Follow
    <3>4. CASE n = i
      <4>1. f[n] = Ending(g[k]) /\ n # 0 /\ n - 1 = k
        BY <1>7, <3>4
      <4> QED
        BY <3>1, <3>2, <4>1
    <3>5. CASE n # i
      BY <3>1, <3>2, <3>3, <3>5
    <3> QED
      BY <3>4, <3>5
  <2>3. f = [n \in 0..i |-> f[n]]
    OBVIOUS
  <2> HIDE DEF f
  <2>4. f = [n \in 0..i |-> IF n = 0 THEN node ELSE Ending(f[n - 1])]
    BY <2>2, <2>3
  <2> QED
    BY <1>4, <2>4 DEF Follow
<1> QED
  BY <1>6, <1>7

LEMMA OpenTakesElse ==
  ASSUME ReadOK, NEW node, EndsOpen(node)
  PROVE  TakesElse(node)
<1>1. here \in Nat
  BY DEF ReadOK, here
<1> DEFINE last == CHOOSE f : Follow(f, here, node)
<1>2. Follow(last, here, node)
  BY <1>1, Followed, Zenon
<1>3. \E n \in 0..here : last[n].kind = "if" /\ Len(last[n].kids) = 2
  BY Zenon DEF EndsOpen, Follow
<1> HIDE DEF last
<1>4. PICK k \in 0..here : last[k].kind = "if" /\ Len(last[k].kids) = 2
  BY <1>3
<1>5. k \in Nat /\ 0 \in 0..here /\ \A i \in 1..k : i \in 0..here /\ i # 0
  BY <1>1
<1>6. Spine(last, k, node)
  BY <1>2, <1>5 DEF Spine, Follow
<1> QED
  BY <1>4, <1>5, <1>6 DEF TakesElse

(* The parts of the nodes of a set.                                        *)
KidsOf(S) == UNION {{m.kids[k] : k \in 1..Len(m.kids)} : m \in S}

Descend(f, m, node) ==
  f = [n \in 0..m |-> IF n = 0 THEN {node} ELSE f[n - 1] \union KidsOf(f[n - 1])]

LEMMA Descended ==
  ASSUME NEW node, NEW m \in Nat
  PROVE  \E f : Descend(f, m, node)
<1> DEFINE Wrong == {i \in Nat : ~\E f : Descend(f, i, node)}
<1>1. Wrong \in SUBSET Nat
  OBVIOUS
<1>2. SUFFICES Wrong = {}
  OBVIOUS
<1> SUFFICES ASSUME Wrong # {} PROVE FALSE
  OBVIOUS
<1>3. PICK i \in Wrong : \A j \in Wrong : i <= j
  BY <1>1, LeastOf
<1>4. i \in Nat /\ ~\E f : Descend(f, i, node)
  BY <1>3
<1>5. \A j \in Nat : j < i => \E f : Descend(f, j, node)
  BY <1>3, <1>4
<1> HIDE DEF Wrong
<1>6. CASE i = 0
  <2> DEFINE f == [n \in 0..0 |-> {node}]
  <2>1. f = [n \in 0..0 |-> IF n = 0 THEN {node} ELSE f[n - 1] \union KidsOf(f[n - 1])]
    OBVIOUS
  <2> QED
    BY <1>4, <1>6, <2>1 DEF Descend
<1>7. CASE i # 0
  <2> PICK k \in Nat : k = i - 1 /\ k < i /\ k + 1 = i
    BY <1>4, <1>7
  <2>1. PICK g : Descend(g, k, node)
    BY <1>5
  <2> DEFINE f == [n \in 0..i |-> IF n = i THEN g[k] \union KidsOf(g[k]) ELSE g[n]]
  <2>2. ASSUME NEW n \in 0..i
        PROVE  f[n] = IF n = 0 THEN {node} ELSE f[n - 1] \union KidsOf(f[n - 1])
    <3>1. n \in Nat /\ (n = 0 \/ n - 1 \in 0..k) /\ (n = i \/ n \in 0..k) /\ k \in 0..k /\ k # i
      BY <1>4, <1>7
    <3>2. \A j \in 0..k : j \in 0..i /\ j # i /\ f[j] = g[j]
      BY <1>4
    <3>3. \A j \in 0..k : g[j] = IF j = 0 THEN {node} ELSE g[j - 1] \union KidsOf(g[j - 1])
      BY <2>1 DEF Descend
    <3>4. CASE n = i
      <4>1. f[n] = g[k] \union KidsOf(g[k]) /\ n # 0 /\ n - 1 = k
        BY <1>7, <3>4
      <4> QED
        BY <3>1, <3>2, <4>1
    <3>5. CASE n # i
      BY <3>1, <3>2, <3>3, <3>5
    <3> QED
      BY <3>4, <3>5
  <2>3. f = [n \in 0..i |-> f[n]]
    OBVIOUS
  <2> HIDE DEF f
  <2>4. f = [n \in 0..i |-> IF n = 0 THEN {node} ELSE f[n - 1] \union KidsOf(f[n - 1])]
    BY <2>2, <2>3
  <2> QED
    BY <1>4, <2>4 DEF Descend
<1> QED
  BY <1>6, <1>7

(* A set that has a node and the parts of its own has all of its tree.     *)
LEMMA NodesWithin ==
  ASSUME ReadOK, NEW node, NEW T, node \in T, \A m \in T : \A k \in 1..Len(m.kids) : m.kids[k] \in T
  PROVE  Nodes(node) \subseteq T
<1>1. here \in Nat
  BY DEF ReadOK, here
<1> DEFINE down == CHOOSE f : Descend(f, here, node)
<1>2. Descend(down, here, node)
  BY <1>1, Descended, Zenon
<1>3. Nodes(node) = down[here]
  BY Zenon DEF Nodes, Descend, KidsOf
<1> HIDE DEF down
<1>4. \A n \in 0..here :
        down[n] = IF n = 0 THEN {node} ELSE down[n - 1] \union KidsOf(down[n - 1])
  BY <1>2 DEF Descend
<1> DEFINE Wrong == {n \in Nat : n <= here /\ ~(down[n] \subseteq T)}
<1>5. ASSUME Wrong # {} PROVE FALSE
  <2>1. Wrong \in SUBSET Nat
    OBVIOUS
  <2>2. PICK i \in Wrong : \A j \in Wrong : i <= j
    BY <1>5, <2>1, LeastOf
  <2>3. i \in Nat /\ i <= here /\ ~(down[i] \subseteq T)
    BY <2>2
  <2>4. \A j \in Nat : j <= here /\ j \notin Wrong => down[j] \subseteq T
    OBVIOUS
  <2> HIDE DEF Wrong
  <2>5. i \in 0..here /\ i # 0
    <3>1. i \in 0..here
      BY <1>1, <2>3
    <3>2. 0 \in 0..here
      BY <1>1
    <3>3. down[0] = {node}
      BY <1>4, <3>2
    <3>4. down[0] \subseteq T
      BY <3>3
    <3> QED
      BY <2>3, <3>1, <3>4
  <2>6. i - 1 \in Nat /\ i - 1 <= here /\ ~(i <= i - 1)
    BY <1>1, <2>3, <2>5
  <2>7. down[i - 1] \subseteq T
    BY <2>2, <2>4, <2>6
  <2>8. KidsOf(down[i - 1]) \subseteq T
    BY <2>7 DEF KidsOf
  <2>9. down[i] = down[i - 1] \union KidsOf(down[i - 1])
    BY <1>4, <2>5
  <2> QED
    BY <2>3, <2>7, <2>8, <2>9
<1>6. here <= here /\ here \notin Wrong
  BY <1>1, <1>5
<1> QED
  BY <1>1, <1>3, <1>6

LEMMA ShapesPlaceElses ==
  ASSUME ReadOK, Shapes, status = "done"
  PROVE  ElsesNearest
<1>1. PICK T : ret \in T /\ \A m \in T : Made(m, T, Words)
  BY DEF Shapes, Tree
<1>2. Nodes(ret) \subseteq T
  BY <1>1, NodesWithin DEF Made
<1>3. ASSUME NEW node \in Nodes(ret), node.kind = "if", Len(node.kids) = 3
      PROVE  ~EndsOpen(node.kids[2])
  <2>1. Shape(node, Words)
    BY <1>1, <1>2 DEF Made
  <2>2. ~TakesElse(node.kids[2])
    BY <1>3, <2>1 DEF Shape
  <2> QED
    BY <2>2, OpenTakesElse
<1> QED
  BY <1>3 DEF ElsesNearest

-----------------------------------------------------------------------------
(* The ';' after a jump.                                                   *)

(* Where statements come one after the other.                              *)
ListSites == {"Program.statement", "Block.statement", "Case.statement", "Default.while"}

(* Where an else is met that no if takes, and where the ';' after a jump   *)
(* is.                                                                     *)
Doomed ==
  ListSites \union
  {"Program", "Block.next", "Case.while", "Case.do", "Statement", "Comma", "Assign", "Ternary",
   "Binary", "Unary", "LeftHandSide", "Member", "Primary"}

Pending ==
  StatementSites \union
  {"Return.value", "Break.label", "Program", "Block.next", "Case.while", "Case.do", "Statement",
   "Object.value", "Object.next"}

(* The last tokens are a jump and its ';', or those and an else.           *)
Due == here >= 2 /\ Jumps(here - 1) /\ peek = "SEMICOLON"
Cut == here >= 3 /\ CutOff(here - 2)

Caller == stack[Len(stack) - 1]

(* The invariant: after the ';' of a jump no else has come, but for one    *)
(* that is about to be thrown at.                                          *)
Watchful ==
  /\ \A i \in 1..here - 3 : ~CutOff(i)
  /\ Cut => Top.at \in Doomed
  /\ Due => Top.at \in Pending /\ (Top.at = "Statement" => Caller.at \in ListSites)
  /\ Top.at \in Starts /\ peek \in JumpTypes => Top.at \in {"Return", "Break"}
  /\ Top.at = "Dot" => AfterDot(here)

Heed ==
  /\ status = "running" /\ ~Has("FUNCTION") => Watchful
  /\ status = "done" => JumpsEndIfs

(* What may come next without a token, its caller at `under`,              *)
KeepsTo(label, under) ==
  /\ Cut => label \in Doomed
  /\ Due => label \in Pending /\ (label = "Statement" => under \in ListSites)
  /\ label \in Starts /\ peek \in JumpTypes => label \in {"Return", "Break"}
  /\ label # "Dot"

(* and with one.                                                           *)
MovesTo(label) ==
  /\ ~Cut
  /\ Due => label \in Doomed
  /\ peek \in JumpTypes => Top.at = "Dot" \/ (label \in Pending /\ label # "Statement")
  /\ label \notin Starts
  /\ label = "Dot" => peek = "PERIOD" /\ braces' = braces

LEMMA KeptTokens ==
  ASSUME Keep
  PROVE  /\ here' = here /\ peek' = peek /\ (Due' <=> Due) /\ (Cut' <=> Cut)
         /\ \A i : (CutOff(i)' <=> CutOff(i)) /\ (AfterDot(i)' <=> AfterDot(i))
         /\ \A type : Has(type)' <=> Has(type)
<1>1. input' = input /\ braces' = braces
  BY DEF Keep, reading
<1>2. here' = here /\ peek' = peek /\ \A i : TypeOf(input[i])' = TypeOf(input[i])
  BY <1>1 DEF here, peek, TypeOf
<1>3. \A i : AfterDot(i)' <=> AfterDot(i)
  BY <1>1 DEF AfterDot, TypeOf
<1>4. \A i : Jumps(i)' <=> Jumps(i)
  BY <1>2, <1>3 DEF Jumps
<1>5. \A i : CutOff(i)' <=> CutOff(i)
  BY <1>2, <1>4 DEF CutOff
<1>6. (Due' <=> Due) /\ (Cut' <=> Cut)
  BY <1>2, <1>4, <1>5 DEF Due, Cut
<1>7. \A type : Has(type)' <=> Has(type)
  BY <1>1, <1>2 DEF Has, TypeOf
<1> QED
  BY <1>2, <1>3, <1>5, <1>6, <1>7

LEMMA MovedTokens ==
  ASSUME Typed, advance(TRUE) \/ advance(FALSE) \/ Open, NEW n, n = here
  PROVE  /\ n \in Nat /\ n >= 1 /\ here' = n + 1 /\ TypeOf(input'[n]) = peek
         /\ \A i \in 1..n - 2 : CutOff(i)' <=> CutOff(i)
         /\ \A i \in 1..n : (Jumps(i)' <=> Jumps(i)) /\ TypeOf(input'[i]) = TypeOf(input[i])
         /\ \A type : Has(type) => Has(type)'
<1>0. n \in Nat /\ n >= 1
  BY DEF Typed, ReadOK, here
<1>1. PICK next : input' = Append(input, next) /\ braces' \in {braces, braces \union {here}}
  BY DEF advance, Open
<1>2. here' = n + 1 /\ \A i \in 1..n : input'[i] = input[i]
  BY <1>1 DEF Typed, ReadOK, here
<1>3. \A i \in 1..n : TypeOf(input'[i]) = TypeOf(input[i])
  BY <1>2 DEF TypeOf
<1>4. n \in 1..n /\ TypeOf(input'[n]) = peek
  BY <1>0, <1>3 DEF peek
<1>5. ASSUME NEW i \in 1..n PROVE AfterDot(i)' <=> AfterDot(i)
  <2>1. i - 1 # here /\ (i > 1 => i - 1 \in 1..n)
    BY <1>0
  <2>2. i - 1 \in braces' <=> i - 1 \in braces
    BY <1>1, <2>1
  <2> QED
    BY <1>3, <2>1, <2>2 DEF AfterDot, TypeOf
<1>6. \A i \in 1..n : Jumps(i)' <=> Jumps(i)
  BY <1>3, <1>5 DEF Jumps, TypeOf
<1>7. ASSUME NEW i \in 1..n - 2 PROVE CutOff(i)' <=> CutOff(i)
  <2>1. i \in 1..n /\ i + 1 \in 1..n /\ i + 2 \in 1..n
    BY <1>0
  <2>2. TypeOf(input'[i + 1]) = TypeOf(input[i + 1]) /\ TypeOf(input'[i + 2]) = TypeOf(input[i + 2])
    BY <1>3, <2>1
  <2> QED
    BY <1>6, <2>1, <2>2 DEF CutOff, TypeOf
<1>8. ASSUME NEW type, Has(type) PROVE Has(type)'
  <2>1. PICK i \in 1..n : TypeOf(input[i]) = type
    BY <1>8 DEF Has
  <2>2. i \in 1..n + 1
    BY <1>0
  <2> QED
    BY <1>2, <1>3, <2>1, <2>2 DEF Has, TypeOf
<1> QED
  BY <1>0, <1>2, <1>3, <1>4, <1>6, <1>7, <1>8

LEMMA HeedKept ==
  ASSUME Heed, status = "running", Keep, status' = "running",
         ~Has("FUNCTION") => KeepsTo(Top'.at, Caller'.at)
  PROVE  Heed'
<1>1. SUFFICES ASSUME ~Has("FUNCTION") PROVE Watchful'
  BY KeptTokens DEF Heed
<1>2. Watchful /\ KeepsTo(Top'.at, Caller'.at)
  BY <1>1 DEF Heed
<1> QED
  BY <1>2, KeptTokens DEF Watchful, KeepsTo

LEMMA HeedMoved ==
  ASSUME Typed, Balanced, Heed, status = "running", advance(TRUE) \/ advance(FALSE) \/ Open,
         status' = "running", ~Has("FUNCTION") => MovesTo(Top'.at)
  PROVE  Heed'
<1>1. SUFFICES ASSUME ~Has("FUNCTION") PROVE Watchful'
  <2>1. \A type : Has(type) => Has(type)'
    BY MovedTokens
  <2> QED
    BY <1>1, <2>1 DEF Heed
<1>2. Watchful /\ MovesTo(Top'.at)
  BY <1>1 DEF Heed
<1> PICK n : n = here
  OBVIOUS
<1>3. /\ n \in Nat /\ n >= 1 /\ here' = n + 1 /\ TypeOf(input'[n]) = peek
      /\ \A i \in 1..n - 2 : CutOff(i)' <=> CutOff(i)
      /\ \A i \in 1..n : (Jumps(i)' <=> Jumps(i)) /\ TypeOf(input'[i]) = TypeOf(input[i])
  BY MovedTokens
<1>4. ASSUME NEW i \in 1..here' - 3 PROVE ~CutOff(i)'
  <2>1. i \in 1..n - 2
    BY <1>3
  <2>2. CASE i = n - 2
    <3>1. n >= 3
      BY <1>3, <2>1
    <3> QED
      BY <1>2, <1>3, <2>1, <2>2, <3>1 DEF MovesTo, Cut
  <2>3. CASE i # n - 2
    <3>1. i \in 1..n - 3
      BY <1>3, <2>1, <2>3
    <3> QED
      BY <1>2, <1>3, <2>1, <3>1 DEF Watchful
  <2> QED
    BY <2>2, <2>3
<1>5. ASSUME Cut' PROVE Top'.at \in Doomed
  <2>1. n + 1 >= 3 /\ CutOff(n + 1 - 2)'
    BY <1>3, <1>5 DEF Cut
  <2>2. n >= 2 /\ n + 1 - 2 = n - 1 /\ n - 1 \in 1..n /\ n - 1 + 1 = n
    BY <1>3, <2>1
  <2>3. Jumps(n - 1)' /\ TypeOf(input'[n]) = "SEMICOLON"
    BY <2>1, <2>2 DEF CutOff, TypeOf
  <2>4. Due
    BY <1>3, <2>2, <2>3 DEF Due
  <2> QED
    BY <1>2, <2>4 DEF MovesTo
<1>6. ASSUME Due' PROVE Top'.at \in Pending /\ Top'.at # "Statement"
  <2>1. Jumps(n)'
    <3>1. n + 1 - 1 = n
      BY <1>3
    <3> QED
      BY <1>3, <1>6, <3>1 DEF Due
  <2>2. Jumps(n) /\ n \in 1..n
    BY <1>3, <2>1
  <2>3. peek \in JumpTypes /\ ~AfterDot(here)
    BY <2>2 DEF Jumps, peek
  <2> QED
    BY <1>2, <2>3 DEF MovesTo, Watchful
<1>7. ASSUME Top'.at = "Dot" PROVE AfterDot(here)'
  <2>1. peek = "PERIOD" /\ braces' = braces
    BY <1>2, <1>7 DEF MovesTo
  <2>2. n \notin braces
    BY <1>3 DEF Balanced, Settled
  <2>3. here' > 1 /\ here' - 1 = n
    BY <1>3
  <2>4. TypeOf(input'[here' - 1]) = "PERIOD"
    BY <1>3, <2>1, <2>3
  <2> QED
    BY <2>1, <2>2, <2>3, <2>4 DEF AfterDot, TypeOf
<1> QED
  BY <1>2, <1>4, <1>5, <1>6, <1>7 DEF Watchful, MovesTo

(* The innermost call goes on, calls another function or returns: what     *)
(* each must see to.                                                       *)
Keeping(label, under) == Has("FUNCTION") \/ KeepsTo(label, under)
Moving(label) == Has("FUNCTION") \/ MovesTo(label)
Advances == advance(TRUE) \/ advance(FALSE) \/ Open

LEMMA NewTops ==
  ASSUME Typed, status = "running"
  PROVE  /\ \A label, locals, first :
              stack' = Append(Callers, Frame(label, locals, first)) => Top'.at = label
         /\ \A label, locals, first, function, more, start :
              stack' = Callers \o <<Frame(label, locals, first), Frame(function, more, start)>> =>
              Top'.at = function /\ Caller'.at = label
         /\ stack' = Callers /\ Top.at \notin Entry => Top' = Caller
<1> PICK n \in Nat : n = Len(stack) /\ n >= 1
  BY Running DEF Typed
<1>1. ASSUME NEW label, NEW locals, NEW first,
             stack' = Append(Callers, Frame(label, locals, first))
      PROVE  Top'.at = label
  <2> DEFINE f == Frame(label, locals, first)
  <2>1. Len(stack') = n /\ stack'[n] = f
    BY <1>1, Running, OneMore DEF Typed
  <2>2. f.at = label
    BY DEF Frame
  <2> QED
    BY <2>1, <2>2 DEF Top
<1>2. ASSUME NEW label, NEW locals, NEW first, NEW function, NEW more, NEW start,
             stack' = Callers \o <<Frame(label, locals, first), Frame(function, more, start)>>
      PROVE  Top'.at = function /\ Caller'.at = label
  <2> DEFINE f == Frame(label, locals, first)
             g == Frame(function, more, start)
  <2>1. Len(stack') = n + 1 /\ stack'[n] = f /\ stack'[n + 1] = g
    BY <1>2, Pushed DEF Typed
  <2>2. f.at = label /\ g.at = function
    BY DEF Frame
  <2> HIDE DEF f, g
  <2>3. n + 1 - 1 = n
    OBVIOUS
  <2> QED
    BY <2>1, <2>2, <2>3 DEF Top, Caller
<1>3. ASSUME stack' = Callers, Top.at \notin Entry PROVE Top' = Caller
  <2>1. Len(stack') = n - 1 /\ \A k \in 1..n - 1 : stack'[k] = stack[k]
    BY <1>3, Running DEF Typed
  <2>2. n # 1
    BY <1>3, Running DEF Typed, FrameOK
  <2>3. n - 1 \in 1..n - 1
    BY <2>2
  <2> QED
    BY <2>1, <2>3 DEF Top, Caller
<1> QED
  BY <1>1, <1>2, <1>3

(* A call has a caller that waits for it.                                  *)
LEMMA CallersWait ==
  ASSUME Typed, status = "running", Flow, Top.at \notin Entry
  PROVE  Caller.at \in Sites(Top.at)
<1> PICK n \in Nat : n = Len(stack) /\ n >= 1
  BY Running DEF Typed
<1>1. n # 1
  BY Running DEF Typed, FrameOK
<1>2. n - 1 \in 1..n - 1 /\ n - 1 + 1 = n
  BY <1>1
<1>3. Linked(stack[n - 1], stack[n - 1 + 1])
  BY <1>2 DEF Flow, Links
<1> QED
  BY <1>2, <1>3 DEF Linked, Top, Caller

LEMMA HeedSteps ==
  ASSUME Typed, Balanced, Flow, Heed, status = "running"
  PROVE  /\ \A label, locals : Goto(label, locals) /\ Keep /\ Keeping(label, "") /\
              label # "Statement" => Heed'
         /\ \A label, locals : Goto(label, locals) /\ Advances /\ Moving(label) => Heed'
         /\ \A function, label, locals :
              Call(function, label, locals) /\ Keep /\ Keeping(function, label) => Heed'
         /\ \A function, label, locals :
              Call(function, label, locals) /\ Advances /\ Moving(function) => Heed'
         /\ Top.at \notin Entry =>
              \A value :
                /\ (Return(value) \/ ReturnRestoring(value)) /\ Keep /\ Keeping(Caller.at, "")
                   /\ Caller.at # "Statement" => Heed'
                /\ (Return(value) \/ ReturnRestoring(value)) /\ Advances /\ Moving(Caller.at)
                   => Heed'
         /\ Throw => Heed'
         /\ Top.at \in FunctionLabels => Has("FUNCTION")
         /\ Has("FUNCTION") \/ Watchful
         /\ Top.at \notin Entry => Caller.at \in Sites(Top.at)
<1> USE DEF Keeping, Moving, Advances
<1>1. ASSUME NEW label, NEW locals, Goto(label, locals)
      PROVE  /\ Keep /\ Keeping(label, "") /\ label # "Statement" => Heed'
             /\ Advances /\ Moving(label) => Heed'
  <2>1. Top'.at = label /\ status' = "running"
    BY <1>1, NewTops DEF Goto
  <2>2. ASSUME Keep, Keeping(label, ""), label # "Statement" PROVE Heed'
    <3>1. ~Has("FUNCTION") => KeepsTo(Top'.at, Caller'.at)
      BY <2>1, <2>2 DEF KeepsTo
    <3> QED
      BY <2>1, <2>2, <3>1, HeedKept
  <2> QED
    BY <2>1, <2>2, HeedMoved
<1>2. ASSUME NEW function, NEW label, NEW locals, Call(function, label, locals)
      PROVE  /\ Keep /\ Keeping(function, label) => Heed'
             /\ Advances /\ Moving(function) => Heed'
  <2> PICK start : start = Len(input')
    OBVIOUS
  <2>1. stack' = Callers \o <<Frame(label, locals, Top.from), Frame(function, <<>>, start)>>
    BY <1>2 DEF Call
  <2>2. Top'.at = function /\ Caller'.at = label /\ status' = "running"
    BY <1>2, <2>1, NewTops DEF Call
  <2> QED
    BY <2>2, HeedKept, HeedMoved
<1>3. ASSUME Top.at \notin Entry, NEW value, Return(value) \/ ReturnRestoring(value)
      PROVE  /\ Keep /\ Keeping(Caller.at, "") /\ Caller.at # "Statement" => Heed'
             /\ Advances /\ Moving(Caller.at) => Heed'
  <2>1. Top' = Caller /\ status' = "running"
    BY <1>3, NewTops DEF Return, ReturnRestoring
  <2>2. ASSUME Keep, Keeping(Caller.at, ""), Caller.at # "Statement" PROVE Heed'
    <3>1. ~Has("FUNCTION") => KeepsTo(Top'.at, Caller'.at)
      BY <2>1, <2>2 DEF KeepsTo
    <3> QED
      BY <2>1, <2>2, <3>1, HeedKept
  <2> QED
    BY <2>1, <2>2, HeedMoved
<1>4. Throw => Heed'
  BY DEF Throw, Heed
<1>5. /\ Top.at \in FunctionLabels => Has("FUNCTION")
      /\ Has("FUNCTION") \/ Watchful
  BY FlowSteps DEF Heed
<1>6. Top.at \notin Entry => Caller.at \in Sites(Top.at)
  BY CallersWait
<1> QED
  BY <1>1, <1>2, <1>3, <1>4, <1>5, <1>6

-----------------------------------------------------------------------------
(* The parse functions, one by one.                                        *)

(* What is known of the last tokens at a label.                            *)
Alert ==
  \/ Has("FUNCTION")
  \/ /\ Cut => peek = "ELSE" /\ Top.at \in Doomed
     /\ Due => /\ peek = "SEMICOLON" /\ Top.at \in Pending
               /\ Top.at = "Statement" => Caller.at \in ListSites
     /\ Top.at \in Starts /\ peek \in JumpTypes => Top.at \in {"Return", "Break"}

LEMMA WatchfulAlert ==
  ASSUME Typed, Has("FUNCTION") \/ Watchful
  PROVE  Alert
<1>1. ASSUME Cut PROVE peek = "ELSE"
  <2>1. here \in Nat /\ CutOff(here - 2)
    BY <1>1 DEF Cut, Typed, ReadOK, here
  <2>2. here - 2 + 2 = here
    BY <2>1
  <2> QED
    BY <2>1, <2>2 DEF CutOff, peek
<1> QED
  BY <1>1 DEF Alert, Watchful, Due

LEMMA CommaHeeds ==
  ASSUME Typed, Balanced, Flow, Heed, ParseCommaExpression
  PROVE  Heed'
<1>1. status = "running" /\ Top.at \in {"Comma", "Comma.next"}
  BY DEF ParseCommaExpression, At
<1>2. Top.at \notin Entry
  BY <1>1 DEF Entry
<1>3. Caller.at \in CommaSites
  BY <1>1, <1>2, CallersWait, SitesTable
<1>4. Alert
  BY <1>1, HeedSteps, WatchfulAlert
<1>5. /\ Top.at = "Comma" => Keeping("Assign", "Comma.next")
      /\ Top.at = "Comma.next" /\ peek = "COMMA" => Moving("Assign")
      /\ Top.at = "Comma.next" => Keeping(Caller.at, "") /\ Caller.at # "Statement"
  BY <1>1, <1>3, <1>4
     DEF Alert, Keeping, Moving, KeepsTo, MovesTo, Doomed, Pending, ListSites, StatementSites,
         Starts, JumpTypes, CommaSites
<1> QED
  BY <1>1, <1>2, <1>5, HeedSteps DEF ParseCommaExpression, At, Eat, EatAs, Become, Advances

LEMMA AssignHeeds ==
  ASSUME Typed, Balanced, Flow, Heed, ParseAssignExpression
  PROVE  Heed'
<1>1. status = "running" /\ Top.at \in {"Assign", "Assign.left", "Assign.right"}
  BY DEF ParseAssignExpression, At
<1>2. Top.at \notin Entry
  BY <1>1 DEF Entry
<1>3. Caller.at \in AssignSites
  BY <1>1, <1>2, CallersWait, SitesTable
<1>4. Alert
  BY <1>1, HeedSteps, WatchfulAlert
<1>5. /\ Top.at = "Assign" => Keeping("Ternary", "Assign.left")
      /\ Top.at = "Assign.left" /\ peek \in AssignTypes => Moving("Assign")
      /\ Top.at = "Assign.left" => Keeping(Caller.at, "") /\ Caller.at # "Statement"
      /\ Top.at = "Assign.right" => Keeping(Caller.at, "") /\ Caller.at # "Statement"
  BY <1>1, <1>3, <1>4
     DEF Alert, Keeping, Moving, KeepsTo, MovesTo, Doomed, Pending, ListSites, StatementSites,
         Starts, JumpTypes, AssignSites, AssignTypes
<1> QED
  BY <1>1, <1>2, <1>5, HeedSteps DEF ParseAssignExpression, At, Eat, EatAs, Become, Advances

LEMMA TernaryHeeds ==
  ASSUME Typed, Balanced, Flow, Heed, ParseTernaryExpression
  PROVE  Heed'
<1>1. status = "running" /\ Top.at \in {"Ternary", "Ternary.first", "Ternary.second",
                                       "Ternary.third"}
  BY DEF ParseTernaryExpression, At
<1>2. Top.at \notin Entry
  BY <1>1 DEF Entry
<1>3. Caller.at \in {"Assign.left"}
  BY <1>1, <1>2, CallersWait, SitesTable
<1>4. Alert
  BY <1>1, HeedSteps, WatchfulAlert
<1>5. /\ Top.at = "Ternary" => Keeping("Binary", "Ternary.first")
      /\ Top.at = "Ternary.first" => Keeping(Caller.at, "") /\ Caller.at # "Statement"
      /\ Top.at = "Ternary.first" /\ peek = "CONDITIONAL" => Moving("Assign")
      /\ Top.at = "Ternary.second" /\ peek = "COLON" => Moving("Assign")
      /\ Top.at = "Ternary.third" => Keeping(Caller.at, "") /\ Caller.at # "Statement"
  BY <1>1, <1>3, <1>4
     DEF Alert, Keeping, Moving, KeepsTo, MovesTo, Doomed, Pending, ListSites, StatementSites,
         Starts, JumpTypes
<1> QED
  BY <1>1, <1>2, <1>5, HeedSteps DEF ParseTernaryExpression, At, Eat, EatAs, Become, Advances

LEMMA BinaryHeeds ==
  ASSUME Typed, Balanced, Flow, Heed, ParseBinaryExpression
  PROVE  Heed'
<1>1. status = "running" /\ Top.at \in {"Binary", "Binary.left"}
  BY DEF ParseBinaryExpression, At
<1>2. Top.at \notin Entry
  BY <1>1 DEF Entry
<1>3. Caller.at \in {"Ternary.first"}
  BY <1>1, <1>2, CallersWait, SitesTable
<1>4. Alert
  BY <1>1, HeedSteps, WatchfulAlert
<1>5. /\ Top.at = "Binary" => Keeping("Unary", "Binary.left")
      /\ Top.at = "Binary.left" => Keeping("Rhs", "")
  BY <1>1, <1>3, <1>4
     DEF Alert, Keeping, Moving, KeepsTo, MovesTo, Doomed, Pending, ListSites, StatementSites,
         Starts, JumpTypes
<1> QED
  BY <1>1, <1>2, <1>5, HeedSteps DEF ParseBinaryExpression, At, Eat, EatAs, Become, Advances

LEMMA UnaryHeeds ==
  ASSUME Typed, Balanced, Flow, Heed, ParseUnaryExpression
  PROVE  Heed'
<1>1. status = "running" /\ Top.at \in {"Unary", "Unary.operand", "Unary.postfix"}
  BY DEF ParseUnaryExpression, At
<1>2. Top.at \notin Entry
  BY <1>1 DEF Entry
<1>3. Caller.at \in {"Unary.operand", "Binary.left", "Rhs.operand"}
  BY <1>1, <1>2, CallersWait, SitesTable
<1>4. Alert
  BY <1>1, HeedSteps, WatchfulAlert
<1>5. /\ Top.at = "Unary" /\ peek \in PrefixTypes \union {"ADD", "SUB"} => Moving("Unary")
      /\ Top.at = "Unary.operand" => Keeping(Caller.at, "") /\ Caller.at # "Statement"
      /\ Top.at = "Unary" => Keeping("LeftHandSide", "Unary.postfix")
      /\ Top.at = "Unary.postfix" /\ peek \in {"INC", "DEC"} => Moving(Caller.at)
      /\ Top.at = "Unary.postfix" => Keeping(Caller.at, "") /\ Caller.at # "Statement"
  BY <1>1, <1>3, <1>4
     DEF Alert, Keeping, Moving, KeepsTo, MovesTo, Doomed, Pending, ListSites, StatementSites,
         Starts, JumpTypes, PrefixTypes
<1> QED
  BY <1>1, <1>2, <1>5, HeedSteps DEF ParseUnaryExpression, At, Eat, EatAs, Become, Advances

LEMMA NewHeeds ==
  ASSUME Typed, Balanced, Flow, Heed, ParseNewExpression
  PROVE  Heed'
<1>1. status = "running" /\ Top.at \in {"LeftHandSide", "New.target"}
  BY DEF ParseNewExpression, At
<1>2. Top.at \notin Entry
  BY <1>1 DEF Entry
<1>3. Caller.at \in {"New.target", "Unary.postfix"}
  BY <1>1, <1>2, CallersWait, SitesTable
<1>4. Alert
  BY <1>1, HeedSteps, WatchfulAlert
<1>5. /\ Top.at = "LeftHandSide" /\ peek = "NEW" => Moving("LeftHandSide")
      /\ Top.at = "LeftHandSide" => Keeping("Member", "")
      /\ Top.at = "New.target" => Keeping(Caller.at, "") /\ Caller.at # "Statement"
  BY <1>1, <1>3, <1>4
     DEF Alert, Keeping, Moving, KeepsTo, MovesTo, Doomed, Pending, ListSites, StatementSites,
         Starts, JumpTypes
<1> QED
  BY <1>1, <1>2, <1>5, HeedSteps DEF ParseNewExpression, At, Eat, EatAs, Become, Advances

LEMMA MemberHeeds ==
  ASSUME Typed, Balanced, Flow, Heed, ParseMemberExpression
  PROVE  Heed'
<1>1. status = "running" /\ Top.at \in {"Member", "Member.first", "Member.next"}
  BY DEF ParseMemberExpression, At
<1>2. Top.at \notin Entry
  BY <1>1 DEF Entry
<1>3. Caller.at \in {"New.target", "Unary.postfix"}
  BY <1>1, <1>2, CallersWait, SitesTable
<1>4. Alert
  BY <1>1, HeedSteps, WatchfulAlert
<1>5. /\ Top.at = "Member" => Keeping("Primary", "Member.first")
      /\ Top.at = "Member.first" => Keeping("Member.next", "")
      /\ Top.at = "Member.next" /\ peek = "PERIOD" /\ braces' = braces => Moving("Dot")
      /\ Top.at = "Member.next" /\ peek = "LBRACK" => Moving("Assign")
      /\ Top.at = "Member.next" /\ peek = "LPAREN" => Moving("Arguments")
      /\ Top.at = "Member.next" => Keeping(Caller.at, "") /\ Caller.at # "Statement"
  BY <1>1, <1>3, <1>4
     DEF Alert, Keeping, Moving, KeepsTo, MovesTo, Doomed, Pending, ListSites, StatementSites,
         Starts, JumpTypes
<1> QED
  BY <1>1, <1>2, <1>5, HeedSteps DEF ParseMemberExpression, At, Eat, EatAs, Become, Advances, advance

LEMMA DotHeeds ==
  ASSUME Typed, Balanced, Flow, Heed, ParseDotExpression
  PROVE  Heed'
<1>1. status = "running" /\ Top.at \in {"Dot"}
  BY DEF ParseDotExpression, At
<1>2. Top.at \notin Entry
  BY <1>1 DEF Entry
<1>3. Caller.at \in {"New.target", "Unary.postfix"}
  BY <1>1, <1>2, CallersWait, SitesTable
<1>4. Alert
  BY <1>1, HeedSteps, WatchfulAlert
<1>5. /\ Top.at = "Dot" => Moving("Member.next")
  BY <1>1, <1>3, <1>4
     DEF Alert, Keeping, Moving, KeepsTo, MovesTo, Doomed, Pending, ListSites, StatementSites,
         Starts, JumpTypes
<1> QED
  BY <1>1, <1>2, <1>5, HeedSteps DEF ParseDotExpression, At, Eat, EatAs, Become, Advances

LEMMA IndexHeeds ==
  ASSUME Typed, Balanced, Flow, Heed, ParseIndexExpression
  PROVE  Heed'
<1>1. status = "running" /\ Top.at \in {"Index"}
  BY DEF ParseIndexExpression, At
<1>2. Top.at \notin Entry
  BY <1>1 DEF Entry
<1>3. Caller.at \in {"New.target", "Unary.postfix"}
  BY <1>1, <1>2, CallersWait, SitesTable
<1>4. Alert
  BY <1>1, HeedSteps, WatchfulAlert
<1>5. /\ Top.at = "Index" /\ peek = "RBRACK" => Moving("Member.next")
  BY <1>1, <1>3, <1>4
     DEF Alert, Keeping, Moving, KeepsTo, MovesTo, Doomed, Pending, ListSites, StatementSites,
         Starts, JumpTypes
<1> QED
  BY <1>1, <1>2, <1>5, HeedSteps DEF ParseIndexExpression, At, Eat, EatAs, Become, Advances

LEMMA ArgumentsHeeds ==
  ASSUME Typed, Balanced, Flow, Heed, ParseArgumentList
  PROVE  Heed'
<1>1. status = "running" /\ Top.at \in {"Arguments", "Arguments.next"}
  BY DEF ParseArgumentList, At
<1>2. Top.at \notin Entry
  BY <1>1 DEF Entry
<1>3. Caller.at \in {"New.target", "Unary.postfix"}
  BY <1>1, <1>2, CallersWait, SitesTable
<1>4. Alert
  BY <1>1, HeedSteps, WatchfulAlert
<1>5. /\ Top.at = "Arguments" /\ peek = "RPAREN" => Moving("Member.next")
      /\ Top.at = "Arguments" => Keeping("Assign", "Arguments.next")
      /\ Top.at = "Arguments.next" /\ peek = "COMMA" => Moving("Assign")
      /\ Top.at = "Arguments.next" /\ peek = "RPAREN" => Moving("Member.next")
  BY <1>1, <1>3, <1>4
     DEF Alert, Keeping, Moving, KeepsTo, MovesTo, Doomed, Pending, ListSites, StatementSites,
         Starts, JumpTypes
<1> QED
  BY <1>1, <1>2, <1>5, HeedSteps DEF ParseArgumentList, At, Eat, EatAs, Become, Advances

LEMMA PrimaryHeeds ==
  ASSUME Typed, Balanced, Flow, Heed, ParsePrimary
  PROVE  Heed'
<1>1. status = "running" /\ Top.at \in {"Primary", "Paren"}
  BY DEF ParsePrimary, At
<1>2. Top.at \notin Entry
  BY <1>1 DEF Entry
<1>3. Caller.at \in {"Member.first"}
  BY <1>1, <1>2, CallersWait, SitesTable
<1>4. Alert
  BY <1>1, HeedSteps, WatchfulAlert
<1>5. /\ Top.at = "Primary" /\ peek \in LiteralTypes => Moving(Caller.at)
      /\ Top.at = "Primary" /\ peek = "LPAREN" => Moving("Comma")
      /\ Top.at = "Paren" /\ peek = "RPAREN" => Moving(Caller.at)
      /\ Top.at = "Primary" /\ peek = "LBRACK" => Moving("Array")
      /\ Top.at = "Primary" /\ peek = "LBRACE" => Moving("Object")
      /\ Top.at = "Primary" /\ peek = "FUNCTION" => Keeping("Function", "")
  BY <1>1, <1>3, <1>4
     DEF Alert, Keeping, Moving, KeepsTo, MovesTo, Doomed, Pending, ListSites, StatementSites,
         Starts, JumpTypes, LiteralTypes
<1> QED
  BY <1>1, <1>2, <1>5, HeedSteps DEF ParsePrimary, At, Eat, EatAs, Become, Advances

LEMMA ArrayHeeds ==
  ASSUME Typed, Balanced, Flow, Heed, ParseArrayLiteral
  PROVE  Heed'
<1>1. status = "running" /\ Top.at \in {"Array", "Array.next"}
  BY DEF ParseArrayLiteral, At
<1>2. Top.at \notin Entry
  BY <1>1 DEF Entry
<1>3. Caller.at \in {"Member.first"}
  BY <1>1, <1>2, CallersWait, SitesTable
<1>4. Alert
  BY <1>1, HeedSteps, WatchfulAlert
<1>5. /\ Top.at = "Array" /\ peek = "RBRACK" => Moving(Caller.at)
      /\ Top.at = "Array" => Keeping("Assign", "Array.next")
      /\ Top.at = "Array.next" /\ peek = "RBRACK" => Moving(Caller.at)
      /\ Top.at = "Array.next" /\ peek = "COMMA" => Moving("Assign")
  BY <1>1, <1>3, <1>4
     DEF Alert, Keeping, Moving, KeepsTo, MovesTo, Doomed, Pending, ListSites, StatementSites,
         Starts, JumpTypes
<1> QED
  BY <1>1, <1>2, <1>5, HeedSteps DEF ParseArrayLiteral, At, Eat, EatAs, Become, Advances

LEMMA ObjectHeeds ==
  ASSUME Typed, Balanced, Flow, Heed, ParseObjectLiteral
  PROVE  Heed'
<1>1. status = "running" /\ Top.at \in {"Object", "Object.name", "Object.value", "Object.assign",
                                       "Object.next"}
  BY DEF ParseObjectLiteral, At
<1>2. Top.at \notin Entry
  BY <1>1 DEF Entry
<1>3. Caller.at \in {"Member.first"}
  BY <1>1, <1>2, CallersWait, SitesTable
<1>4. Alert
  BY <1>1, HeedSteps, WatchfulAlert
<1>5. /\ Top.at = "Object" /\ peek = "RBRACE" => Moving(Caller.at)
      /\ Top.at = "Object" => Keeping("Object.name", "")
      /\ Top.at = "Object.name" => Moving("Object.value")
      /\ Top.at = "Object.value" /\ peek = "COLON" => Moving("Assign")
      /\ Top.at = "Object.value" /\ peek = "LPAREN" => Keeping("Method", "Object.assign")
      /\ Top.at = "Object.value" /\ peek = "IDENTIFIER" => Moving("Method")
      /\ Top.at = "Object.value" => Keeping("Object.next", "")
      /\ Top.at = "Object.assign" => Keeping("Object.next", "")
      /\ Top.at = "Object.next" /\ peek = "RBRACE" => Moving(Caller.at)
      /\ Top.at = "Object.next" /\ peek = "COMMA" => Moving("Object.name")
  BY <1>1, <1>3, <1>4
     DEF Alert, Keeping, Moving, KeepsTo, MovesTo, Doomed, Pending, ListSites, StatementSites,
         Starts, JumpTypes
<1> QED
  BY <1>1, <1>2, <1>5, HeedSteps DEF ParseObjectLiteral, At, Eat, EatAs, Become, Advances

LEMMA MethodHeeds ==
  ASSUME Typed, Balanced, Flow, Heed, ParseObjectMethod
  PROVE  Heed'
<1>1. status = "running" /\ Top.at \in {"Method", "Method.body", "Method.end"}
  BY DEF ParseObjectMethod, At
<1>2. Top.at \notin Entry
  BY <1>1 DEF Entry
<1>3. Caller.at \in {"Object.assign"}
  BY <1>1, <1>2, CallersWait, SitesTable
<1>4. Alert
  BY <1>1, HeedSteps, WatchfulAlert
<1>5. /\ Top.at = "Method" => Keeping("Parameters", "Method.body")
      /\ Top.at = "Method.body" => Keeping("Block", "Method.end")
      /\ Top.at = "Method.end" => Keeping(Caller.at, "") /\ Caller.at # "Statement"
  BY <1>1, <1>3, <1>4
     DEF Alert, Keeping, Moving, KeepsTo, MovesTo, Doomed, Pending, ListSites, StatementSites,
         Starts, JumpTypes
<1> QED
  BY <1>1, <1>2, <1>5, HeedSteps DEF ParseObjectMethod, At, Eat, EatAs, Become, Advances

LEMMA IfHeeds ==
  ASSUME Typed, Balanced, Flow, Heed, ParseIfStatement
  PROVE  Heed'
<1>1. status = "running" /\ Top.at \in {"If", "If.open", "If.close", "If.body", "If.else"}
  BY DEF ParseIfStatement, At
<1>2. Top.at \notin Entry
  BY <1>1 DEF Entry
<1>3. Caller.at \in StatementSites
  BY <1>1, <1>2, CallersWait, SitesTable
<1>4. Alert
  BY <1>1, HeedSteps, WatchfulAlert
<1>5. /\ Top.at = "If" => Moving("If.open")
      /\ Top.at = "If.open" /\ peek = "LPAREN" => Moving("Comma")
      /\ Top.at = "If.close" /\ peek = "RPAREN" => Moving("Statement")
      /\ Top.at = "If.body" /\ peek = "ELSE" => Moving("Statement")
      /\ Top.at = "If.body" /\ peek # "ELSE" => Keeping(Caller.at, "") /\ Caller.at # "Statement"
      /\ Top.at = "If.else" => Keeping(Caller.at, "") /\ Caller.at # "Statement"
  BY <1>1, <1>3, <1>4
     DEF Alert, Keeping, Moving, KeepsTo, MovesTo, Doomed, Pending, ListSites, StatementSites,
         Starts, JumpTypes
<1> QED
  BY <1>1, <1>2, <1>5, HeedSteps DEF ParseIfStatement, At, Eat, EatAs, Become, Advances

LEMMA WhileHeeds ==
  ASSUME Typed, Balanced, Flow, Heed, ParseWhileStatement
  PROVE  Heed'
<1>1. status = "running" /\ Top.at \in {"While", "While.open", "While.close", "While.body"}
  BY DEF ParseWhileStatement, At
<1>2. Top.at \notin Entry
  BY <1>1 DEF Entry
<1>3. Caller.at \in StatementSites
  BY <1>1, <1>2, CallersWait, SitesTable
<1>4. Alert
  BY <1>1, HeedSteps, WatchfulAlert
<1>5. /\ Top.at = "While" => Moving("While.open")
      /\ Top.at = "While.open" /\ peek = "LPAREN" => Moving("Comma")
      /\ Top.at = "While.close" /\ peek = "RPAREN" => Moving("Statement")
      /\ Top.at = "While.body" => Keeping(Caller.at, "") /\ Caller.at # "Statement"
  BY <1>1, <1>3, <1>4
     DEF Alert, Keeping, Moving, KeepsTo, MovesTo, Doomed, Pending, ListSites, StatementSites,
         Starts, JumpTypes
<1> QED
  BY <1>1, <1>2, <1>5, HeedSteps DEF ParseWhileStatement, At, Eat, EatAs, Become, Advances

LEMMA DoHeeds ==
  ASSUME Typed, Balanced, Flow, Heed, ParseDoWhileStatement
  PROVE  Heed'
<1>1. status = "running" /\ Top.at \in {"Do", "Do.while", "Do.open", "Do.close", "Do.end"}
  BY DEF ParseDoWhileStatement, At
<1>2. Top.at \notin Entry
  BY <1>1 DEF Entry
<1>3. Caller.at \in StatementSites
  BY <1>1, <1>2, CallersWait, SitesTable
<1>4. Alert
  BY <1>1, HeedSteps, WatchfulAlert
<1>5. /\ Top.at = "Do" => Moving("Statement")
      /\ Top.at = "Do.while" /\ peek = "WHILE" => Moving("Do.open")
      /\ Top.at = "Do.open" /\ peek = "LPAREN" => Moving("Comma")
      /\ Top.at = "Do.close" /\ peek = "RPAREN" => Moving("Do.end")
      /\ Top.at = "Do.end" /\ peek = "SEMICOLON" => Moving(Caller.at)
  BY <1>1, <1>3, <1>4
     DEF Alert, Keeping, Moving, KeepsTo, MovesTo, Doomed, Pending, ListSites, StatementSites,
         Starts, JumpTypes
<1> QED
  BY <1>1, <1>2, <1>5, HeedSteps DEF ParseDoWhileStatement, At, Eat, EatAs, Become, Advances

LEMMA ParametersHeeds ==
  ASSUME Typed, Balanced, Flow, Heed, ParseParameterList
  PROVE  Heed'
<1>1. status = "running" /\ Top.at \in {"Parameters", "Parameters.first", "Parameters.name",
                                       "Parameters.next"}
  BY DEF ParseParameterList, At
<1>2. Top.at \notin Entry
  BY <1>1 DEF Entry
<1>3. Caller.at \in {"Function.body", "Method.body"}
  BY <1>1, <1>2, CallersWait, SitesTable
<1>4. Alert
  BY <1>1, HeedSteps, WatchfulAlert
<1>5. /\ Top.at = "Parameters" /\ peek = "LPAREN" => Moving("Parameters.first")
      /\ Top.at = "Parameters.first" /\ peek = "RPAREN" => Moving(Caller.at)
      /\ Top.at = "Parameters.first" /\ peek = "IDENTIFIER" => Moving("Parameters.next")
      /\ Top.at = "Parameters.name" /\ peek = "IDENTIFIER" => Moving("Parameters.next")
      /\ Top.at = "Parameters.next" /\ peek = "RPAREN" => Moving(Caller.at)
      /\ Top.at = "Parameters.next" /\ peek = "COMMA" => Moving("Parameters.name")
  BY <1>1, <1>3, <1>4
     DEF Alert, Keeping, Moving, KeepsTo, MovesTo, Doomed, Pending, ListSites, StatementSites,
         Starts, JumpTypes
<1> QED
  BY <1>1, <1>2, <1>5, HeedSteps DEF ParseParameterList, At, Eat, EatAs, Become, Advances

LEMMA BlockHeeds ==
  ASSUME Typed, Balanced, Flow, Heed, ParseBlockStatement
  PROVE  Heed'
<1>1. status = "running" /\ Top.at \in {"Block", "Block.next", "Block.statement"}
  BY DEF ParseBlockStatement, At
<1>2. Top.at \notin Entry
  BY <1>1 DEF Entry
<1>3. Caller.at \in BlockSites
  BY <1>1, <1>2, CallersWait, SitesTable
<1>4. Alert
  BY <1>1, HeedSteps, WatchfulAlert
<1>5. /\ Top.at = "Block" => Moving("Block.next")
      /\ Top.at = "Block.next" /\ peek = "RBRACE" => Moving(Caller.at)
      /\ Top.at = "Block.next" => Keeping("Statement", "Block.statement")
      /\ Top.at = "Block.statement" => Keeping("Block.next", "")
  BY <1>1, <1>3, <1>4
     DEF Alert, Keeping, Moving, KeepsTo, MovesTo, Doomed, Pending, ListSites, StatementSites,
         Starts, JumpTypes, BlockSites
<1>6. Open => Goto("Block.next", <<>>)
  BY DEF Open
<1> QED
  BY <1>1, <1>2, <1>5, <1>6, HeedSteps DEF ParseBlockStatement, At, Eat, EatAs, Become, Advances

LEMMA ReturnHeeds ==
  ASSUME Typed, Balanced, Flow, Heed, ParseReturnStatement
  PROVE  Heed'
<1>1. status = "running" /\ Top.at \in {"Return", "Return.value", "Return.end"}
  BY DEF ParseReturnStatement, At
<1>2. Top.at \notin Entry
  BY <1>1 DEF Entry
<1>3. Caller.at \in StatementSites
  BY <1>1, <1>2, CallersWait, SitesTable
<1>4. Alert
  BY <1>1, HeedSteps, WatchfulAlert
<1>5. /\ Top.at = "Return" => Moving("Return.value")
      /\ Top.at = "Return.value" /\ peek = "SEMICOLON" => Keeping(Caller.at, "") /\ Caller.at # "Statement"
      /\ Top.at = "Return.value" /\ peek # "SEMICOLON" => Keeping("Comma", "Return.end")
      /\ Top.at = "Return.end" /\ peek = "SEMICOLON" => Moving(Caller.at)
  BY <1>1, <1>3, <1>4
     DEF Alert, Keeping, Moving, KeepsTo, MovesTo, Doomed, Pending, ListSites, StatementSites,
         Starts, JumpTypes
<1> QED
  BY <1>1, <1>2, <1>5, HeedSteps DEF ParseReturnStatement, At, Eat, EatAs, Become, Advances

LEMMA DeclarationHeeds ==
  ASSUME Typed, Balanced, Flow, Heed, ParseDeclaration
  PROVE  Heed'
<1>1. status = "running" /\ Top.at \in {"Declaration", "Declaration.name", "Declaration.value"}
  BY DEF ParseDeclaration, At
<1>2. Top.at \notin Entry
  BY <1>1 DEF Entry
<1>3. Caller.at \in {"Variable.next"}
  BY <1>1, <1>2, CallersWait, SitesTable
<1>4. Alert
  BY <1>1, HeedSteps, WatchfulAlert
<1>5. /\ Top.at = "Declaration" /\ peek = "IDENTIFIER" => Moving("Declaration.name")
      /\ Top.at = "Declaration.name" => Keeping(Caller.at, "") /\ Caller.at # "Statement"
      /\ Top.at = "Declaration.name" /\ peek = "ASSIGN" => Moving("Assign")
      /\ Top.at = "Declaration.value" => Keeping(Caller.at, "") /\ Caller.at # "Statement"
  BY <1>1, <1>3, <1>4
     DEF Alert, Keeping, Moving, KeepsTo, MovesTo, Doomed, Pending, ListSites, StatementSites,
         Starts, JumpTypes
<1> QED
  BY <1>1, <1>2, <1>5, HeedSteps DEF ParseDeclaration, At, Eat, EatAs, Become, Advances

LEMMA VariableHeeds ==
  ASSUME Typed, Balanced, Flow, Heed, ParseVariableStatement
  PROVE  Heed'
<1>1. status = "running" /\ Top.at \in {"Variable", "Variable.next"}
  BY DEF ParseVariableStatement, At
<1>2. Top.at \notin Entry
  BY <1>1 DEF Entry
<1>3. Caller.at \in StatementSites \union {"For.head"}
  BY <1>1, <1>2, CallersWait, SitesTable
<1>4. Alert
  BY <1>1, HeedSteps, WatchfulAlert
<1>5. /\ Top.at = "Variable" => Moving("Declaration")
      /\ Top.at = "Variable.next" /\ peek = "SEMICOLON" => Moving(Caller.at)
      /\ Top.at = "Variable.next" => Keeping(Caller.at, "") /\ Caller.at # "Statement"
      /\ Top.at = "Variable.next" /\ peek = "COMMA" => Moving("Declaration")
  BY <1>1, <1>3, <1>4
     DEF Alert, Keeping, Moving, KeepsTo, MovesTo, Doomed, Pending, ListSites, StatementSites,
         Starts, JumpTypes
<1> QED
  BY <1>1, <1>2, <1>5, HeedSteps DEF ParseVariableStatement, At, Eat, EatAs, Become, Advances

LEMMA CaseHeeds ==
  ASSUME Typed, Balanced, Flow, Heed, ParseCaseBlock
  PROVE  Heed'
<1>1. status = "running" /\ Top.at \in {"Case", "Case.first", "Case.do", "Case.colon",
                                       "Case.statement", "Case.while"}
  BY DEF ParseCaseBlock, At
<1>2. Top.at \notin Entry
  BY <1>1 DEF Entry
<1>3. Caller.at \in {"Switch.case"}
  BY <1>1, <1>2, CallersWait, SitesTable
<1>4. Alert
  BY <1>1, HeedSteps, WatchfulAlert
<1>5. /\ Top.at = "Case" => Moving("Assign")
      /\ Top.at = "Case.first" /\ peek = "COLON" => Moving("Case.do")
      /\ Top.at = "Case.do" /\ peek = "CASE" => Moving("Assign")
      /\ Top.at = "Case.colon" /\ peek = "COLON" => Moving("Case.while")
      /\ Top.at = "Case.do" => Keeping("Statement", "Case.statement")
      /\ Top.at = "Case.statement" => Keeping("Case.while", "")
      /\ Top.at = "Case.while" => Keeping("Case.do", "")
      /\ Top.at = "Case.while" /\ peek \in ClauseEnds => Keeping(Caller.at, "") /\ Caller.at # "Statement"
  BY <1>1, <1>3, <1>4
     DEF Alert, Keeping, Moving, KeepsTo, MovesTo, Doomed, Pending, ListSites, StatementSites,
         Starts, JumpTypes, ClauseEnds
<1> QED
  BY <1>1, <1>2, <1>5, HeedSteps DEF ParseCaseBlock, At, Eat, EatAs, Become, Advances

LEMMA DefaultHeeds ==
  ASSUME Typed, Balanced, Flow, Heed, ParseDefaultClause
  PROVE  Heed'
<1>1. status = "running" /\ Top.at \in {"Default", "Default.colon", "Default.while"}
  BY DEF ParseDefaultClause, At
<1>2. Top.at \notin Entry
  BY <1>1 DEF Entry
<1>3. Caller.at \in {"Switch.default"}
  BY <1>1, <1>2, CallersWait, SitesTable
<1>4. Alert
  BY <1>1, HeedSteps, WatchfulAlert
<1>5. /\ Top.at = "Default" => Moving("Default.colon")
      /\ Top.at = "Default.colon" /\ peek = "COLON" => Moving("Statement")
      /\ Top.at = "Default.while" => Keeping("Statement", "Default.while")
      /\ Top.at = "Default.while" /\ peek \in ClauseEnds => Keeping(Caller.at, "") /\ Caller.at # "Statement"
  BY <1>1, <1>3, <1>4
     DEF Alert, Keeping, Moving, KeepsTo, MovesTo, Doomed, Pending, ListSites, StatementSites,
         Starts, JumpTypes, ClauseEnds
<1> QED
  BY <1>1, <1>2, <1>5, HeedSteps DEF ParseDefaultClause, At, Eat, EatAs, Become, Advances

LEMMA SwitchHeeds ==
  ASSUME Typed, Balanced, Flow, Heed, ParseSwitchStatement
  PROVE  Heed'
<1>1. status = "running" /\ Top.at \in {"Switch", "Switch.open", "Switch.close", "Switch.brace",
                                       "Switch.clause", "Switch.case", "Switch.default"}
  BY DEF ParseSwitchStatement, At
<1>2. Top.at \notin Entry
  BY <1>1 DEF Entry
<1>3. Caller.at \in StatementSites
  BY <1>1, <1>2, CallersWait, SitesTable
<1>4. Alert
  BY <1>1, HeedSteps, WatchfulAlert
<1>5. /\ Top.at = "Switch" => Moving("Switch.open")
      /\ Top.at = "Switch.open" /\ peek = "LPAREN" => Moving("Assign")
      /\ Top.at = "Switch.close" /\ peek = "RPAREN" => Moving("Switch.brace")
      /\ Top.at = "Switch.brace" /\ peek = "LBRACE" => Moving("Switch.clause")
      /\ Top.at = "Switch.clause" /\ peek = "CASE" => Keeping("Case", "Switch.case")
      /\ Top.at = "Switch.case" => Keeping("Switch.clause", "")
      /\ Top.at = "Switch.clause" /\ peek = "DEFAULT" => Keeping("Default", "Switch.default")
      /\ Top.at = "Switch.default" => Keeping("Switch.clause", "")
      /\ Top.at = "Switch.clause" /\ peek = "RBRACE" => Moving(Caller.at)
  BY <1>1, <1>3, <1>4
     DEF Alert, Keeping, Moving, KeepsTo, MovesTo, Doomed, Pending, ListSites, StatementSites,
         Starts, JumpTypes
<1> QED
  BY <1>1, <1>2, <1>5, HeedSteps DEF ParseSwitchStatement, At, Eat, EatAs, Become, Advances

LEMMA BreakHeeds ==
  ASSUME Typed, Balanced, Flow, Heed, ParseBreakStatement
  PROVE  Heed'
<1>1. status = "running" /\ Top.at \in {"Break", "Break.label"}
  BY DEF ParseBreakStatement, At
<1>2. Top.at \notin Entry
  BY <1>1 DEF Entry
<1>3. Caller.at \in StatementSites
  BY <1>1, <1>2, CallersWait, SitesTable
<1>4. Alert
  BY <1>1, HeedSteps, WatchfulAlert
<1>5. /\ Top.at = "Break" => Moving("Break.label")
      /\ Top.at = "Break.label" => Keeping(Caller.at, "") /\ Caller.at # "Statement"
  BY <1>1, <1>3, <1>4
     DEF Alert, Keeping, Moving, KeepsTo, MovesTo, Doomed, Pending, ListSites, StatementSites,
         Starts, JumpTypes
<1> QED
  BY <1>1, <1>2, <1>5, HeedSteps DEF ParseBreakStatement, At, Eat, EatAs, Become, Advances

LEMMA TryHeeds ==
  ASSUME Typed, Balanced, Flow, Heed, ParseTryCatchStatement
  PROVE  Heed'
<1>1. status = "running" /\ Top.at \in {"Try", "Try.catch", "Try.open", "Try.close",
                                       "Try.handler", "Try.finally", "Try.end"}
  BY DEF ParseTryCatchStatement, At
<1>2. Top.at \notin Entry
  BY <1>1 DEF Entry
<1>3. Caller.at \in StatementSites
  BY <1>1, <1>2, CallersWait, SitesTable
<1>4. Alert
  BY <1>1, HeedSteps, WatchfulAlert
<1>5. /\ Top.at = "Try" => Moving("Block")
      /\ Top.at = "Try.catch" /\ peek = "CATCH" => Moving("Try.open")
      /\ Top.at = "Try.open" /\ peek = "LPAREN" => Moving("Comma")
      /\ Top.at = "Try.close" /\ peek = "RPAREN" => Moving("Block")
      /\ Top.at = "Try.handler" => Keeping("Try.finally", "")
      /\ Top.at = "Try.catch" => Keeping("Try.finally", "")
      /\ Top.at = "Try.finally" /\ peek = "FINALLY" => Moving("Block")
      /\ Top.at = "Try.finally" => Keeping(Caller.at, "") /\ Caller.at # "Statement"
      /\ Top.at = "Try.end" => Keeping(Caller.at, "") /\ Caller.at # "Statement"
  BY <1>1, <1>3, <1>4
     DEF Alert, Keeping, Moving, KeepsTo, MovesTo, Doomed, Pending, ListSites, StatementSites,
         Starts, JumpTypes
<1> QED
  BY <1>1, <1>2, <1>5, HeedSteps DEF ParseTryCatchStatement, At, Eat, EatAs, Become, Advances

LEMMA ThrowHeeds ==
  ASSUME Typed, Balanced, Flow, Heed, ParseThrowStatement
  PROVE  Heed'
<1>1. status = "running" /\ Top.at \in {"Throw", "Throw.end"}
  BY DEF ParseThrowStatement, At
<1>2. Top.at \notin Entry
  BY <1>1 DEF Entry
<1>3. Caller.at \in StatementSites
  BY <1>1, <1>2, CallersWait, SitesTable
<1>4. Alert
  BY <1>1, HeedSteps, WatchfulAlert
<1>5. /\ Top.at = "Throw" => Moving("Comma")
      /\ Top.at = "Throw.end" => Keeping(Caller.at, "") /\ Caller.at # "Statement"
  BY <1>1, <1>3, <1>4
     DEF Alert, Keeping, Moving, KeepsTo, MovesTo, Doomed, Pending, ListSites, StatementSites,
         Starts, JumpTypes
<1> QED
  BY <1>1, <1>2, <1>5, HeedSteps DEF ParseThrowStatement, At, Eat, EatAs, Become, Advances

LEMMA FunctionHeeds ==
  ASSUME Typed, Balanced, Flow, Heed, ParseFunctionStatement
  PROVE  Heed'
<1>1. status = "running" /\ Top.at \in FunctionLabels
  BY DEF ParseFunctionStatement, At, FunctionLabels
<1>2. Top.at \notin Entry /\ Has("FUNCTION")
  BY <1>1, HeedSteps DEF Entry, FunctionLabels
<1>3. \A label, under : Keeping(label, under) /\ Moving(label)
  BY <1>2 DEF Keeping, Moving
<1>4. Caller.at # "Statement"
  BY <1>1, <1>2, CallersWait, SitesTable DEF StatementSites
<1> QED
  BY <1>1, <1>2, <1>3, <1>4, HeedSteps DEF ParseFunctionStatement, At, Advances

(* The one step that takes the `;` that is due, and those that hand over.  *)
LEMMA StatementHeeds ==
  ASSUME Typed, Balanced, Flow, Heed, ParseStatement
  PROVE  Heed'
<1>1. status = "running" /\ Top.at \in {"Statement", "Expression.end"}
  BY DEF ParseStatement, At
<1>2. Top.at \notin Entry
  BY <1>1 DEF Entry
<1>3. Caller.at \in StatementSites
  BY <1>1, <1>2, CallersWait, SitesTable
<1>4. Alert
  BY <1>1, HeedSteps, WatchfulAlert
<1>5. ASSUME Top.at = "Statement", NEW t, t = peek, StatementOf(t) # "Expression"
      PROVE  Keeping(StatementOf(t), "") /\ StatementOf(t) # "Statement"
  <2>1. /\ StatementOf(t) \in {"If", "For", "Return", "While", "Do", "Switch", "Break",
                               "Try", "Throw", "Function", "Block", "Variable"}
        /\ t \in JumpTypes => StatementOf(t) \in {"Return", "Break"}
        /\ t # "SEMICOLON" /\ t # "ELSE"
    BY <1>5 DEF StatementOf, JumpTypes, DeclaratorTypes
  <2> QED
    BY <1>4, <1>5, <2>1 DEF Alert, Keeping, KeepsTo
<1>6. /\ Top.at = "Statement" /\ peek = "SEMICOLON" => Moving(Caller.at)
      /\ Top.at = "Statement" /\ peek # "SEMICOLON" => Keeping("Comma", "Expression.end")
      /\ Top.at = "Expression.end" /\ peek \in {"COLON", "SEMICOLON"} => Moving(Caller.at)
  BY <1>1, <1>3, <1>4
     DEF Alert, Keeping, Moving, KeepsTo, MovesTo, Doomed, Pending, ListSites, StatementSites,
         Starts, JumpTypes
<1> QED
  BY <1>1, <1>2, <1>5, <1>6, HeedSteps DEF ParseStatement, At, Eat, EatAs, Become, Advances

LEMMA ForHeeds ==
  ASSUME Typed, Balanced, Flow, Heed, ParseForStatement
  PROVE  Heed'
<1>1. status = "running" /\ Top.at \in {"For", "For.open"} \union ForLabels
  BY DEF ParseForStatement, At, ForLabels
<1>2. Top.at \notin Entry
  BY <1>1 DEF Entry, ForLabels
<1>3. Caller.at \in StatementSites
  BY <1>1, <1>2, CallersWait, SitesTable
<1>4. Alert
  BY <1>1, HeedSteps, WatchfulAlert
<1>5. /\ Top.at = "For" => Moving("For.open")
      /\ Top.at = "For.open" /\ peek = "LPAREN" => Moving("For.init")
      /\ Top.at = "For.init" /\ peek \in DeclaratorTypes => Keeping("Variable", "For.head")
      /\ Top.at = "For.init" /\ peek = "SEMICOLON" => Moving("For.condition")
      /\ Top.at = "For.init" => Keeping("Comma", "For.head")
      /\ Top.at = "For.head" /\ peek = "IN" => Moving("Assign")
      /\ Top.at \in {"For.in", "For.head", "For.third", "For.update"} /\ peek = "RPAREN" =>
           Moving("Statement")
      /\ Top.at = "For.head" => Keeping("For.condition", "")
      /\ Top.at = "For.head" /\ peek = "SEMICOLON" => Moving("For.condition")
      /\ Top.at \in {"For.condition", "For.second"} /\ peek = "SEMICOLON" => Moving("For.update")
      /\ Top.at = "For.condition" => Keeping("Comma", "For.second")
      /\ Top.at = "For.update" => Keeping("Comma", "For.third")
      /\ Top.at = "For.body" => Keeping(Caller.at, "") /\ Caller.at # "Statement"
  BY <1>3, <1>4
     DEF Alert, Keeping, Moving, KeepsTo, MovesTo, Doomed, Pending, ListSites, StatementSites,
         Starts, JumpTypes, DeclaratorTypes
<1>6. ASSUME At("For.open") PROVE Heed'
  <2>1. CASE peek = "LPAREN" /\ advance(FALSE) /\ UNCHANGED status
             /\ stack' = Append(Callers, Frame("For.init", <<forIn>>, Top.from))
    <3>1. Top'.at = "For.init" /\ status' = "running"
      BY <1>1, <2>1, NewTops
    <3>2. ~Has("FUNCTION") => MovesTo(Top'.at)
      BY <1>5, <1>6, <2>1, <3>1 DEF At, Moving
    <3> QED
      BY <1>1, <2>1, <3>1, <3>2, HeedMoved
  <2> QED
    BY <1>1, <1>6, <2>1, HeedSteps DEF ParseForStatement, At
<1>7. CASE Top.at \in {"For", "For.init", "For.head", "For.in"}
  BY <1>1, <1>2, <1>5, <1>7, HeedSteps
     DEF ParseForStatement, ParseForInStatement, At, Eat, EatAs, Advances
<1>8. CASE Top.at \in {"For.condition", "For.second", "For.update", "For.third", "For.body"}
  BY <1>1, <1>2, <1>5, <1>8, HeedSteps
     DEF ParseForStatement, ParseForInStatement, At, Eat, EatAs, Advances
<1> QED
  BY <1>1, <1>6, <1>7, <1>8 DEF At, ForLabels

LEMMA RhsHeeds ==
  ASSUME Typed, Balanced, Flow, Heed, ParseBinaryExpressionRhs
  PROVE  Heed'
<1>1. status = "running" /\ Top.at \in RhsLabels
  BY DEF ParseBinaryExpressionRhs, At, RhsLabels
<1>2. Top.at \notin Entry
  BY <1>1 DEF Entry, RhsLabels
<1>3. Caller.at \in {"Ternary.first", "Rhs.merge"}
  BY <1>1, <1>2, CallersWait, SitesTable
<1>4. Alert
  BY <1>1, HeedSteps, WatchfulAlert
<1>5. mem[1] \in Int /\ mem[1] >= 1
  BY <1>1, BalancedSteps DEF LevelOK
<1>6. ASSUME Precedence(peek) >= mem[1] PROVE peek \notin JumpTypes
  <2>1. \A t \in JumpTypes : Precedence(t) = 0
    BY DEF JumpTypes, Precedence, Levels, AssignTypes
  <2> QED
    BY <1>5, <1>6, <2>1
<1>7. /\ Precedence(peek) >= mem[1] => Moving("Unary")
      /\ \A under : Keeping("Rhs", under)
      /\ Keeping(Caller.at, "") /\ Caller.at # "Statement"
  BY <1>1, <1>3, <1>4, <1>6
     DEF Alert, Keeping, Moving, KeepsTo, MovesTo, Doomed, Pending, ListSites, StatementSites,
         Starts, RhsLabels
<1>8. ASSUME Keep, UNCHANGED status, NEW more, NEW first,
             stack' = Callers \o <<Frame("Rhs.merge", mem, Top.from), Frame("Rhs", more, first)>>
      PROVE  Heed'
  <2>1. Top'.at = "Rhs" /\ Caller'.at = "Rhs.merge" /\ status' = "running"
    BY <1>1, <1>8, NewTops
  <2> QED
    BY <1>1, <1>7, <1>8, <2>1, HeedKept DEF Keeping
<1> QED
  BY <1>1, <1>2, <1>7, <1>8, HeedSteps DEF ParseBinaryExpressionRhs, At, Advances

(* The program's end comes with no else.                                   *)
LEMMA ProgramHeeds ==
  ASSUME Typed, Balanced, Flow, Heed, ParseProgram
  PROVE  Heed'
<1>1. status = "running" /\ Top.at \in {"Program", "Program.statement"}
  BY DEF ParseProgram, At
<1>2. Alert
  BY <1>1, HeedSteps, WatchfulAlert
<1>3. /\ Top.at = "Program" => Keeping("Statement", "Program.statement")
      /\ Top.at = "Program.statement" => Keeping("Program", "")
  BY <1>2
     DEF Alert, Keeping, KeepsTo, Doomed, Pending, ListSites, StatementSites, Starts, JumpTypes
<1>4. ASSUME Keep, peek = "END_OF_FILE", status' = "done" PROVE Heed'
  <2>1. SUFFICES ASSUME ~Has("FUNCTION"), NEW i \in 1..here - 2 PROVE ~CutOff(i)
    BY <1>4, KeptTokens DEF Heed, JumpsEndIfs
  <2>2. Watchful
    BY <1>1, <2>1 DEF Heed
  <2>3. here \in Nat
    BY DEF Typed, ReadOK, here
  <2>4. CASE i = here - 2
    <3>1. i + 2 = here
      BY <2>3, <2>4
    <3> QED
      BY <1>4, <3>1 DEF CutOff, peek
  <2>5. CASE i # here - 2
    <3>1. i \in 1..here - 3
      BY <2>3, <2>5
    <3> QED
      BY <2>2, <3>1 DEF Watchful
  <2> QED
    BY <2>4, <2>5
<1> QED
  BY <1>1, <1>3, <1>4, HeedSteps DEF ParseProgram, At

(* All of them.                                                            *)
LEMMA HeedOfExpressions ==
  ASSUME Typed, Balanced, Flow, Heed, Expressions
  PROVE  Heed'
  BY CommaHeeds, AssignHeeds, TernaryHeeds, BinaryHeeds, RhsHeeds, UnaryHeeds, NewHeeds,
     MemberHeeds, DotHeeds, IndexHeeds, ArgumentsHeeds, PrimaryHeeds, ArrayHeeds, ObjectHeeds,
     MethodHeeds DEF Expressions

LEMMA HeedOfStatements ==
  ASSUME Typed, Balanced, Flow, Heed, Statements
  PROVE  Heed'
  BY StatementHeeds, IfHeeds, ForHeeds, WhileHeeds, DoHeeds, ParametersHeeds, FunctionHeeds,
     BlockHeeds, ReturnHeeds, DeclarationHeeds, VariableHeeds, CaseHeeds, DefaultHeeds,
     SwitchHeeds, BreakHeeds, TryHeeds, ThrowHeeds DEF Statements

LEMMA HeedNext ==
  ASSUME Typed, Balanced, Flow, Heed, [Next]_vars
  PROVE  Heed'
<1>1. ASSUME UnwindLoop \/ UnwindRest PROVE Heed'
  BY <1>1 DEF UnwindLoop, UnwindRest, Heed
<1>2. ASSUME Finished \/ UNCHANGED vars PROVE Heed'
  <2>1. Keep /\ UNCHANGED <<stack, status>>
    BY <1>2 DEF Finished, vars, Keep
  <2>2. Top' = Top /\ Caller' = Caller
    BY <2>1 DEF Top, Caller
  <2>3. Watchful => Watchful'
    BY <2>1, <2>2, KeptTokens DEF Watchful
  <2>4. JumpsEndIfs => JumpsEndIfs'
    BY <2>1, KeptTokens DEF JumpsEndIfs
  <2> QED
    BY <2>1, <2>3, <2>4, KeptTokens DEF Heed
<1> QED
  BY <1>1, <1>2, ProgramHeeds, HeedOfExpressions, HeedOfStatements DEF Next, Step

LEMMA HeedInit ==
  ASSUME Init
  PROVE  Heed
<1>1. stack = <<Frame("Program", <<>>, 1)>> /\ here = 1 /\ status = "running"
  BY DEF Init, here
<1>2. Top.at = "Program"
  BY <1>1 DEF Top, Frame
<1>3. ~Cut /\ ~Due
  BY <1>1 DEF Cut, Due
<1>4. \A i \in 1..here - 3 : ~CutOff(i)
  BY <1>1
<1> QED
  BY <1>1, <1>2, <1>3, <1>4 DEF Heed, Watchful, Starts

(* An else belongs to the nearest if that can take it: ParseIfStatement    *)
(* looks for it as soon as the body is parsed, so no accepted text's tree  *)
(* has an if with an else around one that could have had it; and after a   *)
(* jump's ';', which ParseReturnStatement, ParseBreakStatement and         *)
(* ParseContinueStatement leave unread, no if takes an else any more.      *)
THEOREM ElsesBelong == Spec => []NearestElse
<1>1. Typed /\ [Next]_vars => Typed'
  BY TypedNext, InvNext DEF Typed
<1>2. Typed /\ Balanced /\ [Next]_vars => Balanced'
  BY BalancedNext
<1>3. Typed /\ Balanced /\ Flow /\ [Next]_vars => Flow'
  BY FlowNext
<1>4. Typed /\ Flow /\ Shapes /\ [Next]_vars => Shapes'
  BY ShapesNext
<1>5. Typed /\ Balanced /\ Flow /\ Heed /\ [Next]_vars => Heed'
  BY HeedNext
<1>6. Typed /\ Shapes /\ Heed => NearestElse
  BY ShapesPlaceElses DEF NearestElse, Heed, Typed
<1> QED
  BY TypedInit, BalancedInit, FlowInit, ShapesInit, HeedInit,
     <1>1, <1>2, <1>3, <1>4, <1>5, <1>6, PTL DEF Spec
=============================================================================
