---------------------------- MODULE Sample_proofs ----------------------------
(***************************************************************************)
(* The printer's indentation, for every tree the parser makes: what each   *)
(* Visit does takes the indentation back to where the Visit found it, and  *)
(* in texts without else and switch every closing brace stands under its   *)
(* opening one.  What a Visit does is followed as a path through four      *)
(* places in a line of output (Takes).                                     *)
(***************************************************************************)
EXTENDS Sample, ParserNodes_proofs

-----------------------------------------------------------------------------
(* The paths of a Visit.                                                   *)

(* From an indentation and a place to those after one command.  At "start" *)
(* the line is fresh, at "tabbed" it has its indentation, at "opened" it   *)
(* is fresh after a brace or where one is to be closed, and at "closing"   *)
(* it has the indentation for that.  Only an if-else opens a brace where   *)
(* another has not been closed, and only a switch visits a child without   *)
(* an indentation.                                                         *)
Does(c, k, at, m, to, seen) ==
  /\ k \in Nat /\ m \in Nat
  /\ \/ c.do = "tabbed" /\ m = k /\ at = "start" /\ to = "tabbed"
     \/ c.do = "tabbed" /\ m = k /\ at = "opened" /\ to = "closing"
     \/ c.do = "tab++" /\ m = k + 1 /\ at = "opened" /\ to = "start"
     \/ c.do = "tab--" /\ k = m + 1 /\ at = "start" /\ to = "opened"
     \/ c.do = "open" /\ m = k /\ to = "opened" /\ (at = "tabbed" \/ (at = "closing" /\ seen # {}))
     \/ c.do = "close" /\ m = k /\ at = "closing" /\ to = "start"
     \/ c.do = "line" /\ m = k /\ at \in {"start", "tabbed"} /\ to = "start"
     \/ c.do \in {"show", "name"} /\ m = k /\ at = "tabbed" /\ to = "tabbed"
     \/ /\ c.do = "accept" /\ m = k /\ to = "start"
        /\ Value(c.of, seen)
        /\ at = "tabbed" \/ (at = "start" /\ seen # {})

(* What is to do leads from one indentation and place to another.          *)
Path(t, p, todo, seen) ==
  \A i \in 1..Len(todo) : Does(todo[i], t[i - 1], p[i - 1], t[i], p[i], seen)

Takes(todo, k, at, m, to, seen) ==
  /\ IsSequence(todo) /\ k \in Nat
  /\ \E t, p : /\ t[0] = k /\ p[0] = at /\ t[Len(todo)] = m /\ p[Len(todo)] = to
               /\ Path(t, p, todo, seen)

LEMMA NothingTakes ==
  ASSUME NEW seen, NEW k \in Nat, NEW at
  PROVE  /\ Takes(<<>>, k, at, k, at, seen)
         /\ \A m, to : Takes(<<>>, k, at, m, to, seen) => m = k /\ to = at
<1>1. IsSequence(<<>>) /\ Len(<<>>) = 0 /\ \A i \in 1..Len(<<>>) : FALSE
  BY Tuples
<1> DEFINE t == [i \in {0} |-> k]
           p == [i \in {0} |-> at]
<1>2. t[0] = k /\ p[0] = at
  OBVIOUS
<1> HIDE DEF t, p
<1>3. Takes(<<>>, k, at, k, at, seen)
  BY <1>1, <1>2 DEF Takes, Path
<1>4. ASSUME NEW m, NEW to, Takes(<<>>, k, at, m, to, seen) PROVE m = k /\ to = at
  BY <1>1, <1>4 DEF Takes
<1> QED
  BY <1>3, <1>4

LEMMA OneTakes ==
  ASSUME NEW seen, NEW c, NEW k, NEW at, NEW m, NEW to, Does(c, k, at, m, to, seen)
  PROVE  Takes(<<c>>, k, at, m, to, seen)
<1> DEFINE t == [i \in {0, 1} |-> IF i = 0 THEN k ELSE m]
           p == [i \in {0, 1} |-> IF i = 0 THEN at ELSE to]
<1>1. t[0] = k /\ p[0] = at /\ t[1] = m /\ p[1] = to
  OBVIOUS
<1>2. k \in Nat
  BY DEF Does
<1>3. IsSequence(<<c>>) /\ Len(<<c>>) = 1 /\ <<c>>[1] = c
  BY Tuples
<1> HIDE DEF t, p
<1>4. ASSUME NEW i \in 1..1 PROVE Does(<<c>>[i], t[i - 1], p[i - 1], t[i], p[i], seen)
  <2>1. i = 1 /\ i - 1 = 0
    OBVIOUS
  <2> QED
    BY <1>1, <1>3, <2>1
<1>5. Path(t, p, <<c>>, seen)
  BY <1>3, <1>4 DEF Path
<1> QED
  BY <1>1, <1>2, <1>3, <1>5 DEF Takes

LEMMA BothTake ==
  ASSUME NEW seen, NEW a, NEW b, NEW k, NEW at, NEW m, NEW to, NEW l, NEW end,
         Takes(a, k, at, m, to, seen), Takes(b, m, to, l, end, seen)
  PROVE  Takes(a \o b, k, at, l, end, seen)
<1> DEFINE u == a \o b
<1>1. IsSequence(a) /\ IsSequence(b) /\ k \in Nat /\ m \in Nat
  BY DEF Takes
<1>2. /\ IsSequence(u) /\ Len(u) = Len(a) + Len(b)
      /\ Len(a) \in Nat /\ Len(b) \in Nat
      /\ \A i \in 1..Len(a) : u[i] = a[i]
      /\ \A i \in 1..Len(b) : u[Len(a) + i] = b[i]
      /\ \A i \in 1..Len(u) : i \in 1..Len(a) \/ \E j \in 1..Len(b) : i = Len(a) + j
  BY <1>1, Concatenated
<1> HIDE DEF u
<1>3. PICK t1, p1 : /\ t1[0] = k /\ p1[0] = at /\ t1[Len(a)] = m /\ p1[Len(a)] = to
                    /\ Path(t1, p1, a, seen)
  BY DEF Takes
<1>4. PICK t2, p2 : /\ t2[0] = m /\ p2[0] = to /\ t2[Len(b)] = l /\ p2[Len(b)] = end
                    /\ Path(t2, p2, b, seen)
  BY DEF Takes
<1> DEFINE t == [i \in 0..Len(u) |-> IF i <= Len(a) THEN t1[i] ELSE t2[i - Len(a)]]
           p == [i \in 0..Len(u) |-> IF i <= Len(a) THEN p1[i] ELSE p2[i - Len(a)]]
<1>5. ASSUME NEW i \in 0..Len(a) PROVE t[i] = t1[i] /\ p[i] = p1[i]
  <2>1. i \in 0..Len(u) /\ i <= Len(a)
    BY <1>2
  <2> QED
    BY <2>1
<1>6. ASSUME NEW i \in 0..Len(b) PROVE t[Len(a) + i] = t2[i] /\ p[Len(a) + i] = p2[i]
  <2>1. Len(a) + i \in 0..Len(u) /\ Len(a) + i - Len(a) = i
    BY <1>2
  <2>2. CASE i = 0
    <3>1. Len(a) + i = Len(a) /\ Len(a) \in 0..Len(a)
      BY <1>2, <2>2
    <3> QED
      BY <1>3, <1>4, <1>5, <2>2, <3>1
  <2>3. CASE i # 0
    <3>1. ~(Len(a) + i <= Len(a))
      BY <1>2, <2>3
    <3> QED
      BY <2>1, <3>1
  <2> QED
    BY <2>2, <2>3
<1> HIDE DEF t, p
<1>7. t[0] = k /\ p[0] = at /\ t[Len(u)] = l /\ p[Len(u)] = end
  <2>1. 0 \in 0..Len(a) /\ Len(b) \in 0..Len(b)
    BY <1>2
  <2> QED
    BY <1>2, <1>3, <1>4, <1>5, <1>6, <2>1
<1>8. ASSUME NEW i \in 1..Len(u) PROVE Does(u[i], t[i - 1], p[i - 1], t[i], p[i], seen)
  <2>1. CASE i \in 1..Len(a)
    <3>1. i - 1 \in 0..Len(a) /\ i \in 0..Len(a)
      BY <1>2, <2>1
    <3>2. Does(a[i], t1[i - 1], p1[i - 1], t1[i], p1[i], seen)
      BY <1>3, <2>1 DEF Path
    <3> QED
      BY <1>2, <1>5, <2>1, <3>1, <3>2
  <2>2. CASE \E j \in 1..Len(b) : i = Len(a) + j
    <3>1. PICK j \in 1..Len(b) : i = Len(a) + j
      BY <2>2
    <3> PICK n \in Nat : n = j - 1
      BY <1>2
    <3>2. n \in 0..Len(b) /\ j \in 0..Len(b) /\ i - 1 = Len(a) + n /\ j - 1 = n
      BY <1>2, <3>1
    <3>3. Does(b[j], t2[n], p2[n], t2[j], p2[j], seen)
      BY <1>4, <3>2 DEF Path
    <3>4. u[i] = b[j]
      BY <1>2, <3>1
    <3>5. t[i - 1] = t2[n] /\ p[i - 1] = p2[n] /\ t[i] = t2[j] /\ p[i] = p2[j]
      BY <1>6, <3>1, <3>2
    <3> QED
      BY <3>3, <3>4, <3>5
  <2> QED
    BY <1>2, <2>1, <2>2
<1>9. Path(t, p, u, seen)
  BY <1>8 DEF Path
<1>10. Takes(u, k, at, l, end, seen)
  BY <1>1, <1>2, <1>7, <1>9 DEF Takes
<1> QED
  BY <1>10 DEF u

LEMMA FirstTakes ==
  ASSUME NEW seen, NEW todo, NEW k, NEW at, NEW m, NEW to,
         Takes(todo, k, at, m, to, seen), todo # <<>>
  PROVE  \E l, by : Does(todo[1], k, at, l, by, seen) /\ Takes(Tail(todo), l, by, m, to, seen)
<1>1. IsSequence(todo)
  BY DEF Takes
<1> DEFINE S == {todo[i] : i \in 1..Len(todo)}
<1>2. todo \in Seq(S)
  BY <1>1 DEF IsSequence
<1> HIDE DEF S
<1> DEFINE rest == Tail(todo)
<1>3. /\ rest \in Seq(S) /\ Len(todo) \in Nat /\ Len(todo) # 0
      /\ Len(rest) = Len(todo) - 1
      /\ \A i \in 1..Len(rest) : rest[i] = todo[i + 1]
  BY <1>2
<1>4. IsSequence(rest)
  BY <1>3, OwnElements
<1> HIDE DEF rest
<1>5. PICK t, p : /\ t[0] = k /\ p[0] = at /\ t[Len(todo)] = m /\ p[Len(todo)] = to
                  /\ Path(t, p, todo, seen)
  BY DEF Takes
<1>6. Does(todo[1], k, at, t[1], p[1], seen)
  <2>1. 1 \in 1..Len(todo) /\ 1 - 1 = 0
    BY <1>3
  <2> QED
    BY <1>5, <2>1 DEF Path
<1> DEFINE t2 == [i \in 0..Len(rest) |-> t[i + 1]]
           p2 == [i \in 0..Len(rest) |-> p[i + 1]]
<1>7. \A i \in 0..Len(rest) : t2[i] = t[i + 1] /\ p2[i] = p[i + 1]
  OBVIOUS
<1> HIDE DEF t2, p2
<1>8. t2[0] = t[1] /\ p2[0] = p[1] /\ t2[Len(rest)] = m /\ p2[Len(rest)] = to
  <2>1. 0 \in 0..Len(rest) /\ Len(rest) \in 0..Len(rest) /\ 0 + 1 = 1 /\ Len(rest) + 1 = Len(todo)
    BY <1>3
  <2> QED
    BY <1>5, <1>7, <2>1
<1>9. ASSUME NEW i \in 1..Len(rest) PROVE Does(rest[i], t2[i - 1], p2[i - 1], t2[i], p2[i], seen)
  <2>1. /\ i - 1 \in 0..Len(rest) /\ i \in 0..Len(rest) /\ i + 1 \in 1..Len(todo)
        /\ i - 1 + 1 = i /\ i + 1 - 1 = i
    BY <1>3
  <2>2. Does(todo[i + 1], t[i], p[i], t[i + 1], p[i + 1], seen)
    BY <1>5, <2>1 DEF Path
  <2>3. t2[i - 1] = t[i] /\ p2[i - 1] = p[i] /\ t2[i] = t[i + 1] /\ p2[i] = p[i + 1]
    BY <1>7, <2>1
  <2> QED
    BY <1>3, <2>2, <2>3
<1>10. t[1] \in Nat
  BY <1>6 DEF Does
<1>11. Path(t2, p2, rest, seen)
  BY <1>9 DEF Path
<1>12. Takes(rest, t[1], p[1], m, to, seen)
  BY <1>4, <1>8, <1>10, <1>11 DEF Takes
<1> QED
  BY <1>6, <1>12 DEF rest

-----------------------------------------------------------------------------
(* Pieces that lead from one place to another and leave the indentation.   *)

Goes(s, at, to, seen) == \A k \in Nat : Takes(s, k, at, k, to, seen)

Flat(s, seen) == Goes(s, "start", "start", seen)

(* What is left of a Visit, or of a line that has been begun.              *)
Rests(s, seen) == Goes(s, "tabbed", "start", seen)

LEMMA NothingGoes ==
  ASSUME NEW seen, NEW at
  PROVE  Goes(<<>>, at, at, seen)
  BY NothingTakes DEF Goes

LEMMA BothGo ==
  ASSUME NEW seen, NEW a, NEW b, NEW at, NEW by, NEW to,
         Goes(a, at, by, seen), Goes(b, by, to, seen)
  PROVE  Goes(a \o b, at, to, seen)
<1> SUFFICES ASSUME NEW k \in Nat PROVE Takes(a \o b, k, at, k, to, seen)
  BY DEF Goes
<1>1. Takes(a, k, at, k, by, seen) /\ Takes(b, k, by, k, to, seen)
  BY DEF Goes
<1> QED
  BY <1>1, BothTake

LEMMA TabsTake ==
  ASSUME NEW seen, NEW k \in Nat
  PROVE  /\ Takes(Do("tab++"), k, "opened", k + 1, "start", seen)
         /\ Takes(Do("tab--"), k + 1, "start", k, "opened", seen)
<1>1. \A c : c.do = "tab++" => Does(c, k, "opened", k + 1, "start", seen)
  BY DEF Does
<1>2. \A c : c.do = "tab--" => Does(c, k + 1, "start", k, "opened", seen)
  BY DEF Does
<1> QED
  BY <1>1, <1>2, OneTakes DEF Do

LEMMA TabbedGoes ==
  ASSUME NEW seen
  PROVE  /\ Goes(Do("tabbed"), "start", "tabbed", seen)
         /\ Goes(Do("tabbed"), "opened", "closing", seen)
<1>1. \A c : c.do = "tabbed" =>
        \A k \in Nat : Does(c, k, "start", k, "tabbed", seen) /\ Does(c, k, "opened", k, "closing", seen)
  BY DEF Does
<1> QED
  BY <1>1, OneTakes DEF Do, Goes

LEMMA BracesGo ==
  ASSUME NEW seen
  PROVE  /\ Goes(Do("open"), "tabbed", "opened", seen)
         /\ seen # {} => Goes(Do("open"), "closing", "opened", seen)
         /\ Goes(Do("close"), "closing", "start", seen)
<1>1. \A c : c.do = "open" =>
        \A k \in Nat : /\ Does(c, k, "tabbed", k, "opened", seen)
                       /\ seen # {} => Does(c, k, "closing", k, "opened", seen)
  BY DEF Does
<1>2. \A c : c.do = "close" => \A k \in Nat : Does(c, k, "closing", k, "start", seen)
  BY DEF Does
<1>3. Goes(Do("open"), "tabbed", "opened", seen)
  BY <1>1, OneTakes DEF Do, Goes
<1>4. ASSUME seen # {} PROVE Goes(Do("open"), "closing", "opened", seen)
  BY <1>1, <1>4, OneTakes DEF Do, Goes
<1>5. Goes(Do("close"), "closing", "start", seen)
  BY <1>2, OneTakes DEF Do, Goes
<1> QED
  BY <1>3, <1>4, <1>5

LEMMA LineGoes ==
  ASSUME NEW seen
  PROVE  Rests(Line, seen) /\ Flat(Line, seen)
<1>1. \A c : c.do = "line" =>
        \A k \in Nat : Does(c, k, "start", k, "start", seen) /\ Does(c, k, "tabbed", k, "start", seen)
  BY DEF Does
<1> QED
  BY <1>1, OneTakes DEF Do, Line, Goes, Rests, Flat

LEMMA ShowGoes ==
  ASSUME NEW seen, NEW n
  PROVE  Goes(Show(n), "tabbed", "tabbed", seen) /\ Goes(ShowName(n), "tabbed", "tabbed", seen)
<1>1. \A c : c.do \in {"show", "name"} => \A k \in Nat : Does(c, k, "tabbed", k, "tabbed", seen)
  BY DEF Does
<1>2. Goes(Show(n), "tabbed", "tabbed", seen)
  BY <1>1, OneTakes DEF Show, Goes
<1>3. Goes(ShowName(n), "tabbed", "tabbed", seen)
  BY <1>1, OneTakes DEF ShowName, Goes
<1> QED
  BY <1>2, <1>3

LEMMA AcceptGoes ==
  ASSUME NEW seen, NEW n, Value(n, seen)
  PROVE  Rests(Accept(n), seen) /\ (seen # {} => Flat(Accept(n), seen))
<1>1. \A c : c.do = "accept" /\ c.of = n =>
        \A k \in Nat : /\ Does(c, k, "tabbed", k, "start", seen)
                       /\ seen # {} => Does(c, k, "start", k, "start", seen)
  BY DEF Does
<1>2. Rests(Accept(n), seen)
  BY <1>1, OneTakes DEF Accept, Goes, Rests
<1>3. ASSUME seen # {} PROVE Flat(Accept(n), seen)
  BY <1>1, <1>3, OneTakes DEF Accept, Goes, Flat
<1> QED
  BY <1>2, <1>3

-----------------------------------------------------------------------------
(* Lines, braces and children.                                             *)

LEMMA FlatBoth ==
  ASSUME NEW seen, NEW a, NEW b, Flat(a, seen), Flat(b, seen)
  PROVE  Flat(a \o b, seen)
  BY BothGo DEF Flat

LEMMA RestAndFlat ==
  ASSUME NEW seen, NEW a, NEW b, Rests(a, seen), Flat(b, seen)
  PROVE  Rests(a \o b, seen)
  BY BothGo DEF Flat, Rests

LEMMA TabbedLine ==
  ASSUME NEW seen, NEW s, Rests(s, seen)
  PROVE  Flat(Do("tabbed") \o s, seen)
  BY TabbedGoes, BothGo DEF Flat, Rests

(* The same after other pieces: \o groups to the left.                     *)
LEMMA LineAfter ==
  ASSUME NEW seen, NEW a, NEW s, Flat(a, seen), Rests(s, seen)
  PROVE  Flat(a \o Do("tabbed") \o s, seen)
<1>1. Goes(a \o Do("tabbed"), "start", "tabbed", seen)
  BY TabbedGoes, BothGo DEF Flat
<1> QED
  BY <1>1, BothGo DEF Flat, Rests

(* Braces where a line may open one.                                       *)
LEMMA BracedGoes ==
  ASSUME NEW seen, NEW body, Flat(body, seen), NEW at,
         at = "tabbed" \/ (at = "closing" /\ seen # {})
  PROVE  Goes(Braced(body), at, "start", seen)
<1> SUFFICES ASSUME NEW k \in Nat PROVE Takes(Braced(body), k, at, k, "start", seen)
  BY DEF Goes
<1> PICK l \in Nat : l = k + 1
  OBVIOUS
<1>1. Takes(Do("open"), k, at, k, "opened", seen)
  BY BracesGo DEF Goes
<1>2. Takes(Do("open") \o Do("tab++"), k, at, l, "start", seen)
  BY <1>1, TabsTake, BothTake
<1>3. Takes(body, l, "start", l, "start", seen)
  BY DEF Flat, Goes
<1>4. Takes(Do("open") \o Do("tab++") \o body, k, at, l, "start", seen)
  BY <1>2, <1>3, BothTake
<1>5. Takes(Do("tab--"), l, "start", k, "opened", seen)
  BY TabsTake
<1>6. Takes(Do("open") \o Do("tab++") \o body \o Do("tab--"), k, at, k, "opened", seen)
  BY <1>4, <1>5, BothTake
<1>7. Takes(Do("tabbed"), k, "opened", k, "closing", seen)
  BY TabbedGoes DEF Goes
<1>8. Takes(Do("open") \o Do("tab++") \o body \o Do("tab--") \o Do("tabbed"),
            k, at, k, "closing", seen)
  BY <1>6, <1>7, BothTake
<1>9. Takes(Do("close"), k, "closing", k, "start", seen)
  BY BracesGo DEF Goes
<1> QED
  BY <1>8, <1>9, BothTake DEF Braced

LEMMA BracedRests ==
  ASSUME NEW seen, NEW body, Flat(body, seen)
  PROVE  Rests(Braced(body), seen)
  BY BracedGoes DEF Rests

LEMMA ChildFlat ==
  ASSUME NEW seen, NEW n, Value(n, seen)
  PROVE  Flat(Child(n), seen)
  BY AcceptGoes, TabbedLine DEF Child

LEMMA SectionFlat ==
  ASSUME NEW seen, NEW n, Value(n, seen)
  PROVE  Flat(Section(n), seen)
<1>1. Rests(Braced(Child(n)), seen)
  BY ChildFlat, BracedRests
<1> QED
  BY <1>1, TabbedLine DEF Section

LEMMA UnlessFlat ==
  ASSUME NEW seen, NEW part, NEW missing \in BOOLEAN, ~missing => Flat(part, seen)
  PROVE  Flat(Unless(missing, part), seen)
<1>1. CASE missing
  BY <1>1, NothingGoes DEF Unless, Flat
<1>2. CASE ~missing
  BY <1>2 DEF Unless
<1> QED
  BY <1>1, <1>2

-----------------------------------------------------------------------------
(* Pieces one after the other.                                             *)

Concat(f, m, parts) == f = [n \in 0..m |-> IF n = 0 THEN <<>> ELSE f[n - 1] \o parts[n]]

LEMMA SomeConcat ==
  ASSUME NEW parts, NEW m \in Nat
  PROVE  \E f : Concat(f, m, parts)
<1> DEFINE Wrong == {i \in Nat : ~\E f : Concat(f, i, parts)}
<1>1. Wrong \in SUBSET Nat
  OBVIOUS
<1>2. SUFFICES Wrong = {}
  OBVIOUS
<1> SUFFICES ASSUME Wrong # {} PROVE FALSE
  OBVIOUS
<1>3. PICK i \in Wrong : \A j \in Wrong : i <= j
  BY <1>1, LeastOf
<1>4. i \in Nat /\ ~\E f : Concat(f, i, parts)
  BY <1>3
<1>5. \A j \in Nat : j < i => \E f : Concat(f, j, parts)
  BY <1>3, <1>4
<1> HIDE DEF Wrong
<1>6. CASE i = 0
  <2> DEFINE f == [n \in 0..0 |-> <<>>]
  <2>1. f = [n \in 0..0 |-> IF n = 0 THEN <<>> ELSE f[n - 1] \o parts[n]]
    OBVIOUS
  <2> QED
    BY <1>4, <1>6, <2>1 DEF Concat
<1>7. CASE i # 0
  <2> PICK k \in Nat : k = i - 1 /\ k < i /\ k + 1 = i
    BY <1>4, <1>7
  <2>1. PICK g : Concat(g, k, parts)
    BY <1>5
  <2> DEFINE f == [n \in 0..i |-> IF n = i THEN g[k] \o parts[i] ELSE g[n]]
  <2>2. ASSUME NEW n \in 0..i PROVE f[n] = IF n = 0 THEN <<>> ELSE f[n - 1] \o parts[n]
    <3>1. n \in Nat /\ (n = 0 \/ n - 1 \in 0..k) /\ (n = i \/ n \in 0..k) /\ k \in 0..k /\ k # i
      BY <1>4, <1>7
    <3>2. \A j \in 0..k : j \in 0..i /\ j # i /\ f[j] = g[j]
      BY <1>4
    <3>3. \A j \in 0..k : g[j] = IF j = 0 THEN <<>> ELSE g[j - 1] \o parts[j]
      BY <2>1 DEF Concat
    <3>4. CASE n = i
      <4>1. f[n] = g[k] \o parts[n] /\ n # 0 /\ n - 1 = k
        BY <1>7, <3>4
      <4> QED
        BY <3>1, <3>2, <4>1
    <3>5. CASE n # i
      BY <3>1, <3>2, <3>3, <3>5
    <3> QED
      BY <3>4, <3>5
  <2>3. f = [n \in 0..i |-> f[n]]
    OBVIOUS
  <2> HIDE DEF f
  <2>4. f = [n \in 0..i |-> IF n = 0 THEN <<>> ELSE f[n - 1] \o parts[n]]
    BY <2>2, <2>3
  <2> QED
    BY <1>4, <2>4 DEF Concat
<1> QED
  BY <1>6, <1>7

LEMMA JoinedIs ==
  ASSUME NEW parts, Len(parts) \in Nat
  PROVE  \E f : Joined(parts) = f[Len(parts)] /\ f[0] = <<>>
                /\ \A n \in 1..Len(parts) : f[n] = f[n - 1] \o parts[n]
<1> DEFINE f == CHOOSE g : Concat(g, Len(parts), parts)
<1>1. Concat(f, Len(parts), parts)
  BY SomeConcat, Zenon
<1>2. Joined(parts) = f[Len(parts)]
  BY Zenon DEF Joined, Concat
<1> HIDE DEF f
<1>3. f[0] = <<>>
  <2>1. 0 \in 0..Len(parts)
    OBVIOUS
  <2> QED
    BY <1>1, <2>1 DEF Concat
<1>4. ASSUME NEW n \in 1..Len(parts) PROVE f[n] = f[n - 1] \o parts[n]
  <2>1. n \in 0..Len(parts) /\ n # 0
    OBVIOUS
  <2> QED
    BY <1>1, <2>1 DEF Concat
<1> QED
  BY <1>2, <1>3, <1>4

LEMMA JoinedGoes ==
  ASSUME NEW seen, NEW at, NEW parts, Len(parts) \in Nat,
         \A i \in 1..Len(parts) : Goes(parts[i], at, at, seen)
  PROVE  Goes(Joined(parts), at, at, seen)
<1>1. PICK f : /\ Joined(parts) = f[Len(parts)] /\ f[0] = <<>>
               /\ \A n \in 1..Len(parts) : f[n] = f[n - 1] \o parts[n]
  BY JoinedIs
<1> DEFINE Bad == {n \in Nat : n <= Len(parts) /\ ~Goes(f[n], at, at, seen)}
<1>2. Bad \in SUBSET Nat /\ (Bad = {} => Goes(f[Len(parts)], at, at, seen))
  OBVIOUS
<1> SUFFICES ASSUME Bad # {} PROVE FALSE
  BY <1>1, <1>2
<1>3. PICK n \in Bad : \A j \in Bad : n <= j
  BY <1>2, LeastOf
<1>4. n \in Nat /\ n <= Len(parts) /\ ~Goes(f[n], at, at, seen)
  BY <1>3
<1>5. \A j \in Nat : j < n => Goes(f[j], at, at, seen)
  BY <1>3, <1>4
<1>6. n # 0
  BY <1>1, <1>4, NothingGoes
<1>7. n - 1 \in Nat /\ n - 1 < n /\ n \in 1..Len(parts)
  BY <1>4, <1>6
<1>8. Goes(f[n - 1], at, at, seen) /\ Goes(parts[n], at, at, seen) /\ f[n] = f[n - 1] \o parts[n]
  BY <1>1, <1>5, <1>7
<1>9. Goes(f[n - 1] \o parts[n], at, at, seen)
  BY <1>8, BothGo
<1> QED
  BY <1>4, <1>8, <1>9

-----------------------------------------------------------------------------
(* The Visits.                                                             *)

LEMMA KidsAreValues ==
  ASSUME NEW seen, NEW n, Tree(n, seen), n.kind \notin {"object", "function", "prototype"}
  PROVE  AllValues(n.kids, seen)
<1>1. Shape(n, seen) /\ \A i \in 1..Len(n.kids) : Tree(n.kids[i], seen)
  BY TreeIs
<1>2. IsSequence(n.kids) /\ \A i \in 1..Len(n.kids) : n.kids[i].kind \notin Parts
  BY <1>1 DEF Shape, MayHavePart
<1> QED
  BY <1>1, <1>2 DEF AllValues, Value

LEMMA KidsThere ==
  ASSUME NEW seen, NEW n, Tree(n, seen)
  PROVE  /\ Len(n.kids) \in Nat
         /\ n.kind \in OneUp => 1 \in 1..Len(n.kids)
         /\ n.kind \in TwoUp => 1 \in 1..Len(n.kids) /\ 2 \in 1..Len(n.kids)
         /\ n.kind \in FourUp => {1, 2, 3, 4} \subseteq 1..Len(n.kids)
<1>1. Shape(n, seen)
  BY TreeIs
<1>2. Len(n.kids) \in Nat
  <2>1. n.kids \in Seq({n.kids[i] : i \in 1..Len(n.kids)})
    BY <1>1 DEF Shape, IsSequence
  <2> QED
    BY <2>1
<1>3. n.kind \in OneUp => Len(n.kids) >= 1
  BY <1>1 DEF Shape
<1>4. n.kind \in TwoUp => Len(n.kids) >= 2
  BY <1>1 DEF Shape
<1>5. n.kind \in FourUp => Len(n.kids) >= 4
  BY <1>1 DEF Shape
<1> QED
  BY <1>2, <1>3, <1>4, <1>5

LEMMA LenOfParts ==
  ASSUME NEW m \in Nat, NEW f, f = [i \in 1..m |-> f[i]]
  PROVE  Len(f) = m
<1> DEFINE S == {f[i] : i \in 1..m}
<1>1. f \in [1..m -> S]
  OBVIOUS
<1> HIDE DEF S
<1> QED
  BY <1>1, FromFunction

LEMMA ChildrenFlat ==
  ASSUME NEW seen, NEW s, AllValues(s, seen)
  PROVE  Flat(ForEach(s, Child), seen)
<1>1. Len(s) \in Nat
  BY DEF AllValues, IsSequence
<1> DEFINE parts == [i \in 1..Len(s) |-> Child(s[i])]
<1>2. ForEach(s, Child) = Joined(parts)
  BY DEF ForEach
<1>3. parts = [i \in 1..Len(s) |-> parts[i]]
  OBVIOUS
<1>4. \A i \in 1..Len(s) : parts[i] = Child(s[i])
  OBVIOUS
<1> HIDE DEF parts
<1>5. Len(parts) = Len(s)
  BY <1>1, <1>3, LenOfParts
<1>6. ASSUME NEW i \in 1..Len(s) PROVE Goes(parts[i], "start", "start", seen)
  <2>1. Value(s[i], seen)
    BY DEF AllValues
  <2> QED
    BY <1>4, <2>1, ChildFlat DEF Flat
<1> QED
  BY <1>1, <1>2, <1>5, <1>6, JoinedGoes DEF Flat

LEMMA VisitLiterals ==
  ASSUME NEW seen, NEW n, n.kind \in {"leaf", "undefined", "true"}
  PROVE  Rests(Visit(n), seen)
<1>1. Visit(n) = VisitLiteral(n)
  BY DEF Visit
<1>2. CASE n.kind = "leaf"
  <2>1. Visit(n) = Show(n) \o Line
    BY <1>1, <1>2 DEF VisitLiteral, Unless
  <2> QED
    BY <2>1, ShowGoes, LineGoes, BothGo DEF Rests
<1>3. CASE n.kind # "leaf"
  <2>1. Visit(n) = <<>> \o Line
    BY <1>1, <1>3 DEF VisitLiteral, Unless
  <2>2. Goes(<<>>, "tabbed", "tabbed", seen)
    BY NothingGoes
  <2> QED
    BY <2>1, <2>2, LineGoes, BothGo DEF Rests
<1> QED
  BY <1>2, <1>3

LEMMA VisitLists ==
  ASSUME NEW seen, NEW n, Tree(n, seen),
         n.kind \in {"array", "arguments", "ternary", "comma", "var", "block"}
  PROVE  Rests(Visit(n), seen)
<1>1. Visit(n) = Braced(ForEach(n.kids, Child))
  <2>1. CASE n.kind = "array"
    BY <2>1 DEF Visit, VisitArrayLiteral
  <2>2. CASE n.kind = "arguments"
    BY <2>2 DEF Visit, VisitArgumentList
  <2>3. CASE n.kind = "ternary"
    BY <2>3 DEF Visit, VisitTernaryExpression
  <2>4. CASE n.kind = "comma"
    BY <2>4 DEF Visit, VisitCommaExpression
  <2>5. CASE n.kind = "var"
    BY <2>5 DEF Visit, VisitDeclarationList
  <2>6. CASE n.kind = "block"
    BY <2>6 DEF Visit, VisitBlockStatement
  <2> QED
    BY <2>1, <2>2, <2>3, <2>4, <2>5, <2>6
<1>2. AllValues(n.kids, seen)
  BY KidsAreValues
<1> QED
  BY <1>1, <1>2, ChildrenFlat, BracedRests

LEMMA Slice ==
  ASSUME NEW s, IsSequence(s), NEW a \in Nat, NEW b \in Nat, a >= 1, b <= Len(s), a <= b + 1
  PROVE  /\ IsSequence(SubSeq(s, a, b)) /\ Len(SubSeq(s, a, b)) = b - a + 1
         /\ \A i \in 1..b - a + 1 : a + i - 1 \in 1..Len(s) /\ SubSeq(s, a, b)[i] = s[a + i - 1]
<1> DEFINE S == {s[i] : i \in 1..Len(s)}
<1>1. s \in Seq(S) /\ Len(s) \in Nat
  BY DEF IsSequence
<1> HIDE DEF S
<1> DEFINE u == SubSeq(s, a, b)
<1>2. \A i \in a..b : s[i] \in S
  BY <1>1
<1>3. u \in Seq(S) /\ Len(u) = b - a + 1
  BY <1>1, <1>2, SubSeqProperties
<1>4. \A i \in 1..b - a + 1 : a + i - 1 \in 1..Len(s) /\ u[i] = s[a + i - 1]
  BY <1>1, <1>2, SubSeqProperties
<1> QED
  BY <1>3, <1>4, OwnElements

LEMMA SliceOfValues ==
  ASSUME NEW seen, NEW s, AllValues(s, seen), NEW a \in Nat, NEW b \in Nat,
         a >= 1, b <= Len(s), a <= b + 1
  PROVE  AllValues(SubSeq(s, a, b), seen)
<1> DEFINE u == SubSeq(s, a, b)
<1>1. /\ IsSequence(u) /\ Len(u) = b - a + 1
      /\ \A i \in 1..b - a + 1 : a + i - 1 \in 1..Len(s) /\ u[i] = s[a + i - 1]
  BY Slice DEF AllValues
<1> HIDE DEF u
<1>2. AllValues(u, seen)
  BY <1>1 DEF AllValues
<1> QED
  BY <1>2 DEF u

LEMMA TailOfValues ==
  ASSUME NEW seen, NEW s, AllValues(s, seen), s # <<>>
  PROVE  AllValues(Tail(s), seen)
<1> DEFINE S == {s[i] : i \in 1..Len(s)}
           u == Tail(s)
<1>1. s \in Seq(S)
  BY DEF AllValues, IsSequence
<1> HIDE DEF S
<1>2. /\ u \in Seq(S) /\ Len(s) \in Nat /\ Len(u) = Len(s) - 1
      /\ \A i \in 1..Len(u) : u[i] = s[i + 1]
  BY <1>1
<1> HIDE DEF u
<1>3. ASSUME NEW i \in 1..Len(u) PROVE Value(u[i], seen)
  <2>1. i + 1 \in 1..Len(s)
    BY <1>2
  <2> QED
    BY <1>2, <2>1 DEF AllValues
<1>4. AllValues(u, seen)
  BY <1>2, <1>3, OwnElements DEF AllValues
<1> QED
  BY <1>4 DEF u

LEMMA VisitObject ==
  ASSUME NEW seen, NEW n, Tree(n, seen), n.kind = "object"
  PROVE  Rests(Visit(n), seen)
<1> DEFINE Part(m) == Do("tabbed") \o Braced(Section(m.kids[1]))
           parts == [i \in 1..Len(n.kids) |-> Part(n.kids[i])]
<1>1. Visit(n) = Braced(Joined(parts))
  BY DEF Visit, VisitObjectLiteral, ForEach
<1>2. Len(n.kids) \in Nat
  BY KidsThere
<1>3. parts = [i \in 1..Len(n.kids) |-> parts[i]]
  OBVIOUS
<1>4. Len(parts) = Len(n.kids)
  <2> HIDE DEF parts
  <2> QED
    BY <1>2, <1>3, LenOfParts
<1>5. ASSUME NEW m, Tree(m, seen), m.kind = "property" PROVE Flat(Part(m), seen)
  <2>1. 1 \in 1..Len(m.kids)
    BY <1>5, KidsThere DEF OneUp
  <2>2. Value(m.kids[1], seen)
    BY <1>5, <2>1, KidsAreValues DEF AllValues
  <2>3. Flat(Section(m.kids[1]), seen)
    BY <2>2, SectionFlat
  <2> QED
    BY <2>3, BracedRests, TabbedLine
<1>6. ASSUME NEW i \in 1..Len(n.kids) PROVE Flat(parts[i], seen)
  <2>1. Tree(n.kids[i], seen) /\ n.kids[i].kind = "property"
    BY TreeIs DEF Shape
  <2>2. parts[i] = Part(n.kids[i])
    OBVIOUS
  <2> HIDE DEF parts, Part
  <2> QED
    BY <1>5, <2>1, <2>2
<1> HIDE DEF parts
<1>7. Flat(Joined(parts), seen)
  BY <1>2, <1>4, <1>6, JoinedGoes DEF Flat
<1> QED
  BY <1>1, <1>7, BracedRests

LEMMA MemberIsValue ==
  ASSUME NEW seen, NEW n, Tree(n, seen), n.kind \in {"call", "dot", "index"}
  PROVE  Value(MemberOf(n), seen)
<1>1. AllValues(n.kids, seen) /\ 1 \in 1..Len(n.kids) /\ 2 \in 1..Len(n.kids)
  BY KidsAreValues, KidsThere DEF TwoUp
<1>2. CASE n.kind # "call"
  BY <1>1, <1>2 DEF MemberOf, AllValues
<1>3. CASE n.kind = "call"
  <2>1. n.kids # <<>>
    BY <1>1, Tuples
  <2>2. AllValues(Unless(n.kids[2] = Null, Tail(n.kids)), seen)
    BY <1>1, <2>1, TailOfValues, ListsOfValues DEF Unless
  <2>3. Whole(Node("arguments", "", Unless(n.kids[2] = Null, Tail(n.kids))), seen)
    BY <2>2, NodesAre
  <2> QED
    BY <1>3, <2>3 DEF MemberOf, Whole
<1> QED
  BY <1>2, <1>3

LEMMA VisitMembers ==
  ASSUME NEW seen, NEW n, Tree(n, seen), n.kind \in {"call", "dot", "index"}
  PROVE  Rests(Visit(n), seen)
<1>1. Visit(n) = VisitMemberExpression(n)
  BY DEF Visit
<1>2. Value(n.kids[1], seen) /\ Value(MemberOf(n), seen)
  BY MemberIsValue, KidsAreValues, KidsThere DEF TwoUp, AllValues
<1>3. Flat(Do("tabbed") \o Line, seen)
  BY LineGoes, TabbedLine
<1>4. Flat(Do("tabbed") \o Line \o Child(MemberOf(n)), seen)
  BY <1>2, <1>3, ChildFlat, FlatBoth
<1>5. Rests(Braced(Do("tabbed") \o Line \o Child(MemberOf(n))), seen)
  BY <1>4, BracedRests
<1>6. Flat(Child(n.kids[1]), seen)
  BY <1>2, ChildFlat
<1>7. Flat(Child(n.kids[1]) \o Do("tabbed") \o Braced(Do("tabbed") \o Line \o Child(MemberOf(n))), seen)
  BY <1>5, <1>6, LineAfter
<1> QED
  BY <1>1, <1>7, BracedRests DEF VisitMemberExpression

(* The expressions with one operand,                                       *)
LEMMA VisitUnary ==
  ASSUME NEW seen, NEW n, Tree(n, seen), n.kind \in {"new", "prefix", "postfix", "throw"}
  PROVE  Rests(Visit(n), seen)
<1>1. Value(n.kids[1], seen)
  BY KidsAreValues, KidsThere DEF OneUp, AllValues
<1>2. Flat(Child(n.kids[1]), seen) /\ Flat(Section(n.kids[1]), seen)
  BY <1>1, ChildFlat, SectionFlat
<1>3. Flat(Do("tabbed") \o Line, seen)
  BY LineGoes, TabbedLine
<1>4. CASE n.kind \in {"new", "throw"}
  <2>1. Visit(n) = Braced(Child(n.kids[1]))
    <3>1. CASE n.kind = "new"
      BY <3>1 DEF Visit, VisitNewExpression
    <3>2. CASE n.kind = "throw"
      BY <3>2 DEF Visit, VisitThrowStatement
    <3> QED
      BY <1>4, <3>1, <3>2
  <2> QED
    BY <1>2, <2>1, BracedRests
<1>5. CASE n.kind = "prefix"
  <2>1. Visit(n) = Braced(Do("tabbed") \o Line \o Section(n.kids[1]))
    BY <1>5 DEF Visit, VisitPrefixExpression
  <2>2. Flat(Do("tabbed") \o Line \o Section(n.kids[1]), seen)
    BY <1>2, <1>3, FlatBoth
  <2> QED
    BY <2>1, <2>2, BracedRests
<1>6. CASE n.kind = "postfix"
  <2>1. Visit(n) = Braced(Child(n.kids[1]) \o Do("tabbed") \o Line)
    BY <1>6 DEF Visit, VisitPostfixExpression
  <2>2. Flat(Child(n.kids[1]) \o Do("tabbed") \o Line, seen)
    BY <1>2, LineGoes, LineAfter
  <2> QED
    BY <2>1, <2>2, BracedRests
<1> QED
  BY <1>4, <1>5, <1>6

(* and those with two.                                                     *)
LEMMA VisitBinary ==
  ASSUME NEW seen, NEW n, Tree(n, seen), n.kind \in {"binary", "times"}
  PROVE  Rests(Visit(n), seen)
<1>1. Value(n.kids[1], seen) /\ (n.kind = "binary" => Value(n.kids[2], seen))
  BY KidsAreValues, KidsThere DEF OneUp, TwoUp, AllValues
<1> DEFINE right == IF n.kind = "binary" THEN Accept(n.kids[2]) ELSE Line
<1>2. Visit(n) = Braced(Child(n.kids[1]) \o Do("tabbed") \o Line \o Do("tabbed") \o right)
  BY DEF Visit, VisitBinaryExpression
<1>3. Rests(right, seen)
  BY <1>1, AcceptGoes, LineGoes
<1> HIDE DEF right
<1>4. Flat(Child(n.kids[1]) \o Do("tabbed") \o Line, seen)
  BY <1>1, ChildFlat, LineGoes, LineAfter
<1>5. Flat(Child(n.kids[1]) \o Do("tabbed") \o Line \o Do("tabbed") \o right, seen)
  BY <1>3, <1>4, LineAfter
<1> QED
  BY <1>2, <1>5, BracedRests

LEMMA VisitAssign ==
  ASSUME NEW seen, NEW n, Tree(n, seen), n.kind = "assign"
  PROVE  Rests(Visit(n), seen)
<1>1. Value(n.kids[1], seen) /\ Value(n.kids[2], seen)
  BY KidsAreValues, KidsThere DEF TwoUp, AllValues
<1>2. Visit(n) = Braced(Child(n.kids[1]) \o Child(n.kids[2]))
  BY DEF Visit, VisitAssignExpression
<1> QED
  BY <1>1, <1>2, ChildFlat, FlatBoth, BracedRests

(* Statements.                                                             *)
LEMMA VisitDeclarations ==
  ASSUME NEW seen, NEW n, Tree(n, seen), n.kind = "declaration"
  PROVE  Rests(Visit(n), seen)
<1> DEFINE value == Do("tab++") \o Child(n.kids[2]) \o Do("tab--")
           given == Unless(Len(n.kids) = 1, value)
<1>1. Visit(n) = Show(n.kids[1]) \o Do("open") \o given \o Do("tabbed") \o Do("close")
  BY DEF Visit, VisitDeclaration
<1>2. ASSUME Len(n.kids) # 1 PROVE Goes(value, "opened", "opened", seen)
  <2>1. Len(n.kids) \in Nat /\ 1 \in 1..Len(n.kids)
    BY KidsThere DEF OneUp
  <2>2. \A m \in Nat : 1 \in 1..m /\ m # 1 => 2 \in 1..m
    OBVIOUS
  <2>3. Value(n.kids[2], seen)
    BY <1>2, <2>1, <2>2, KidsAreValues DEF AllValues
  <2>4. Flat(Child(n.kids[2]), seen)
    BY <2>3, ChildFlat
  <2> HIDE DEF value
  <2> SUFFICES ASSUME NEW k \in Nat PROVE Takes(value, k, "opened", k, "opened", seen)
    BY DEF Goes
  <2> PICK l \in Nat : l = k + 1
    OBVIOUS
  <2>5. Takes(Do("tab++"), k, "opened", l, "start", seen)
    BY TabsTake
  <2>6. Takes(Child(n.kids[2]), l, "start", l, "start", seen)
    BY <2>4 DEF Flat, Goes
  <2>7. Takes(Do("tab++") \o Child(n.kids[2]), k, "opened", l, "start", seen)
    BY <2>5, <2>6, BothTake
  <2>8. Takes(Do("tab--"), l, "start", k, "opened", seen)
    BY TabsTake
  <2> QED
    BY <2>7, <2>8, BothTake DEF value
<1> HIDE DEF value
<1>3. Goes(given, "opened", "opened", seen)
  BY <1>2, NothingGoes DEF Unless
<1> HIDE DEF given
<1>4. Goes(Show(n.kids[1]) \o Do("open"), "tabbed", "opened", seen)
  BY ShowGoes, BracesGo, BothGo
<1>5. Goes(Show(n.kids[1]) \o Do("open") \o given, "tabbed", "opened", seen)
  BY <1>3, <1>4, BothGo
<1>6. Goes(Show(n.kids[1]) \o Do("open") \o given \o Do("tabbed"), "tabbed", "closing", seen)
  BY <1>5, TabbedGoes, BothGo
<1>7. Goes(Show(n.kids[1]) \o Do("open") \o given \o Do("tabbed") \o Do("close"),
           "tabbed", "start", seen)
  BY <1>6, BracesGo, BothGo
<1> QED
  BY <1>1, <1>7 DEF Rests

LEMMA VisitFor ==
  ASSUME NEW seen, NEW n, Tree(n, seen), n.kind = "for"
  PROVE  Rests(Visit(n), seen)
<1>1. AllValues(n.kids, seen) /\ Len(n.kids) \in Nat /\ {1, 2, 3, 4} \subseteq 1..Len(n.kids)
  BY KidsAreValues, KidsThere DEF FourUp
<1> DEFINE head == SubSeq(n.kids, 1, 3)
           Optional(part) == Unless(part = Null, Section(part))
           parts == [i \in 1..Len(head) |-> Optional(head[i])]
<1>2. Visit(n) = Braced(Joined(parts) \o Section(n.kids[4]))
  BY DEF Visit, VisitForStatement, ForEach
<1>3. AllValues(head, seen) /\ Len(head) \in Nat
  <2>1. 3 <= Len(n.kids)
    BY <1>1
  <2>2. AllValues(head, seen)
    BY <1>1, <2>1, SliceOfValues
  <2> HIDE DEF head
  <2> QED
    BY <2>2 DEF AllValues, IsSequence
<1> HIDE DEF head
<1>4. Len(parts) = Len(head)
  <2>1. parts = [i \in 1..Len(head) |-> parts[i]]
    OBVIOUS
  <2> HIDE DEF parts
  <2> QED
    BY <1>3, <2>1, LenOfParts
<1>5. ASSUME NEW i \in 1..Len(head) PROVE Flat(parts[i], seen)
  <2>1. Flat(Section(head[i]), seen)
    BY <1>3, SectionFlat DEF AllValues
  <2>2. Flat(Unless(head[i] = Null, Section(head[i])), seen)
    BY <2>1, UnlessFlat
  <2> QED
    BY <2>2
<1> HIDE DEF parts
<1>6. Flat(Joined(parts), seen)
  BY <1>3, <1>4, <1>5, JoinedGoes DEF Flat
<1>7. Flat(Section(n.kids[4]), seen)
  BY <1>1, SectionFlat DEF AllValues
<1> QED
  BY <1>2, <1>6, <1>7, FlatBoth, BracedRests

(* A while, a do, a case and an if without else: two sections.             *)
LEMMA VisitPairs ==
  ASSUME NEW seen, NEW n, Tree(n, seen),
         n.kind \in {"while", "do", "case"} \/ (n.kind = "if" /\ Len(n.kids) = 2)
  PROVE  Rests(Visit(n), seen)
<1>1. Value(n.kids[1], seen) /\ Value(n.kids[2], seen)
  BY KidsAreValues, KidsThere DEF TwoUp, AllValues
<1> DEFINE first == Section(n.kids[1])
           second == Section(n.kids[2])
<1>2. Visit(n) \in {Braced(first \o second), Braced(second \o first)}
  <2>1. CASE n.kind = "while"
    BY <2>1 DEF Visit, VisitWhileStatement
  <2>2. CASE n.kind = "do"
    BY <2>2 DEF Visit, VisitDoWhileStatement
  <2>3. CASE n.kind = "case"
    BY <2>3 DEF Visit, VisitCaseClauseStatement
  <2>4. CASE n.kind = "if" /\ Len(n.kids) = 2
    BY <2>4 DEF Visit, VisitIfStatement
  <2> QED
    BY <2>1, <2>2, <2>3, <2>4
<1>3. Flat(first, seen) /\ Flat(second, seen)
  BY <1>1, SectionFlat
<1> HIDE DEF first, second
<1> QED
  BY <1>2, <1>3, FlatBoth, BracedRests

LEMMA VisitBreak ==
  ASSUME NEW seen, NEW n, Tree(n, seen), n.kind = "break"
  PROVE  Rests(Visit(n), seen)
<1>1. AllValues(n.kids, seen) /\ Len(n.kids) \in Nat /\ Len(n.kids) <= 1
  BY KidsAreValues, KidsThere, TreeIs DEF Shape
<1> DEFINE parts == [i \in 1..Len(n.kids) |-> Accept(n.kids[i])]
<1>2. Visit(n) = Joined(parts) \o Line
  BY DEF Visit, VisitBreakStatement, ForEach
<1>3. Len(parts) = Len(n.kids)
  <2>1. parts = [i \in 1..Len(n.kids) |-> parts[i]]
    OBVIOUS
  <2> HIDE DEF parts
  <2> QED
    BY <1>1, <2>1, LenOfParts
<1>4. \A i \in 1..Len(n.kids) : parts[i] = Accept(n.kids[i])
  OBVIOUS
<1> HIDE DEF parts
<1>5. PICK f : /\ Joined(parts) = f[Len(parts)] /\ f[0] = <<>>
               /\ \A i \in 1..Len(parts) : f[i] = f[i - 1] \o parts[i]
  BY <1>1, <1>3, JoinedIs
<1>6. CASE Len(n.kids) = 0
  <2>1. Goes(Joined(parts), "tabbed", "tabbed", seen)
    BY <1>3, <1>5, <1>6, NothingGoes
  <2> QED
    BY <1>2, <2>1, LineGoes, BothGo DEF Rests
<1>7. CASE Len(n.kids) = 1
  <2>1. 1 \in 1..Len(n.kids) /\ 1 - 1 = 0
    BY <1>7
  <2>2. Value(n.kids[1], seen)
    BY <1>1, <2>1 DEF AllValues
  <2>3. Goes(parts[1], "tabbed", "start", seen)
    BY <1>4, <2>1, <2>2, AcceptGoes DEF Rests
  <2>4. Joined(parts) = <<>> \o parts[1]
    BY <1>3, <1>5, <1>7, <2>1
  <2>5. Goes(Joined(parts), "tabbed", "start", seen)
    BY <2>3, <2>4, NothingGoes, BothGo
  <2> QED
    BY <1>2, <2>5, LineGoes, BothGo DEF Rests, Flat
<1>8. \A m \in Nat : m <= 1 => m = 0 \/ m = 1
  OBVIOUS
<1> QED
  BY <1>1, <1>6, <1>7, <1>8

LEMMA VisitTry ==
  ASSUME NEW seen, NEW n, Tree(n, seen), n.kind = "try"
  PROVE  Rests(Visit(n), seen)
<1> DEFINE e == n.kids[2]
           caught == Do("tabbed") \o ShowName(e) \o Braced(Child(n.kids[3]))
           handler == Unless(e = Null, caught)
           finally == Unless(n.kids[4] = Null, Section(n.kids[4]))
<1>1. Visit(n) = Braced(Section(n.kids[1]) \o handler \o finally)
  BY DEF Visit, VisitTryCatchStatement
<1>2. Value(n.kids[1], seen) /\ Value(n.kids[3], seen) /\ Value(n.kids[4], seen)
  BY KidsAreValues, KidsThere DEF FourUp, AllValues
<1>3. Flat(caught, seen)
  <2>1. Goes(Do("tabbed") \o ShowName(e), "start", "tabbed", seen)
    BY TabbedGoes, ShowGoes, BothGo
  <2>2. Goes(Braced(Child(n.kids[3])), "tabbed", "start", seen)
    BY <1>2, ChildFlat, BracedRests DEF Rests
  <2> QED
    BY <2>1, <2>2, BothGo DEF Flat
<1> HIDE DEF caught
<1>4. Flat(handler, seen)
  BY <1>3, UnlessFlat
<1>5. Flat(finally, seen)
  BY <1>2, SectionFlat, UnlessFlat
<1>6. Flat(Section(n.kids[1]), seen)
  BY <1>2, SectionFlat
<1> HIDE DEF handler, finally
<1> QED
  BY <1>1, <1>4, <1>5, <1>6, FlatBoth, BracedRests

LEMMA VisitLabels ==
  ASSUME NEW seen, NEW n, Tree(n, seen), n.kind = "label"
  PROVE  Rests(Visit(n), seen)
<1>1. Visit(n) = Show(n.kids[1]) \o Line
  BY DEF Visit, VisitLabelledStatement
<1> QED
  BY <1>1, ShowGoes, LineGoes, BothGo DEF Rests

LEMMA VisitReturn ==
  ASSUME NEW seen, NEW n, Tree(n, seen), n.kind = "return"
  PROVE  Rests(Visit(n), seen)
<1>1. CASE n.kids = <<>>
  <2>1. Visit(n) = Line
    BY <1>1 DEF Visit, VisitReturnStatement
  <2> QED
    BY <2>1, LineGoes
<1>2. CASE n.kids # <<>>
  <2>1. Visit(n) = Braced(Child(n.kids[1]))
    BY <1>2 DEF Visit, VisitReturnStatement
  <2>2. AllValues(n.kids, seen)
    BY KidsAreValues
  <2>3. n.kids \in Seq({n.kids[i] : i \in 1..Len(n.kids)})
    BY <2>2 DEF AllValues, IsSequence
  <2>4. 1 \in 1..Len(n.kids)
    BY <1>2, <2>3
  <2>5. Value(n.kids[1], seen)
    BY <2>2, <2>4 DEF AllValues
  <2> QED
    BY <2>1, <2>5, ChildFlat, BracedRests
<1> QED
  BY <1>1, <1>2

LEMMA VisitPrototypes ==
  ASSUME NEW seen, NEW n, Tree(n, seen), n.kind = "prototype"
  PROVE  Rests(Visit(n), seen)
<1> DEFINE last == Len(n.kids)
           arguments == n.kids[last].kids
           name == Unless(last # 2, Show(n.kids[1]))
           parts == [i \in 1..Len(arguments) |-> Show(arguments[i])]
<1>1. Visit(n) = name \o Braced(Do("tabbed") \o Joined(parts) \o Line)
  <2>1. Visit(n) = VisitFunctionPrototype(n)
    BY DEF Visit
  <2>2. ~(last = 2) <=> last # 2
    OBVIOUS
  <2> QED
    BY <2>1, <2>2 DEF VisitFunctionPrototype, ForEach
<1>2. Len(arguments) \in Nat
  <2>1. last \in Nat /\ 1 \in 1..last
    BY KidsThere DEF OneUp
  <2>2. last \in 1..last
    BY <2>1
  <2>3. Tree(n.kids[last], seen)
    BY <2>2, TreeIs
  <2> QED
    BY <2>3, KidsThere
<1>3. Goes(name, "tabbed", "tabbed", seen)
  BY ShowGoes, NothingGoes DEF Unless
<1> HIDE DEF name
<1>4. ASSUME NEW i \in 1..Len(arguments) PROVE Goes(parts[i], "tabbed", "tabbed", seen)
  BY ShowGoes
<1>5. Len(parts) = Len(arguments)
  <2>1. parts = [i \in 1..Len(arguments) |-> parts[i]]
    OBVIOUS
  <2> HIDE DEF parts, arguments
  <2> QED
    BY <1>2, <2>1, LenOfParts
<1> HIDE DEF parts, arguments
<1>6. Goes(Joined(parts), "tabbed", "tabbed", seen)
  BY <1>2, <1>4, <1>5, JoinedGoes
<1>7. Goes(Do("tabbed") \o Joined(parts), "start", "tabbed", seen)
  BY <1>6, TabbedGoes, BothGo
<1>8. Flat(Do("tabbed") \o Joined(parts) \o Line, seen)
  BY <1>7, LineGoes, BothGo DEF Flat, Rests
<1>9. Rests(Braced(Do("tabbed") \o Joined(parts) \o Line), seen)
  BY <1>8, BracedRests
<1> QED
  BY <1>1, <1>3, <1>9, BothGo DEF Rests

LEMMA VisitFunctions ==
  ASSUME NEW seen, NEW n, Tree(n, seen), n.kind = "function"
  PROVE  Rests(Visit(n), seen)
<1> PICK last : last = Len(n.kids)
  OBVIOUS
<1>1. /\ IsSequence(n.kids) /\ last \in Nat /\ last >= 2 /\ last \in 1..last
      /\ \A i \in 1..last : Tree(n.kids[i], seen)
      /\ \A i \in 1..last : n.kids[i].kind \in Parts => i = last - 1
  <2>1. Shape(n, seen) /\ \A i \in 1..last : Tree(n.kids[i], seen)
    BY TreeIs
  <2>2. last \in Nat /\ 1 \in 1..last /\ 2 \in 1..last
    BY KidsThere DEF TwoUp
  <2>3. IsSequence(n.kids) /\ \A i \in 1..last : n.kids[i].kind \in Parts => i = last - 1
    BY <2>1 DEF Shape, MayHavePart
  <2> QED
    BY <2>1, <2>2, <2>3
<1> DEFINE kids == SubSeq(n.kids, 1, last - 1)
           head == Node("prototype", "", kids)
<1>2. Visit(n) = Braced(Child(head) \o Section(n.kids[last]))
  <2>1. Visit(n) = VisitFunctionStatement(n)
    BY DEF Visit
  <2> QED
    BY <2>1 DEF VisitFunctionStatement
<1>l. last \in Nat /\ last >= 2
  BY <1>1
<1> PICK l \in Nat : l = last - 1
  BY <1>l
<1>3. /\ IsSequence(kids) /\ Len(kids) = l
      /\ \A i \in 1..l : i \in 1..last /\ kids[i] = n.kids[i]
  <2>1. 1 \in Nat /\ l >= 1 /\ l <= last /\ 1 <= l + 1 /\ l - 1 + 1 = l
    BY <1>1
  <2>2. /\ IsSequence(kids) /\ Len(kids) = l - 1 + 1
        /\ \A i \in 1..l - 1 + 1 : 1 + i - 1 \in 1..last /\ kids[i] = n.kids[1 + i - 1]
    BY <1>1, <2>1, Slice
  <2> HIDE DEF kids
  <2> QED
    BY <2>1, <2>2
<1> HIDE DEF kids
<1>4. Value(head, seen)
  <2>1. head.kind = "prototype" /\ head.kids = kids
    BY DEF Node
  <2> HIDE DEF head
  <2>2. l >= 1
    BY <1>1
  <2>3. \A i \in 1..l : Tree(kids[i], seen) /\ (kids[i].kind \in Parts => i = l)
    BY <1>1, <1>3
  <2>4. Shape(head, seen)
    BY <1>3, <2>1, <2>2, <2>3 DEF Shape, OneUp, TwoUp, FourUp, MayHavePart
  <2>5. Tree(head, seen)
    BY <1>3, <2>1, <2>3, <2>4, TreeOf
  <2> QED
    BY <2>1, <2>5 DEF Value, Parts
<1> HIDE DEF head
<1>5. Value(n.kids[last], seen)
  BY <1>1 DEF Value
<1>6. Flat(Child(head), seen) /\ Flat(Section(n.kids[last]), seen)
  BY <1>4, <1>5, ChildFlat, SectionFlat
<1> QED
  BY <1>2, <1>6, FlatBoth, BracedRests

(* The two that break the rules of a line.                                 *)
LEMMA VisitSwitches ==
  ASSUME NEW seen, NEW n, Tree(n, seen), n.kind = "switch"
  PROVE  Rests(Visit(n), seen)
<1> PICK last : last = Len(n.kids)
  OBVIOUS
<1>1. seen # {} /\ AllValues(n.kids, seen) /\ last \in Nat /\ 1 \in 1..last /\ 2 \in 1..last
  BY KidsAreValues, KidsThere, TreeIs DEF TwoUp, Shape
<1>2. last >= 2 /\ last \in 1..last
  BY <1>1
<1> PICK l \in Nat : l = last - 1
  BY <1>2
<1> DEFINE cases == ForEach(SubSeq(n.kids, 2, l), Child)
           default == Unless(n.kids[last] = Null, Section(n.kids[last]))
<1>3. Visit(n) = Braced(Do("tabbed") \o Braced(Accept(n.kids[1])) \o
                        Do("tabbed") \o Braced(cases \o default))
  <2>1. Visit(n) = VisitSwitchStatement(n)
    BY DEF Visit
  <2> QED
    BY <2>1 DEF VisitSwitchStatement
<1>4. Flat(cases, seen)
  <2>1. 2 >= 1 /\ l <= last /\ 2 <= l + 1 /\ 2 \in Nat
    BY <1>2
  <2>2. AllValues(SubSeq(n.kids, 2, l), seen)
    BY <1>1, <2>1, SliceOfValues
  <2> QED
    BY <2>2, ChildrenFlat
<1> HIDE DEF cases
<1>5. Flat(default, seen)
  <2>1. Value(n.kids[last], seen)
    BY <1>1, <1>2 DEF AllValues
  <2> QED
    BY <2>1, SectionFlat, UnlessFlat
<1> HIDE DEF default
<1>6. Rests(Braced(cases \o default), seen)
  BY <1>4, <1>5, FlatBoth, BracedRests
<1>7. Flat(Accept(n.kids[1]), seen)
  <2>1. Value(n.kids[1], seen)
    BY <1>1 DEF AllValues
  <2> QED
    BY <1>1, <2>1, AcceptGoes
<1>8. Flat(Do("tabbed") \o Braced(Accept(n.kids[1])), seen)
  BY <1>7, BracedRests, TabbedLine
<1>9. Flat(Do("tabbed") \o Braced(Accept(n.kids[1])) \o
           Do("tabbed") \o Braced(cases \o default), seen)
  BY <1>6, <1>8, LineAfter
<1> QED
  BY <1>3, <1>9, BracedRests

LEMMA VisitIfElse ==
  ASSUME NEW seen, NEW n, Tree(n, seen), n.kind = "if", Len(n.kids) = 3
  PROVE  Rests(Visit(n), seen)
<1>1. seen # {} /\ AllValues(n.kids, seen) /\ {1, 2, 3} \subseteq 1..Len(n.kids)
  BY KidsAreValues, TreeIs DEF Shape
<1>2. Value(n.kids[1], seen) /\ Value(n.kids[2], seen) /\ Value(n.kids[3], seen)
  BY <1>1 DEF AllValues
<1> DEFINE first == Section(n.kids[1])
           second == Child(n.kids[2])
           true == Do("tabbed") \o Do("open") \o Do("tab++") \o second \o Do("tab--")
<1>3. Visit(n) = Braced(first \o true \o Section(n.kids[3]))
  <2>1. Visit(n) = VisitIfElseStatement(n)
    BY DEF Visit
  <2> QED
    BY <2>1 DEF VisitIfElseStatement
<1>4. Flat(first, seen) /\ Flat(second, seen)
  BY <1>2, SectionFlat, ChildFlat
<1> HIDE DEF first, second
<1>5. Goes(true, "start", "opened", seen)
  <2> HIDE DEF true
  <2> SUFFICES ASSUME NEW k \in Nat PROVE Takes(true, k, "start", k, "opened", seen)
    BY DEF Goes
  <2> PICK l \in Nat : l = k + 1
    OBVIOUS
  <2>1. Goes(Do("tabbed") \o Do("open"), "start", "opened", seen)
    BY TabbedGoes, BracesGo, BothGo
  <2>2. Takes(Do("tabbed") \o Do("open"), k, "start", k, "opened", seen)
    BY <2>1 DEF Goes
  <2>3. Takes(Do("tab++"), k, "opened", l, "start", seen)
    BY TabsTake
  <2>4. Takes(Do("tabbed") \o Do("open") \o Do("tab++"), k, "start", l, "start", seen)
    BY <2>2, <2>3, BothTake
  <2>5. Takes(second, l, "start", l, "start", seen)
    BY <1>4 DEF Flat, Goes
  <2>6. Takes(Do("tabbed") \o Do("open") \o Do("tab++") \o second, k, "start", l, "start", seen)
    BY <2>4, <2>5, BothTake
  <2>7. Takes(Do("tab--"), l, "start", k, "opened", seen)
    BY TabsTake
  <2> QED
    BY <2>6, <2>7, BothTake DEF true
<1> HIDE DEF true
<1>6. Goes(first \o true, "start", "opened", seen)
  BY <1>4, <1>5, BothGo DEF Flat
<1>7. Goes(Section(n.kids[3]), "opened", "start", seen)
  <2>1. Flat(Child(n.kids[3]), seen)
    BY <1>2, ChildFlat
  <2> SUFFICES ASSUME NEW k \in Nat PROVE Takes(Section(n.kids[3]), k, "opened", k, "start", seen)
    BY DEF Goes
  <2>2. Takes(Do("tabbed"), k, "opened", k, "closing", seen)
    BY TabbedGoes DEF Goes
  <2>3. Goes(Braced(Child(n.kids[3])), "closing", "start", seen)
    BY <1>1, <2>1, BracedGoes
  <2>4. Takes(Braced(Child(n.kids[3])), k, "closing", k, "start", seen)
    BY <2>3 DEF Goes
  <2> QED
    BY <2>2, <2>4, BothTake DEF Section
<1>8. Flat(first \o true \o Section(n.kids[3]), seen)
  BY <1>6, <1>7, BothGo DEF Flat
<1> QED
  BY <1>3, <1>8, BracedRests

(* Whatever a handle may hold, its Visit leads from the line that has been *)
(* begun to a fresh one, and has the indentation it began with.            *)
LEMMA VisitsRest ==
  ASSUME NEW seen, NEW n, Value(n, seen), n # Null
  PROVE  Rests(Visit(n), seen)
<1>1. Tree(n, seen) /\ Shape(n, seen) /\ n.kind \notin Parts
  BY TreeIs DEF Value
<1>2. n.kind # "null" /\ (n.kind = "if" => Len(n.kids) = 2 \/ Len(n.kids) = 3)
  <2>1. n.kind # "null"
    BY <1>1 DEF Shape
  <2>2. ASSUME n.kind = "if" PROVE Len(n.kids) = 2 \/ Len(n.kids) = 3
    <3>1. Len(n.kids) \in Nat /\ 2 \in 1..Len(n.kids)
      BY <1>1, <2>2, KidsThere DEF TwoUp
    <3>2. Len(n.kids) <= 3
      BY <1>1, <2>2 DEF Shape
    <3>3. \A m \in Nat : 2 \in 1..m /\ m <= 3 => m = 2 \/ m = 3
      OBVIOUS
    <3> QED
      BY <3>1, <3>2, <3>3
  <2> QED
    BY <2>1, <2>2
<1>3. n.kind \in Free \union OneUp \union TwoUp \union FourUp
  BY <1>1 DEF Shape
<1>4. CASE n.kind \in Free
  <2>1. \/ n.kind \in {"leaf", "undefined", "true"}
        \/ n.kind \in {"array", "arguments", "ternary", "comma", "var", "block"}
        \/ n.kind = "object" \/ n.kind = "break" \/ n.kind = "return"
    BY <1>1, <1>2, <1>4 DEF Free, Parts
  <2> QED
    BY <1>1, <2>1, VisitLiterals, VisitLists, VisitObject, VisitBreak, VisitReturn
<1>5. CASE n.kind \in OneUp
  <2>1. \/ n.kind \in {"new", "prefix", "postfix", "throw"}
        \/ n.kind \in {"binary", "times"}
        \/ n.kind = "label" \/ n.kind = "declaration" \/ n.kind = "prototype"
    BY <1>1, <1>5 DEF OneUp, Parts
  <2> QED
    BY <1>1, <2>1, VisitUnary, VisitBinary, VisitLabels, VisitDeclarations, VisitPrototypes
<1>6. CASE n.kind \in TwoUp
  <2>1. \/ n.kind \in {"call", "dot", "index"}
        \/ n.kind \in {"binary", "times"}
        \/ n.kind \in {"while", "do", "case"} \/ (n.kind = "if" /\ Len(n.kids) = 2)
        \/ (n.kind = "if" /\ Len(n.kids) = 3)
        \/ n.kind = "assign" \/ n.kind = "function" \/ n.kind = "switch"
    BY <1>2, <1>6 DEF TwoUp
  <2> QED
    BY <1>1, <2>1, VisitMembers, VisitBinary, VisitPairs, VisitIfElse, VisitAssign, VisitFunctions,
       VisitSwitches
<1>7. CASE n.kind \in FourUp
  <2>1. n.kind = "for" \/ n.kind = "try"
    BY <1>7 DEF FourUp
  <2> QED
    BY <1>1, <2>1, VisitFor, VisitTry
<1> QED
  BY <1>3, <1>4, <1>5, <1>6, <1>7

-----------------------------------------------------------------------------
(* The program.                                                            *)

(* What the line is like at a place.                                       *)
Lined(at) ==
  /\ at \in {"start", "opened"} => line = Fresh
  /\ Words = {} /\ at = "tabbed" => Indentation = tab
  /\ Words = {} /\ at = "closing" => line = tab

(* The braces still open are those of the indentations so far, and the one *)
(* about to be closed or to be followed by a deeper line.                  *)
Upwards(m) == [i \in 1..m |-> i - 1]

Unclosing(at) == tab + IF at \in {"opened", "closing"} THEN 1 ELSE 0

Braces(at) == Words = {} => opened = Upwards(Unclosing(at))

IsVisit(v) == v = [todo |-> v.todo, tab0 |-> v.tab0] /\ v.tab0 \in Nat

(* The Visits below the innermost go on, when the one above them returns,  *)
(* with a fresh line and the indentation they had.                         *)
Resumes(m) ==
  Takes(visits[m].todo, visits[m + 1].tab0 - visits[m].tab0, "start", 0, "start", Words)

Inner(at) ==
  /\ Takes(Todo, tab - visits[Len(visits)].tab0, at, 0, "start", Words)
  /\ Lined(at)
  /\ Braces(at)

Printing ==
  /\ tab \in Nat
  /\ fate = "parsing" => tab = 0 /\ line = Fresh /\ opened = <<>>
  /\ fate = "printed" => tab = 0 /\ line = Fresh
  /\ fate \in {"printing", "printed", "crash", "abort"} => status = "done"
  /\ fate = "printing" =>
       /\ IsSequence(visits) /\ visits # <<>>
       /\ visits[1].tab0 = 0
       /\ \A m \in 1..Len(visits) : IsVisit(visits[m])
       /\ \A m \in 1..Len(visits) - 1 : Resumes(m)
       /\ \E at : Inner(at)

LEMMA SampleInits ==
  ASSUME SampleInit
  PROVE  Printing
  BY DEF SampleInit, Printing

(* A parse that has ended takes no more steps.                             *)
LEMMA StepsRun ==
  ASSUME Step
  PROVE  status \in {"running", "throwing"}
<1>1. ASSUME ParseProgram PROVE status = "running"
  BY <1>1 DEF ParseProgram, At
<1>2. ASSUME ParseCommaExpression PROVE status = "running"
  BY <1>2 DEF ParseCommaExpression, At
<1>3. ASSUME ParseAssignExpression PROVE status = "running"
  BY <1>3 DEF ParseAssignExpression, At
<1>4. ASSUME ParseTernaryExpression PROVE status = "running"
  BY <1>4 DEF ParseTernaryExpression, At
<1>5. ASSUME ParseBinaryExpression PROVE status = "running"
  BY <1>5 DEF ParseBinaryExpression, At
<1>6. ASSUME ParseBinaryExpressionRhs PROVE status = "running"
  BY <1>6 DEF ParseBinaryExpressionRhs, At
<1>7. ASSUME ParseUnaryExpression PROVE status = "running"
  BY <1>7 DEF ParseUnaryExpression, At
<1>8. ASSUME ParseNewExpression PROVE status = "running"
  BY <1>8 DEF ParseNewExpression, At
<1>9. ASSUME ParseMemberExpression PROVE status = "running"
  BY <1>9 DEF ParseMemberExpression, At
<1>10. ASSUME ParseDotExpression PROVE status = "running"
  BY <1>10 DEF ParseDotExpression, At
<1>11. ASSUME ParseIndexExpression PROVE status = "running"
  BY <1>11 DEF ParseIndexExpression, At
<1>12. ASSUME ParseArgumentList PROVE status = "running"
  BY <1>12 DEF ParseArgumentList, At
<1>13. ASSUME ParsePrimary PROVE status = "running"
  BY <1>13 DEF ParsePrimary, At
<1>14. ASSUME ParseArrayLiteral PROVE status = "running"
  BY <1>14 DEF ParseArrayLiteral, At
<1>15. ASSUME ParseObjectLiteral PROVE status = "running"
  BY <1>15 DEF ParseObjectLiteral, At
<1>16. ASSUME ParseObjectMethod PROVE status = "running"
  BY <1>16 DEF ParseObjectMethod, At
<1>17. ASSUME ParseStatement PROVE status = "running"
  BY <1>17 DEF ParseStatement, At
<1>18. ASSUME ParseIfStatement PROVE status = "running"
  BY <1>18 DEF ParseIfStatement, At
<1>19. ASSUME ParseForStatement PROVE status = "running"
  BY <1>19 DEF ParseForStatement, At
<1>20. ASSUME ParseWhileStatement PROVE status = "running"
  BY <1>20 DEF ParseWhileStatement, At
<1>21. ASSUME ParseDoWhileStatement PROVE status = "running"
  BY <1>21 DEF ParseDoWhileStatement, At
<1>22. ASSUME ParseParameterList PROVE status = "running"
  BY <1>22 DEF ParseParameterList, At
<1>23. ASSUME ParseFunctionStatement PROVE status = "running"
  BY <1>23 DEF ParseFunctionStatement, At
<1>24. ASSUME ParseBlockStatement PROVE status = "running"
  BY <1>24 DEF ParseBlockStatement, At
<1>25. ASSUME ParseReturnStatement PROVE status = "running"
  BY <1>25 DEF ParseReturnStatement, At
<1>26. ASSUME ParseDeclaration PROVE status = "running"
  BY <1>26 DEF ParseDeclaration, At
<1>27. ASSUME ParseVariableStatement PROVE status = "running"
  BY <1>27 DEF ParseVariableStatement, At
<1>28. ASSUME ParseCaseBlock PROVE status = "running"
  BY <1>28 DEF ParseCaseBlock, At
<1>29. ASSUME ParseDefaultClause PROVE status = "running"
  BY <1>29 DEF ParseDefaultClause, At
<1>30. ASSUME ParseSwitchStatement PROVE status = "running"
  BY <1>30 DEF ParseSwitchStatement, At
<1>31. ASSUME ParseBreakStatement PROVE status = "running"
  BY <1>31 DEF ParseBreakStatement, At
<1>32. ASSUME ParseTryCatchStatement PROVE status = "running"
  BY <1>32 DEF ParseTryCatchStatement, At
<1>33. ASSUME ParseThrowStatement PROVE status = "running"
  BY <1>33 DEF ParseThrowStatement, At
<1>34. ASSUME UnwindLoop \/ UnwindRest PROVE status = "throwing"
  BY <1>34 DEF UnwindLoop, UnwindRest
<1> QED
  BY <1>1, <1>2, <1>3, <1>4, <1>5, <1>6, <1>7, <1>8, <1>9, <1>10, <1>11, <1>12, <1>13, <1>14, <1>15, <1>16, <1>17, <1>18, <1>19, <1>20, <1>21, <1>22, <1>23, <1>24, <1>25, <1>26, <1>27, <1>28, <1>29, <1>30, <1>31, <1>32, <1>33, <1>34
     DEF Step, Expressions, Statements

(* The indentations from the margin on.                                    *)
LEMMA UpwardsIs ==
  ASSUME NEW m \in Nat
  PROVE  /\ IsSequence(Upwards(m)) /\ Len(Upwards(m)) = m
         /\ Append(Upwards(m), m) = Upwards(m + 1)
         /\ SubSeq(Upwards(m + 1), 1, m) = Upwards(m)
         /\ Upwards(m + 1)[m + 1] = m /\ Upwards(m + 1) # <<>> /\ Len(Upwards(m + 1)) = m + 1
<1>1. \A k \in Nat : Upwards(k) \in [1..k -> Int]
  BY DEF Upwards
<1>2. \A k \in Nat : Upwards(k) \in Seq(Int) /\ Len(Upwards(k)) = k
  BY <1>1
<1>3. \A k \in Nat : \A i \in 1..k : Upwards(k)[i] = i - 1
  BY DEF Upwards
<1>4. IsSequence(Upwards(m))
  BY <1>2, OwnElements
<1> DEFINE u == Append(Upwards(m), m)
<1>5. u \in Seq(Int) /\ Len(u) = m + 1 /\ \A i \in 1..m + 1 : u[i] = i - 1
  <2>1. Upwards(m) \in Seq(Int) /\ Len(Upwards(m)) = m /\ m \in Int
    BY <1>2
  <2>2. u \in Seq(Int) /\ Len(u) = m + 1 /\ u[m + 1] = m /\ \A i \in 1..m : u[i] = Upwards(m)[i]
    BY <2>1
  <2> HIDE DEF u
  <2>3. \A i \in 1..m + 1 : i \in 1..m \/ i = m + 1
    OBVIOUS
  <2> QED
    BY <1>3, <2>2, <2>3
<1> HIDE DEF u
<1> PICK n \in Nat : n = m + 1
  OBVIOUS
<1>6. u = Upwards(n)
  <2>1. u = [i \in 1..n |-> u[i]]
    BY <1>5
  <2> QED
    BY <1>5, <2>1 DEF Upwards
<1> DEFINE v == SubSeq(Upwards(n), 1, m)
<1>7. v = Upwards(m)
  <2>1. Upwards(n) \in Seq(Int) /\ Len(Upwards(n)) = n
    BY <1>2
  <2>2. v \in Seq(Int) /\ Len(v) = m /\ \A i \in 1..m : v[i] = Upwards(n)[i]
    BY <2>1, SubSeqProperties
  <2> HIDE DEF v
  <2>3. \A i \in 1..m : i \in 1..n
    OBVIOUS
  <2>4. \A i \in 1..m : v[i] = i - 1
    BY <1>3, <2>2, <2>3
  <2>5. v = [i \in 1..m |-> v[i]]
    BY <2>2
  <2> QED
    BY <2>4, <2>5 DEF Upwards
<1>8. Upwards(n)[m + 1] = m /\ Len(Upwards(n)) = n /\ Upwards(n) # <<>>
  <2>1. m + 1 \in 1..n /\ m + 1 - 1 = m /\ n # 0
    OBVIOUS
  <2>2. Len(Upwards(n)) = n
    BY <1>2
  <2> QED
    BY <1>3, <2>1, <2>2, Tuples
<1> QED
  BY <1>2, <1>4, <1>6, <1>7, <1>8 DEF u

-----------------------------------------------------------------------------
(* The Visit in progress does the next thing.                              *)

LEMMA LessToDo ==
  ASSUME NEW v, IsVisit(v), NEW rest
  PROVE  [v EXCEPT !.todo = rest] = [todo |-> rest, tab0 |-> v.tab0]
<1>1. v \in [todo : {v.todo}, tab0 : {v.tab0}]
  BY DEF IsVisit
<1>2. [v EXCEPT !.todo = rest] \in [todo : {rest}, tab0 : {v.tab0}]
  BY <1>1
<1> QED
  BY <1>2

LEMMA OnwardIs ==
  ASSUME IsSequence(visits), visits # <<>>, \A m \in 1..Len(visits) : IsVisit(visits[m])
  PROVE  /\ Len(visits) \in Nat /\ Len(visits) >= 1
         /\ IsSequence(Onward) /\ Onward # <<>> /\ Len(Onward) = Len(visits)
         /\ \A m \in 1..Len(visits) - 1 : Onward[m] = visits[m]
         /\ \A m \in 1..Len(visits) : IsVisit(Onward[m]) /\ Onward[m].tab0 = visits[m].tab0
         /\ Onward[Len(visits)].todo = Tail(Todo)
<1> DEFINE S == {visits[i] : i \in 1..Len(visits)}
<1>1. visits \in Seq(S)
  BY DEF IsSequence
<1> PICK n : n = Len(visits)
  OBVIOUS
<1>2. n \in Nat /\ n >= 1 /\ n \in 1..n /\ visits \in [1..n -> S]
  BY <1>1
<1> HIDE DEF S
<1> PICK v : v = visits[n]
  OBVIOUS
<1>3. v = [todo |-> v.todo, tab0 |-> v.tab0] /\ v.tab0 \in Nat /\ Todo = v.todo
  BY <1>2 DEF IsVisit, Todo
<1> DEFINE w == [todo |-> Tail(v.todo), tab0 |-> v.tab0]
<1>4. Onward = [visits EXCEPT ![n] = w]
  <2>1. [v EXCEPT !.todo = Tail(v.todo)] = w
    BY <1>3, LessToDo DEF IsVisit
  <2>2. Onward = [visits EXCEPT ![n] = [visits[n] EXCEPT !.todo = Tail(visits[n].todo)]]
    BY DEF Onward
  <2> QED
    BY <2>1, <2>2
<1>5. w.todo = Tail(v.todo) /\ w.tab0 = v.tab0 /\ IsVisit(w)
  BY <1>3 DEF IsVisit
<1> HIDE DEF w
<1>6. Onward \in [1..n -> S \union {w}] /\ Onward[n] = w /\ \A m \in 1..n : m # n => Onward[m] = visits[m]
  BY <1>2, <1>4
<1>7. IsSequence(Onward) /\ Len(Onward) = n
  BY <1>2, <1>6, FromFunction
<1>8. Onward # <<>>
  BY <1>2, <1>7, Tuples
<1>9. \A m \in 1..n - 1 : m \in 1..n /\ m # n
  BY <1>2
<1>10. ASSUME NEW m \in 1..n PROVE IsVisit(Onward[m]) /\ Onward[m].tab0 = visits[m].tab0
  <2>1. CASE m = n
    BY <1>5, <1>6, <2>1
  <2>2. CASE m # n
    BY <1>6, <2>2
  <2> QED
    BY <2>1, <2>2
<1> QED
  BY <1>2, <1>3, <1>5, <1>6, <1>7, <1>8, <1>9, <1>10

LEMMA VisitsAre ==
  ASSUME Printing, fate = "printing"
  PROVE  /\ IsSequence(visits) /\ visits # <<>>
         /\ \A m \in 1..Len(visits) : IsVisit(visits[m])
         /\ Len(visits) \in Nat /\ Len(visits) >= 1 /\ Len(visits) \in 1..Len(visits)
         /\ visits[Len(visits)].tab0 \in Nat /\ tab \in Nat
<1>1. /\ IsSequence(visits) /\ visits # <<>> /\ tab \in Nat
      /\ \A m \in 1..Len(visits) : IsVisit(visits[m])
  BY DEF Printing
<1>2. Len(visits) \in Nat /\ Len(visits) >= 1
  BY <1>1, OnwardIs
<1>3. Len(visits) \in 1..Len(visits)
  BY <1>2
<1> QED
  BY <1>1, <1>2, <1>3 DEF IsVisit

(* The innermost Visit goes on, and no other begins or ends.               *)
LEMMA GoesOn ==
  ASSUME Printing, fate = "printing", UNCHANGED <<status, fate>>, Words' = Words,
         visits' = Onward, tab' \in Nat,
         NEW by, Lined(by)', Braces(by)',
         Takes(Tail(Todo), tab' - visits[Len(visits)].tab0, by, 0, "start", Words)
  PROVE  Printing'
<1> PICK n : n = Len(visits)
  OBVIOUS
<1>1. n \in Nat /\ n >= 1 /\ n \in 1..n
  BY VisitsAre
<1>2. /\ IsSequence(visits') /\ visits' # <<>> /\ Len(visits') = n
      /\ \A m \in 1..n - 1 : visits'[m] = visits[m]
      /\ \A m \in 1..n : IsVisit(visits'[m]) /\ visits'[m].tab0 = visits[m].tab0
      /\ visits'[n].todo = Tail(Todo)
  BY OnwardIs, VisitsAre
<1>3. visits'[1].tab0 = 0
  <2>1. 1 \in 1..n
    BY <1>1
  <2> QED
    BY <1>2, <2>1 DEF Printing
<1>4. ASSUME NEW m \in 1..n - 1
      PROVE  Takes(visits'[m].todo, visits'[m + 1].tab0 - visits'[m].tab0, "start", 0, "start", Words')
  <2>1. m \in 1..n /\ m + 1 \in 1..n
    BY <1>1
  <2>2. Takes(visits[m].todo, visits[m + 1].tab0 - visits[m].tab0, "start", 0, "start", Words)
    BY DEF Printing, Resumes
  <2> QED
    BY <1>2, <2>1, <2>2
<1>5. Takes(visits'[n].todo, tab' - visits'[n].tab0, by, 0, "start", Words')
  BY <1>1, <1>2
<1>6. Inner(by)'
  BY <1>2, <1>5 DEF Inner, Todo
<1>7. \A m \in 1..Len(visits') - 1 : Resumes(m)'
  BY <1>2, <1>4 DEF Resumes
<1>8. status' = "done" /\ fate' = "printing"
  BY DEF Printing
<1>9. IsSequence(visits)' /\ \A m \in 1..Len(visits') : IsVisit(visits[m])'
  BY <1>2
<1>10. \E at : Inner(at)'
  BY <1>6
<1> QED
  BY <1>2, <1>3, <1>7, <1>8, <1>9, <1>10 DEF Printing

(* Where the innermost Visit is, and what comes next.                      *)
LEMMA NextIs ==
  ASSUME Printing, fate = "printing", Todo # <<>>
  PROVE  \E at, l, by : /\ Inner(at) /\ l \in Nat
                        /\ Does(Todo[1], tab - visits[Len(visits)].tab0, at, l, by, Words)
                        /\ Takes(Tail(Todo), l, by, 0, "start", Words)
<1>1. PICK at : Inner(at)
  BY DEF Printing
<1>2. \E l, by : /\ Does(Todo[1], tab - visits[Len(visits)].tab0, at, l, by, Words)
                 /\ Takes(Tail(Todo), l, by, 0, "start", Words)
  BY <1>1, FirstTakes DEF Inner
<1>3. PICK l : \E by : /\ Does(Todo[1], tab - visits[Len(visits)].tab0, at, l, by, Words)
                       /\ Takes(Tail(Todo), l, by, 0, "start", Words)
  BY <1>2
<1>4. l \in Nat
  BY <1>3 DEF Does
<1> QED
  BY <1>1, <1>3, <1>4

LEMMA SameText ==
  ASSUME UNCHANGED vars
  PROVE  Words' = Words /\ UNCHANGED status
  BY DEF vars, reading, Words, Has, TypeOf, here

LEMMA TabbedKeeps ==
  ASSUME Printing, os_tabbed
  PROVE  Printing'
<1>1. /\ fate = "printing" /\ Todo # <<>> /\ Todo[1].do = "tabbed"
      /\ line' = (IF line = Fresh THEN tab ELSE line)
      /\ visits' = Onward /\ UNCHANGED <<tab, opened, fate>> /\ UNCHANGED vars
  BY DEF os_tabbed, Now, Visiting
<1>2. PICK at, l, by : /\ Inner(at) /\ l \in Nat
                       /\ Does(Todo[1], tab - visits[Len(visits)].tab0, at, l, by, Words)
                       /\ Takes(Tail(Todo), l, by, 0, "start", Words)
  BY <1>1, NextIs
<1>3. /\ l = tab - visits[Len(visits)].tab0
      /\ (at = "start" /\ by = "tabbed") \/ (at = "opened" /\ by = "closing")
  BY <1>1, <1>2 DEF Does
<1>4. tab \in Nat /\ line' = tab /\ tab' = tab /\ opened' = opened
  BY <1>1, <1>2, <1>3, VisitsAre DEF Inner, Lined
<1>5. Words' = Words /\ UNCHANGED status
  BY <1>1, SameText
<1>6. Lined(by)'
  BY <1>3, <1>4 DEF Lined, Indentation, Fresh
<1>7. Unclosing(by)' = Unclosing(at)
  BY <1>3, <1>4 DEF Unclosing
<1>8. Braces(by)'
  BY <1>2, <1>4, <1>5, <1>7 DEF Inner, Braces
<1> QED
  BY <1>1, <1>2, <1>3, <1>4, <1>5, <1>6, <1>8, GoesOn

LEMMA MoveTabKeeps ==
  ASSUME Printing, MoveTab
  PROVE  Printing'
<1>1. /\ fate = "printing" /\ Todo # <<>>
      /\ (Todo[1].do = "tab++" /\ tab' = tab + 1) \/ (Todo[1].do = "tab--" /\ tab' = tab - 1)
      /\ visits' = Onward /\ UNCHANGED <<line, opened, fate>> /\ UNCHANGED vars
  BY DEF MoveTab, Now, Visiting
<1>2. PICK at, l, by : /\ Inner(at) /\ l \in Nat
                       /\ Does(Todo[1], tab - visits[Len(visits)].tab0, at, l, by, Words)
                       /\ Takes(Tail(Todo), l, by, 0, "start", Words)
  BY <1>1, NextIs
<1> PICK t0 : t0 = visits[Len(visits)].tab0
  OBVIOUS
<1>3. tab \in Nat /\ t0 \in Nat
  BY <1>1, VisitsAre
<1>4. \/ Todo[1].do = "tab++" /\ l = tab - t0 + 1 /\ at = "opened" /\ by = "start"
      \/ Todo[1].do = "tab--" /\ tab - t0 = l + 1 /\ at = "start" /\ by = "opened"
  BY <1>1, <1>2 DEF Does
<1>5. tab' \in Nat /\ l = tab' - t0
  <2>1. CASE Todo[1].do = "tab++"
    <3>1. tab' = tab + 1 /\ l = tab - t0 + 1
      BY <1>1, <1>4, <2>1
    <3> QED
      BY <1>3, <3>1
  <2>2. CASE Todo[1].do = "tab--"
    <3>1. tab' = tab - 1 /\ tab - t0 = l + 1 /\ l \in Nat
      BY <1>1, <1>2, <1>4, <2>2
    <3> QED
      BY <1>3, <3>1
  <2> QED
    BY <1>1, <2>1, <2>2
<1>6. line = Fresh /\ line' = line /\ opened' = opened
  BY <1>1, <1>2, <1>4 DEF Inner, Lined
<1>7. Words' = Words /\ UNCHANGED status
  BY <1>1, SameText
<1>8. Lined(by)'
  BY <1>4, <1>6 DEF Lined
<1>9. Unclosing(by)' = Unclosing(at)
  BY <1>1, <1>3, <1>4 DEF Unclosing
<1>10. Braces(by)'
  BY <1>2, <1>6, <1>7, <1>9 DEF Inner, Braces
<1>11. Takes(Tail(Todo), tab' - t0, by, 0, "start", Words)
  BY <1>2, <1>5
<1> QED
  BY <1>1, <1>5, <1>7, <1>8, <1>10, <1>11, GoesOn

LEMMA EndLineKeeps ==
  ASSUME Printing, EndLine
  PROVE  Printing'
<1>1. /\ fate = "printing" /\ Todo # <<>>
      /\ \/ Todo[1].do = "open" /\ opened' = Append(opened, Indentation)
         \/ Todo[1].do = "close" /\ opened' = SubSeq(opened, 1, Len(opened) - 1)
         \/ Todo[1].do = "line" /\ opened' = opened
      /\ line' = Fresh
      /\ visits' = Onward /\ UNCHANGED <<tab, fate>> /\ UNCHANGED vars
  BY DEF EndLine, Now, Visiting
<1>2. PICK at, l, by : /\ Inner(at) /\ l \in Nat
                       /\ Does(Todo[1], tab - visits[Len(visits)].tab0, at, l, by, Words)
                       /\ Takes(Tail(Todo), l, by, 0, "start", Words)
  BY <1>1, NextIs
<1>3. /\ l = tab - visits[Len(visits)].tab0
      /\ \/ /\ Todo[1].do = "open" /\ by = "opened"
            /\ at = "tabbed" \/ Words # {}
         \/ Todo[1].do = "close" /\ at = "closing" /\ by = "start"
         \/ Todo[1].do = "line" /\ at \in {"start", "tabbed"} /\ by = "start"
  BY <1>1, <1>2 DEF Does
<1>4. tab \in Nat /\ tab' = tab
  BY <1>1, VisitsAre
<1>5. Words' = Words /\ UNCHANGED status
  BY <1>1, SameText
<1>6. Lined(by)'
  BY <1>1, <1>3 DEF Lined
<1>7. ASSUME Words = {} PROVE opened' = Upwards(Unclosing(by)')
  <2>1. opened = Upwards(Unclosing(at)) /\ (at = "tabbed" => Indentation = tab)
    BY <1>2, <1>7 DEF Inner, Braces, Lined
  <2>2. CASE Todo[1].do = "open"
    <3>1. Unclosing(at) = tab /\ Unclosing(by)' = tab + 1 /\ at = "tabbed"
      BY <1>3, <1>4, <1>7, <2>2 DEF Unclosing
    <3>2. opened' = Append(Upwards(tab), tab)
      BY <1>1, <2>1, <2>2, <3>1
    <3> QED
      BY <1>4, <3>1, <3>2, UpwardsIs
  <2>3. CASE Todo[1].do = "close"
    <3>1. Unclosing(at) = tab + 1 /\ Unclosing(by)' = tab
      BY <1>3, <1>4, <2>3 DEF Unclosing
    <3>2. Len(opened) = tab + 1
      BY <1>4, <2>1, <3>1, UpwardsIs
    <3>3. opened' = SubSeq(Upwards(tab + 1), 1, tab)
      <4>1. tab + 1 - 1 = tab
        BY <1>4
      <4>2. opened' = SubSeq(opened, 1, Len(opened) - 1)
        BY <1>1, <2>3
      <4>3. Len(opened) - 1 = tab
        BY <1>4, <3>2
      <4>4. opened = Upwards(tab + 1)
        BY <2>1, <3>1
      <4> QED
        BY <4>2, <4>3, <4>4
    <3> QED
      BY <1>4, <3>1, <3>3, UpwardsIs
  <2>4. CASE Todo[1].do = "line"
    <3>1. Unclosing(at) = tab /\ Unclosing(by)' = tab
      BY <1>3, <1>4, <2>4 DEF Unclosing
    <3> QED
      BY <1>1, <2>1, <2>4, <3>1
  <2> QED
    BY <1>1, <2>2, <2>3, <2>4
<1>8. Braces(by)'
  BY <1>5, <1>7 DEF Braces
<1> QED
  BY <1>1, <1>2, <1>3, <1>4, <1>5, <1>6, <1>8, GoesOn

LEMMA ShowKeeps ==
  ASSUME Printing, ShowToken
  PROVE  Printing'
<1>1. /\ fate = "printing" /\ Todo # <<>> /\ Todo[1].do \in {"show", "name"}
      /\ line' = Indentation
      /\ visits' = Onward /\ UNCHANGED <<tab, opened, fate>> /\ UNCHANGED vars
  BY DEF ShowToken, Now, Visiting
<1>2. PICK at, l, by : /\ Inner(at) /\ l \in Nat
                       /\ Does(Todo[1], tab - visits[Len(visits)].tab0, at, l, by, Words)
                       /\ Takes(Tail(Todo), l, by, 0, "start", Words)
  BY <1>1, NextIs
<1>3. l = tab - visits[Len(visits)].tab0 /\ at = "tabbed" /\ by = "tabbed"
  BY <1>1, <1>2 DEF Does
<1>4. tab \in Nat /\ tab' = tab /\ opened' = opened
  BY <1>1, VisitsAre
<1>5. Words' = Words /\ UNCHANGED status
  BY <1>1, SameText
<1>6. Lined(by)'
  <2>1. Words = {} => line' = tab'
    BY <1>1, <1>2, <1>3, <1>4 DEF Inner, Lined
  <2> QED
    BY <1>3, <1>4, <1>5, <2>1 DEF Lined, Indentation, Fresh
<1>7. Braces(by)'
  BY <1>2, <1>3, <1>4, <1>5 DEF Inner, Braces, Unclosing
<1> QED
  BY <1>1, <1>2, <1>3, <1>4, <1>5, <1>6, <1>7, GoesOn

-----------------------------------------------------------------------------
(* A Visit begins or ends.                                                 *)

LEMMA VisitKeeps ==
  ASSUME Printing, VisitChild
  PROVE  Printing'
<1> PICK n : n = Len(visits)
  OBVIOUS
<1> PICK child : child = Todo[1].of
  OBVIOUS
<1>1. /\ fate = "printing" /\ Todo # <<>> /\ Todo[1].do = "accept" /\ child # Null
      /\ visits' = Append(Onward, Begun(child))
      /\ UNCHANGED <<tab, line, opened, fate>> /\ UNCHANGED vars
  BY DEF VisitChild, Now, Visiting
<1>2. PICK at, l, by : /\ Inner(at) /\ l \in Nat
                       /\ Does(Todo[1], tab - visits[Len(visits)].tab0, at, l, by, Words)
                       /\ Takes(Tail(Todo), l, by, 0, "start", Words)
  BY <1>1, NextIs
<1>3. /\ l = tab - visits[n].tab0 /\ by = "start" /\ Value(child, Words)
      /\ at = "tabbed" \/ Words # {}
  BY <1>1, <1>2 DEF Does
<1>4. tab \in Nat /\ n \in Nat /\ n >= 1 /\ n \in 1..n
  BY <1>1, VisitsAre
<1>5. Words' = Words /\ UNCHANGED status
  BY <1>1, SameText
<1> DEFINE new == Begun(child)
<1>6. new.todo = Visit(child) /\ new.tab0 = tab /\ IsVisit(new)
  BY <1>4 DEF Begun, IsVisit
<1> HIDE DEF new
<1>7. /\ IsSequence(Onward) /\ Len(Onward) = n
      /\ \A m \in 1..n - 1 : Onward[m] = visits[m]
      /\ \A m \in 1..n : IsVisit(Onward[m]) /\ Onward[m].tab0 = visits[m].tab0
      /\ Onward[n].todo = Tail(Todo)
  BY <1>1, OnwardIs, VisitsAre
<1>8. /\ IsSequence(visits') /\ Len(visits') = n + 1
      /\ \A m \in 1..n : visits'[m] = Onward[m]
      /\ visits'[n + 1] = new
  BY <1>1, <1>7, OneMore DEF new
<1>9. visits' # <<>> /\ visits'[1].tab0 = 0
  <2>1. 1 \in 1..n /\ n + 1 # 0
    BY <1>4
  <2>2. visits[1].tab0 = 0
    BY <1>1 DEF Printing
  <2> QED
    BY <1>7, <1>8, <2>1, <2>2, Tuples
<1>10. ASSUME NEW m \in 1..n + 1 PROVE IsVisit(visits'[m])
  <2>1. m \in 1..n \/ m = n + 1
    BY <1>4
  <2> QED
    BY <1>6, <1>7, <1>8, <2>1
<1>11. ASSUME NEW m \in 1..n
       PROVE  Takes(visits'[m].todo, visits'[m + 1].tab0 - visits'[m].tab0, "start", 0, "start", Words')
  <2>1. CASE m = n
    <3>1. visits'[m].todo = Tail(Todo) /\ visits'[m].tab0 = visits[n].tab0 /\ visits'[m + 1].tab0 = tab
      BY <1>4, <1>6, <1>7, <1>8, <2>1
    <3> QED
      BY <1>2, <1>3, <1>5, <3>1
  <2>2. CASE m # n
    <3>1. m \in 1..n - 1 /\ m + 1 \in 1..n
      BY <1>4, <2>2
    <3>2. visits'[m].todo = visits[m].todo /\ visits'[m].tab0 = visits[m].tab0
      BY <1>7, <1>8, <3>1
    <3>3. visits'[m + 1].tab0 = visits[m + 1].tab0
      BY <1>7, <1>8, <3>1
    <3>4. Takes(visits[m].todo, visits[m + 1].tab0 - visits[m].tab0, "start", 0, "start", Words)
      BY <1>1, <3>1 DEF Printing, Resumes
    <3> QED
      BY <1>5, <3>2, <3>3, <3>4
  <2> QED
    BY <2>1, <2>2
<1>12. \A m \in 1..Len(visits') - 1 : Resumes(m)'
  <2>1. Len(visits') - 1 = n
    BY <1>4, <1>8
  <2> QED
    BY <1>11, <2>1 DEF Resumes
<1>13. Inner("tabbed")'
  <2>1. Takes(Visit(child), 0, "tabbed", 0, "start", Words)
    BY <1>1, <1>3, VisitsRest DEF Rests, Goes
  <2>2. Todo' = Visit(child) /\ tab' - visits'[Len(visits')].tab0 = 0
    BY <1>1, <1>4, <1>6, <1>8 DEF Todo
  <2>3. Lined("tabbed")'
    BY <1>1, <1>2, <1>3, <1>5 DEF Inner, Lined, Indentation
  <2>4. Braces("tabbed")'
    BY <1>1, <1>2, <1>3, <1>5 DEF Inner, Braces, Unclosing
  <2> QED
    BY <1>5, <2>1, <2>2, <2>3, <2>4 DEF Inner
<1>14. status' = "done" /\ fate' = "printing" /\ tab' \in Nat
  BY <1>1, <1>4, <1>5 DEF Printing
<1>15. IsSequence(visits)' /\ \A m \in 1..Len(visits') : IsVisit(visits[m])'
  BY <1>8, <1>10
<1>16. \E place : Inner(place)'
  BY <1>13
<1> QED
  BY <1>9, <1>12, <1>14, <1>15, <1>16 DEF Printing

(* A Visit that has nothing left to do is where it began.                  *)
LEMMA DoneIs ==
  ASSUME Printing, fate = "printing", Todo = <<>>
  PROVE  tab = visits[Len(visits)].tab0 /\ Inner("start") /\ line = Fresh
<1>1. PICK at : Inner(at)
  BY DEF Printing
<1> PICK k : k = tab - visits[Len(visits)].tab0
  OBVIOUS
<1>2. Takes(<<>>, k, at, 0, "start", Words)
  BY <1>1 DEF Inner
<1>3. k \in Nat
  BY <1>2 DEF Takes
<1>4. k = 0 /\ at = "start"
  BY <1>2, <1>3, NothingTakes
<1>5. tab = visits[Len(visits)].tab0
  <2>1. tab \in Nat /\ visits[Len(visits)].tab0 \in Nat
    BY VisitsAre
  <2> QED
    BY <1>4, <2>1
<1> QED
  BY <1>1, <1>4, <1>5 DEF Inner, Lined

LEMMA LeaveKeeps ==
  ASSUME Printing, Leave
  PROVE  Printing'
<1> PICK n : n = Len(visits)
  OBVIOUS
<1>1. /\ fate = "printing" /\ Todo = <<>>
      /\ visits' = SubSeq(visits, 1, n - 1)
      /\ fate' = IF n = 1 THEN "printed" ELSE "printing"
      /\ UNCHANGED <<tab, line, opened>> /\ UNCHANGED vars
  BY DEF Leave, Visiting
<1>2. /\ IsSequence(visits) /\ n \in Nat /\ n >= 1 /\ tab \in Nat
      /\ \A m \in 1..n : IsVisit(visits[m])
  BY <1>1, VisitsAre
<1>3. tab = visits[n].tab0 /\ Inner("start") /\ line = Fresh
  BY <1>1, DoneIs
<1>4. Words' = Words /\ status' = "done"
  BY <1>1, SameText DEF Printing
<1>5. CASE n = 1
  <2>1. tab = 0
    BY <1>1, <1>3, <1>5 DEF Printing
  <2> QED
    BY <1>1, <1>3, <1>4, <1>5, <2>1 DEF Printing
<1>6. CASE n # 1
  <2> PICK l \in Nat : l = n - 1
    BY <1>2
  <2>1. l >= 1 /\ l \in 1..l /\ l \in 0..n /\ l + 1 = n /\ 1 \in 1..l /\ \A m \in 1..l : m \in 1..n
    BY <1>2, <1>6
  <2>2. IsSequence(visits') /\ Len(visits') = l /\ \A m \in 1..l : visits'[m] = visits[m]
    BY <1>1, <1>2, <2>1, Prefix
  <2>3. visits' # <<>> /\ visits'[1].tab0 = 0
    <3>1. visits[1].tab0 = 0
      BY <1>1 DEF Printing
    <3>2. visits' # <<>>
      BY <2>1, <2>2, Tuples
    <3> QED
      BY <2>1, <2>2, <3>1, <3>2
  <2>4. \A m \in 1..Len(visits') : IsVisit(visits[m])'
    BY <1>2, <2>1, <2>2
  <2>5. ASSUME NEW m \in 1..l
        PROVE  Takes(visits[m].todo, visits[m + 1].tab0 - visits[m].tab0, "start", 0, "start", Words)
    <3>1. m \in 1..n - 1
      BY <1>2
    <3> QED
      BY <1>1, <3>1 DEF Printing, Resumes
  <2>6. ASSUME NEW m \in 1..l - 1
        PROVE  Takes(visits'[m].todo, visits'[m + 1].tab0 - visits'[m].tab0, "start", 0, "start", Words')
    <3>1. m \in 1..l /\ m + 1 \in 1..l
      BY <2>1
    <3> QED
      BY <1>4, <2>2, <2>5, <3>1
  <2>7. \A m \in 1..Len(visits') - 1 : Resumes(m)'
    BY <2>2, <2>6 DEF Resumes
  <2>8. Inner("start")'
    <3>1. Takes(visits[l].todo, tab - visits[l].tab0, "start", 0, "start", Words)
      BY <1>3, <2>1, <2>5
    <3>2. Todo' = visits[l].todo /\ visits'[Len(visits')] = visits[l]
      BY <2>1, <2>2 DEF Todo
    <3>3. Lined("start")'
      BY <1>1, <1>3 DEF Lined
    <3>4. Braces("start")'
      BY <1>1, <1>3, <1>4 DEF Inner, Braces, Unclosing
    <3> QED
      BY <1>1, <1>4, <3>1, <3>2, <3>3, <3>4 DEF Inner
  <2>9. fate' = "printing" /\ tab' \in Nat
    BY <1>1, <1>2, <1>6
  <2>10. IsSequence(visits)' /\ \E at : Inner(at)'
    BY <2>2, <2>8
  <2> QED
    BY <1>4, <2>3, <2>4, <2>7, <2>9, <2>10 DEF Printing
<1> QED
  BY <1>5, <1>6

LEMMA PrintKeeps ==
  ASSUME Printing, Shapes, PrintTree
  PROVE  Printing'
<1>1. /\ fate = "parsing" /\ status = "done" /\ fate' = "printing"
      /\ visits' = <<Begun(ret)>>
      /\ UNCHANGED <<tab, line, opened>> /\ UNCHANGED vars
  BY DEF PrintTree
<1>2. tab = 0 /\ line = Fresh /\ opened = <<>>
  BY <1>1 DEF Printing
<1>3. Words' = Words /\ status' = "done"
  BY <1>1, SameText
<1>4. Value(ret, Words) /\ ret # Null
  <2>1. Tree(ret, Words) /\ ret.kind = "block"
    BY <1>1 DEF Shapes
  <2>2. Null.kind = "null"
    BY DEF Null, Node
  <2>3. "block" \notin Parts
    BY DEF Parts
  <2> QED
    BY <2>1, <2>2, <2>3 DEF Value
<1> DEFINE new == Begun(ret)
<1>5. new.todo = Visit(ret) /\ new.tab0 = 0 /\ IsVisit(new)
  BY <1>2 DEF Begun, IsVisit
<1> HIDE DEF new
<1>6. IsSequence(visits') /\ Len(visits') = 1 /\ visits'[1] = new /\ visits' # <<>>
  BY <1>1, Tuples DEF new
<1>7. Takes(Visit(ret), 0, "tabbed", 0, "start", Words)
  BY <1>4, VisitsRest DEF Rests, Goes
<1>8. Inner("tabbed")'
  <2>1. Todo' = Visit(ret) /\ tab' - visits'[Len(visits')].tab0 = 0
    BY <1>1, <1>2, <1>5, <1>6 DEF Todo
  <2>2. Lined("tabbed")'
    BY <1>1, <1>2 DEF Lined, Indentation
  <2>3. Braces("tabbed")'
    <3>1. Unclosing("tabbed")' = 0
      BY <1>1, <1>2 DEF Unclosing
    <3>2. Upwards(0) = <<>>
      <4>1. IsSequence(Upwards(0)) /\ Len(Upwards(0)) = 0
        BY UpwardsIs
      <4>2. Upwards(0) \in Seq({Upwards(0)[i] : i \in 1..Len(Upwards(0))})
        BY <4>1 DEF IsSequence
      <4> QED
        BY <4>1, <4>2
    <3> QED
      BY <1>1, <1>2, <3>1, <3>2 DEF Braces
  <2> QED
    BY <1>3, <1>7, <2>1, <2>2, <2>3 DEF Inner
<1>9. \A m \in 1..Len(visits') - 1 : Resumes(m)'
  BY <1>6
<1>10. IsSequence(visits)' /\ \A m \in 1..Len(visits') : IsVisit(visits[m])'
  BY <1>5, <1>6
<1>11. \E at : Inner(at)'
  BY <1>8
<1> QED
  BY <1>1, <1>2, <1>3, <1>5, <1>6, <1>9, <1>10, <1>11 DEF Printing

LEMMA PrintingNext ==
  ASSUME Printing, Shapes, [SampleNext]_<<vars, printer>>
  PROVE  Printing'
<1>1. CASE Parse
  <2>1. UNCHANGED <<visits, tab, line, opened, fate>>
    BY <1>1 DEF Parse, printer
  <2>2. fate \notin {"printing", "printed", "crash", "abort"}
    BY <1>1, StepsRun DEF Parse, Printing
  <2> QED
    BY <2>1, <2>2 DEF Printing
<1>2. CASE ReportError
  BY <1>2 DEF ReportError, Printing
<1>3. CASE FailAsIdentifier \/ Dereference
  <2>1. /\ fate = "printing" /\ fate' \in {"crash", "abort"}
        /\ UNCHANGED tab /\ UNCHANGED vars
    BY <1>3 DEF FailAsIdentifier, Dereference, Now, Visiting
  <2> QED
    BY <2>1, SameText DEF Printing
<1>4. CASE UNCHANGED <<vars, printer>>
  <2>1. UNCHANGED <<visits, tab, line, opened, fate>> /\ UNCHANGED vars
    BY <1>4 DEF printer
  <2>2. Words' = Words /\ UNCHANGED status
    BY <2>1, SameText
  <2> QED
    BY <2>1, <2>2 DEF Printing, Resumes, Inner, Todo, Lined, Indentation, Braces, Unclosing
<1> QED
  BY <1>1, <1>2, <1>3, <1>4, PrintKeeps, TabbedKeeps, MoveTabKeeps, EndLineKeeps, ShowKeeps,
     VisitKeeps, LeaveKeeps
  DEF SampleNext, Act, Ended

-----------------------------------------------------------------------------
(* The theorems.                                                           *)

(* The program's steps are steps of the parser, so that what is known of   *)
(* its trees holds here.                                                   *)
LEMMA SampleShapes == SampleSpec => []Shapes
<1>1. SampleInit => Init
  BY DEF SampleInit
<1>2. [SampleNext]_<<vars, printer>> => [Next]_vars
  BY DEF SampleNext, Act, Parse, ReportError, PrintTree, os_tabbed, MoveTab, EndLine, ShowToken,
         FailAsIdentifier, VisitChild, Dereference, Leave, Ended, Next
<1> QED
  BY <1>1, <1>2, TreesAreShaped, PTL DEF SampleSpec, Spec

LEMMA SamplePrints == SampleSpec => []Printing
  BY SampleShapes, SampleInits, PrintingNext, PTL DEF SampleSpec

(* The thirty Visits of the printer move the indentation by hand, and each *)
(* leaves it as it has found it, whatever tree the parser has made: it is  *)
(* never negative, and nothing is indented when all is printed.            *)
THEOREM PrinterRestoresTab == SampleSpec => []TabRestored
<1>1. ASSUME Printing PROVE TabRestored
  <2>1. tab >= 0
    BY <1>1 DEF Printing
  <2>2. Visiting /\ Todo = <<>> => tab = visits[Len(visits)].tab0
    BY <1>1, DoneIs DEF Visiting
  <2> QED
    BY <1>1, <2>1, <2>2 DEF TabRestored, Printing
<1> QED
  BY <1>1, SamplePrints, PTL

(* In a text without else and switch every closing brace is printed under  *)
(* the beginning of the line that opened it.                               *)
THEOREM PrinterAlignsBraces == SampleSpec => []BracesAlign
<1>1. ASSUME Printing PROVE BracesAlign
  <2> SUFFICES ASSUME Now("close"), ~Has("ELSE"), ~Has("SWITCH")
               PROVE  opened # <<>> /\ opened[Len(opened)] = line
    BY DEF BracesAlign
  <2>1. Words = {} /\ fate = "printing" /\ Todo # <<>> /\ Todo[1].do = "close"
    BY DEF Words, Now, Visiting
  <2>2. PICK at, l, by : /\ Inner(at) /\ l \in Nat
                         /\ Does(Todo[1], tab - visits[Len(visits)].tab0, at, l, by, Words)
                         /\ Takes(Tail(Todo), l, by, 0, "start", Words)
    BY <1>1, <2>1, NextIs
  <2>3. at = "closing"
    BY <2>1, <2>2 DEF Does
  <2>4. tab \in Nat /\ line = tab /\ opened = Upwards(tab + 1)
    BY <1>1, <2>1, <2>2, <2>3 DEF Inner, Lined, Braces, Unclosing, Printing
  <2> QED
    BY <2>4, UpwardsIs
<1> QED
  BY <1>1, SamplePrints, PTL

=============================================================================
