---------------------------- MODULE VideoProofs ----------------------------
(***************************************************************************)
(* The video side of MCPure, for every number of clips and every target:   *)
(* however the random sample falls, the reel has as many clips as the      *)
(* docstring of video/select.py says, oldest first and newest last; the    *)
(* filter graph links every clip to the output and gives it its part of    *)
(* the target; and the tempo chain is within the rounding of the speed.    *)
(* The run of MCPure shows all of it for a few clips and durations; here   *)
(* the bounds and the number of digits are any numbers.                    *)
(***************************************************************************)
EXTENDS MCPure, FiniteSetTheorems, TLAPS

-----------------------------------------------------------------------------
(***************************************************************************)
(* Induction and recursion over the numbers, in a form that has no         *)
(* operator for a parameter: a set that holds 0 and every successor, and a *)
(* function that is built up step by step.                                 *)
(***************************************************************************)

\* Numbers have a least one.
LEMMA Minimum ==
    ASSUME NEW S \in SUBSET Nat, S # {}
    PROVE  \E x \in S : \A y \in S : x <= y
<1> DEFINE Below == {ss \in Nat \X Nat : ss[1] < ss[2]}
<1>1. IsWellFoundedOn({ss \in Nat \X Nat : ss[1] < ss[2]}, Nat)
  BY NatLessThanWellFounded DEF OpToRel
<1>2. \A y, x \in Nat : <<y, x>> \in Below <=> y < x
  OBVIOUS
<1>3. PICK x \in S : \A y \in S : ~(<<y, x>> \in Below)
  <2>1. IsWellFoundedOn(Below, Nat)
    BY <1>1
  <2> HIDE DEF Below
  <2>2. S \subseteq Nat
    OBVIOUS
  <2> QED BY <2>1, <2>2, WFMin
<1>4. ASSUME NEW y \in S PROVE x <= y
  <2>1. ~(<<y, x>> \in Below) /\ x \in Nat /\ y \in Nat
    BY <1>3
  <2> HIDE DEF Below
  <2> QED BY <2>1, <1>2
<1> QED BY <1>4

\* A set of numbers that has 0 and the successor of each of its members has
\* them all.
LEMMA Induction ==
    ASSUME NEW G, 0 \in G, \A n \in Nat : n \in G => n + 1 \in G
    PROVE  \A n \in Nat : n \in G
<1> DEFINE Bad == {n \in Nat : n \notin G}
<1>1. ASSUME Bad # {} PROVE FALSE
  <2>1. PICK k \in Bad : \A m \in Bad : k <= m
    BY <1>1, Minimum
  <2>2. k # 0 /\ k \in Nat
    BY <2>1
  <2>3. k - 1 \in Nat /\ ~(k <= k - 1)
    BY <2>2
  <2>4. k - 1 \in G
    BY <2>1, <2>3
  <2>5. (k - 1) + 1 \in G /\ (k - 1) + 1 = k
    BY <2>2, <2>3, <2>4
  <2> QED BY <2>1, <2>5
<1> QED BY <1>1

\* f is built from c by step as far as n.
Built(f, S, c, step, n) ==
    /\ f \in [0..n -> S]
    /\ f[0] = c
    /\ \A i \in 1..n : f[i] = step[<<f[i - 1], i>>]

\* There is one way to build a function.
LEMMA BuiltOnce ==
    ASSUME NEW S, NEW c \in S, NEW step, NEW n \in Nat, NEW m \in Nat,
           NEW f, NEW g, Built(f, S, c, step, n), Built(g, S, c, step, m)
    PROVE  \A i \in Nat : i <= n /\ i <= m => f[i] = g[i]
<1> DEFINE G == {i \in Nat : i <= n /\ i <= m => f[i] = g[i]}
<1>1. 0 \in G
  BY DEF Built
<1>2. ASSUME NEW i \in Nat, i \in G PROVE i + 1 \in G
  <2>1. SUFFICES ASSUME i + 1 <= n, i + 1 <= m PROVE f[i + 1] = g[i + 1]
    OBVIOUS
  <2>2. f[i] = g[i] /\ i + 1 \in 1..n /\ i + 1 \in 1..m /\ (i + 1) - 1 = i
    BY <1>2, <2>1
  <2> QED BY <2>2 DEF Built
<1>3. \A i \in Nat : i \in G
  <2> HIDE DEF G
  <2> QED BY <1>1, <1>2, Induction
<1> QED BY <1>3

\* And it can be built as far as one likes.
LEMMA CanBeBuilt ==
    ASSUME NEW S, NEW c \in S, NEW step \in [S \X Nat -> S]
    PROVE  \A n \in Nat : \E f : Built(f, S, c, step, n)
<1> DEFINE G == {n \in Nat : \E f : Built(f, S, c, step, n)}
<1>1. 0 \in G
  <2> DEFINE f == [i \in 0..0 |-> c]
  <2>1. f \in [0..0 -> S] /\ f[0] = c /\ 1..0 = {}
    OBVIOUS
  <2> HIDE DEF f
  <2> QED BY <2>1 DEF Built
<1>2. ASSUME NEW n \in Nat, n \in G PROVE n + 1 \in G
  <2>1. PICK f : Built(f, S, c, step, n)
    BY <1>2
  <2> DEFINE g == [i \in 0..(n + 1) |-> IF i = n + 1 THEN step[<<f[n], n + 1>>] ELSE f[i]]
  <2>2. f \in [0..n -> S] /\ f[0] = c /\ \A i \in 1..n : f[i] = step[<<f[i - 1], i>>]
    BY <2>1 DEF Built
  <2>3. f[n] \in S /\ step[<<f[n], n + 1>>] \in S
    BY <2>2
  <2>4. g \in [0..(n + 1) -> S]
    BY <2>2, <2>3
  <2>5. \A i \in 0..n : g[i] = f[i]
    OBVIOUS
  <2>6. g[n + 1] = step[<<f[n], n + 1>>]
    OBVIOUS
  <2> HIDE DEF g
  <2>7. ASSUME NEW i \in 1..(n + 1) PROVE g[i] = step[<<g[i - 1], i>>]
    <3>1. i - 1 \in 0..n /\ g[i - 1] = f[i - 1]
      BY <2>5
    <3>2. CASE i = n + 1
      BY <3>1, <3>2, <2>6
    <3>3. CASE i # n + 1
      <4>1. i \in 1..n /\ i \in 0..n
        BY <3>3
      <4> QED BY <4>1, <3>1, <2>2, <2>5
    <3> QED BY <3>2, <3>3
  <2>8. g[0] = c
    BY <2>2, <2>5
  <2> QED BY <2>4, <2>7, <2>8 DEF Built
<1> HIDE DEF G
<1>3. \A n \in Nat : n \in G
  BY <1>1, <1>2, Induction
<1> QED BY <1>3 DEF G

\* f is built from c by step for all the numbers.
BuiltForever(f, S, c, step) ==
    /\ f \in [Nat -> S]
    /\ f[0] = c
    /\ \A n \in Nat : f[n + 1] = step[<<f[n], n + 1>>]

\* So there is a function on all the numbers that obeys a recursion,
LEMMA Recursion ==
    ASSUME NEW S, NEW c \in S, NEW step \in [S \X Nat -> S]
    PROVE  \E f : BuiltForever(f, S, c, step)
<1> DEFINE b(n) == CHOOSE g : Built(g, S, c, step, n)
           f == [n \in Nat |-> b(n)[n]]
<1>1. ASSUME NEW n \in Nat PROVE Built(b(n), S, c, step, n)
  BY CanBeBuilt
<1>2. ASSUME NEW n \in Nat PROVE b(n) \in [0..n -> S] /\ f[n] = b(n)[n]
  BY <1>1 DEF Built
<1> HIDE DEF b
<1>3. f \in [Nat -> S]
  BY <1>2
<1>4. f[0] = c
  BY <1>1, <1>2 DEF Built
<1>5. ASSUME NEW n \in Nat PROVE f[n + 1] = step[<<f[n], n + 1>>]
  <2>1. b(n + 1)[n] = b(n)[n]
    <3>1. n + 1 \in Nat /\ n <= n /\ n <= n + 1
      OBVIOUS
    <3>2. Built(b(n), S, c, step, n) /\ Built(b(n + 1), S, c, step, n + 1)
      BY <1>1, <3>1
    <3> QED BY <3>1, <3>2, BuiltOnce
  <2>2. n + 1 \in 1..(n + 1) /\ (n + 1) - 1 = n
    OBVIOUS
  <2>3. b(n + 1)[n + 1] = step[<<b(n + 1)[n], n + 1>>]
    BY <1>1, <2>2 DEF Built
  <2>4. f[n] = b(n)[n] /\ f[n + 1] = b(n + 1)[n + 1]
    BY <1>2
  <2> HIDE DEF f
  <2> QED BY <2>1, <2>3, <2>4
<1> HIDE DEF f
<1> QED BY <1>3, <1>4, <1>5 DEF BuiltForever

\* and one on the numbers up to n.
LEMMA RecursionUpTo ==
    ASSUME NEW S, NEW c \in S, NEW n \in Nat, NEW step \in [S \X (1..n) -> S]
    PROVE  \E f : Built(f, S, c, step, n)
<1> DEFINE all == [xi \in S \X Nat |-> IF xi[2] \in 1..n THEN step[xi] ELSE c]
<1>1. all \in [S \X Nat -> S]
  <2>1. ASSUME NEW xi \in S \X Nat, xi[2] \in 1..n PROVE step[xi] \in S
    <3>1. xi \in S \X (1..n)
      BY <2>1
    <3> QED BY <3>1
  <2> QED BY <2>1
<1>2. \A x \in S, i \in 1..n : all[<<x, i>>] = step[<<x, i>>]
  OBVIOUS
<1> HIDE DEF all
<1>3. PICK f : Built(f, S, c, all, n)
  BY <1>1, CanBeBuilt
<1>4. f \in [0..n -> S] /\ f[0] = c /\ \A i \in 1..n : f[i] = all[<<f[i - 1], i>>]
  BY <1>3 DEF Built
<1>5. ASSUME NEW i \in 1..n PROVE f[i] = step[<<f[i - 1], i>>]
  <2>1. i - 1 \in 0..n
    OBVIOUS
  <2>2. f[i - 1] \in S
    BY <1>4, <2>1
  <2> QED BY <1>2, <1>4, <2>2
<1> QED BY <1>4, <1>5 DEF Built

-----------------------------------------------------------------------------
(***************************************************************************)
(* Sequences.                                                              *)
(***************************************************************************)

\* What is in a sequence is what one of its places has.
LEMMA InSeq ==
    ASSUME NEW A, NEW q \in Seq(A)
    PROVE  /\ Len(q) \in Nat /\ ToSet(q) \subseteq A
           /\ \A y : y \in ToSet(q) <=> \E i \in 1..Len(q) : q[i] = y
<1>1. DOMAIN q = 1..Len(q) /\ Len(q) \in Nat /\ \A i \in 1..Len(q) : q[i] \in A
  OBVIOUS
<1> QED BY <1>1 DEF ToSet

\* Append adds its element.
LEMMA SetOfAppend ==
    ASSUME NEW A, NEW q \in Seq(A), NEW x \in A
    PROVE  ToSet(Append(q, x)) = ToSet(q) \cup {x}
<1> DEFINE z == Append(q, x)
<1>1. z \in Seq(A) /\ Len(z) = Len(q) + 1 /\ Len(q) \in Nat
  OBVIOUS
<1>2. (\A i \in 1..Len(q) : z[i] = q[i]) /\ z[Len(q) + 1] = x
  OBVIOUS
<1> HIDE DEF z
<1>3. ASSUME NEW y PROVE y \in ToSet(z) <=> y \in ToSet(q) \cup {x}
  <2>1. y \in ToSet(z) <=> \E i \in 1..(Len(q) + 1) : z[i] = y
    BY <1>1, InSeq
  <2>2. y \in ToSet(q) <=> \E i \in 1..Len(q) : q[i] = y
    BY InSeq
  <2> QED BY <1>1, <1>2, <2>1, <2>2
<1> QED BY <1>3 DEF z

\* Two sequences are the same when they have the same elements.
LEMMA SameSeq ==
    ASSUME NEW A, NEW p \in Seq(A), NEW q \in Seq(A), Len(p) = Len(q),
           \A i \in 1..Len(p) : p[i] = q[i]
    PROVE  p = q
<1>1. p = [i \in 1..Len(p) |-> p[i]] /\ q = [i \in 1..Len(q) |-> q[i]]
  OBVIOUS
<1> QED BY <1>1

\* A sequence begins with nothing.
LEMMA NoSubSeq ==
    ASSUME NEW A, NEW p \in Seq(A)
    PROVE  SubSeq(p, 1, 0) = <<>>
OBVIOUS

\* Appending to the second of two sequences appends to both of them.
LEMMA AppendToSecond ==
    ASSUME NEW A, NEW p \in Seq(A), NEW q \in Seq(A), NEW x \in A
    PROVE  p \o Append(q, x) = Append(p \o q, x)
OBVIOUS

\* A sequence over a set is one over any larger set.
LEMMA LargerAlphabet ==
    ASSUME NEW S, NEW T, S \subseteq T, NEW seq \in Seq(S)
    PROVE  seq \in Seq(T)
OBVIOUS

\* z is seq with the element x more at its end.
IsOneMore(z, seq, x, A) ==
    /\ z \in Seq(A) /\ Len(z) = Len(seq) + 1
    /\ \A i \in 1..Len(seq) : z[i] = seq[i]
    /\ z[Len(seq) + 1] = x

\* That is what a concatenation with one element is.
LEMMA OneMore ==
    ASSUME NEW A, NEW seq \in Seq(A), NEW x \in A
    PROVE  IsOneMore(seq \o <<x>>, seq, x, A)
BY DEF IsOneMore

\* Two sequences of one element make one of two, and a third one of three.
LEMMA TwoAndThree ==
    ASSUME NEW a, NEW b, NEW c
    PROVE  <<a>> \o <<b>> = <<a, b>> /\ <<a, b>> \o <<c>> = <<a, b, c>>
<1> DEFINE A == {a, b, c}
           p == <<a>>
           q == <<a, b>>
           r == <<a, b, c>>
<1>1. a \in A /\ b \in A /\ c \in A
  OBVIOUS
<1> HIDE DEF A
<1>2. p \in Seq(A) /\ Len(p) = 1 /\ p[1] = a
  BY <1>1
<1>3. q \in Seq(A) /\ Len(q) = 2 /\ q[1] = a /\ q[2] = b
  BY <1>1
<1>4. r \in Seq(A) /\ Len(r) = 3 /\ r[1] = a /\ r[2] = b /\ r[3] = c
  BY <1>1
<1> HIDE DEF p, q, r
<1>5. p \o <<b>> = q
  <2> DEFINE z == p \o <<b>>
  <2>1. z \in Seq(A) /\ Len(z) = 2 /\ z[1] = a /\ z[2] = b
    <3>1. IsOneMore(z, p, b, A)
      BY <1>1, <1>2, OneMore
    <3> QED BY <1>2, <3>1 DEF IsOneMore
  <2> HIDE DEF z
  <2>2. Len(z) = Len(q) /\ \A i \in 1..Len(z) : z[i] = q[i]
    BY <1>3, <2>1
  <2>3. z = q
    BY <1>3, <2>1, <2>2, SameSeq
  <2> QED BY <2>3 DEF z
<1>6. q \o <<c>> = r
  <2> DEFINE z == q \o <<c>>
  <2>1. z \in Seq(A) /\ Len(z) = 3 /\ z[1] = a /\ z[2] = b /\ z[3] = c
    <3>1. IsOneMore(z, q, c, A)
      BY <1>1, <1>3, OneMore
    <3> QED BY <1>3, <3>1 DEF IsOneMore
  <2> HIDE DEF z
  <2>2. Len(z) = Len(r) /\ \A i \in 1..Len(z) : z[i] = r[i]
    BY <1>4, <2>1
  <2>3. z = r
    BY <1>4, <2>1, <2>2, SameSeq
  <2> QED BY <2>3 DEF z
<1> QED BY <1>5, <1>6 DEF p, q, r

\* f joins the sequences of seqs, one after the other.
Joins(f, seqs, A) ==
    /\ f \in [0..Len(seqs) -> Seq(A)]
    /\ f[0] = <<>>
    /\ \A i \in 1..Len(seqs) : f[i] = f[i - 1] \o seqs[i]

\* FlattenSeq is the last of these joins.
LEMMA FlattenJoins ==
    ASSUME NEW A, NEW seqs \in Seq(Seq(A)), seqs # <<>>
    PROVE  \E f : Joins(f, seqs, A) /\ FlattenSeq(seqs) = f[Len(seqs)]
<1> DEFINE n == Len(seqs)
           S == Seq(A)
           part(i) == seqs[i]
           step == [xi \in S \X (1..n) |-> xi[1] \o part(xi[2])]
           body(h) == [i \in 1..n |-> IF i = 1 THEN part(i) ELSE h[i - 1] \o part(i)]
           flat == CHOOSE g : g = body(g)
           none == <<>>
<1>1. n \in Nat /\ n > 0 /\ \A i \in 1..n : part(i) \in S
  OBVIOUS
<1>2. FlattenSeq(seqs) = flat[n]
  BY <1>1 DEF FlattenSeq
<1>3. none \in S /\ \A x \in S, i \in 1..n : x \o part(i) \in S
  <2>1. none \in S
    OBVIOUS
  <2>2. ASSUME NEW x \in S, NEW i \in 1..n PROVE x \o part(i) \in S
    BY <1>1
  <2> QED BY <2>1, <2>2
<1>4. \A x \in S : none \o x = x
  OBVIOUS
<1> HIDE DEF n, S, part, flat, none
<1>5. step \in [S \X (1..n) -> S] /\ \A x \in S, i \in 1..n : step[<<x, i>>] = x \o part(i)
  BY <1>3
<1> HIDE DEF step
<1>6. PICK f : Built(f, S, none, step, n)
  BY <1>1, <1>3, <1>5, RecursionUpTo
<1>7. /\ f \in [0..n -> S] /\ f[0] = none
      /\ \A i \in 1..n : f[i] = step[<<f[i - 1], i>>] /\ f[i - 1] \in S
  BY <1>1, <1>6 DEF Built
<1>8. \A i \in 1..n : f[i] = f[i - 1] \o part(i)
  BY <1>5, <1>7
<1> DEFINE own == [i \in 1..n |-> f[i]]
<1>9. own = body(own)
  <2>1. ASSUME NEW i \in 1..n
        PROVE  f[i] = IF i = 1 THEN part(i) ELSE own[i - 1] \o part(i)
    <3>1. CASE i = 1
      <4>1. f[i] = none \o part(i)
        <5>1. f[i] = f[i - 1] \o part(i) /\ i - 1 = 0
          BY <1>8, <3>1
        <5> QED BY <5>1, <1>7
      <4> QED BY <4>1, <1>1, <1>4, <3>1
    <3>2. CASE i # 1
      <4>1. i - 1 \in 1..n
        BY <1>1, <3>2
      <4>2. own[i - 1] = f[i - 1]
        BY <4>1
      <4> QED BY <4>2, <1>8, <3>2
    <3> QED BY <3>1, <3>2
  <2> QED BY <2>1
<1>10. flat = body(flat)
  <2> HIDE DEF body, own
  <2> QED BY <1>9 DEF flat
<1>11. \A i \in 1..n : flat[i] = IF i = 1 THEN part(i) ELSE flat[i - 1] \o part(i)
  BY <1>10
<1> DEFINE G == {i \in Nat : i \in 1..n => flat[i] = f[i]}
<1>12. 0 \in G
  OBVIOUS
<1>13. ASSUME NEW i \in Nat, i \in G PROVE i + 1 \in G
  <2> SUFFICES ASSUME i + 1 \in 1..n PROVE flat[i + 1] = f[i + 1]
    OBVIOUS
  <2>1. (i + 1) - 1 = i
    OBVIOUS
  <2>2. f[i + 1] = f[i] \o part(i + 1)
    BY <1>8, <2>1
  <2>3. CASE i = 0
    <3>1. i + 1 = 1 /\ f[i] = none /\ part(i + 1) \in S
      BY <1>1, <1>7, <2>3
    <3>2. flat[i + 1] = part(i + 1)
      BY <1>11, <3>1
    <3>3. none \o part(i + 1) = part(i + 1)
      BY <1>4, <3>1
    <3> QED BY <2>2, <3>1, <3>2, <3>3
  <2>4. CASE i # 0
    <3>1. i \in 1..n /\ i + 1 # 1
      BY <1>1, <2>4
    <3>2. flat[i + 1] = flat[i] \o part(i + 1) /\ flat[i] = f[i]
      BY <1>11, <1>13, <2>1, <3>1
    <3> QED BY <2>2, <3>2
  <2> QED BY <2>3, <2>4
<1>14. flat[n] = f[n]
  <2>1. n \in G
    <3> HIDE DEF G
    <3> QED BY <1>1, <1>12, <1>13, Induction
  <2> QED BY <1>1, <2>1
<1>15. Joins(f, seqs, A)
  BY <1>7, <1>8 DEF Joins, n, S, none, part
<1> QED BY <1>2, <1>14, <1>15 DEF n

-----------------------------------------------------------------------------
(***************************************************************************)
(* Sorting: the members of every finite set on which L is a total order    *)
(* can be put in a line, and Order is the line of a set of numbers.  The   *)
(* induction on the size of the set goes through a smallest counterexample. *)
(***************************************************************************)

\* T, of the members of S, is not in G, but whatever is taken away from it the
\* rest is.
IsSmallest(T, S, G) ==
    T \in SUBSET S /\ IsFiniteSet(T) /\ T \notin G /\ \A x \in T : T \ {x} \in G

\* A finite set that is not in G has such a part.
LEMMA SmallestSet ==
    ASSUME NEW S, IsFiniteSet(S), NEW G, S \notin G
    PROVE  \E T : IsSmallest(T, S, G)
<1> DEFINE Sized(k) == {T \in SUBSET S : IsFiniteSet(T) /\ Cardinality(T) = k /\ T \notin G}
           Bad == {k \in Nat : Sized(k) # {}}
<1>1. Cardinality(S) \in Bad
  BY FS_CardinalityType
<1>2. PICK k \in Bad : \A m \in Bad : k <= m
  BY <1>1, Minimum
<1>3. PICK T \in Sized(k) : TRUE
  BY <1>2
<1>4. ASSUME NEW x \in T PROVE T \ {x} \in G
  <2> DEFINE R == T \ {x}
  <2>1. IsFiniteSet(R) /\ Cardinality(R) = k - 1 /\ k - 1 \in Nat
    <3>1. IsFiniteSet(R) /\ Cardinality(R) = Cardinality(T) - 1
      BY <1>3, FS_RemoveElement
    <3> QED BY <1>3, <3>1, FS_CardinalityType
  <2>2. k - 1 \notin Bad
    BY <1>2, <2>1
  <2>3. R \in SUBSET S
    BY <1>3
  <2> HIDE DEF R
  <2>4. R \in G
    BY <2>1, <2>2, <2>3
  <2> QED BY <2>4 DEF R
<1> QED BY <1>3, <1>4 DEF IsSmallest

\* f puts the members of S in a line, each before the later ones by L.
InLine(f, S, L) == /\ f \in [1..Cardinality(S) -> S]
                   /\ \A i, j \in 1..Cardinality(S) : i < j => <<f[i], f[j]>> \in L

CanLine(S, L) == \E f : InLine(f, S, L)

\* x is before all the others of S.
IsFirst(x, S, L) == x \in S /\ \A y \in S : y # x => <<x, y>> \in L

\* What is before all the others comes first.
LEMMA PutFirst ==
    ASSUME NEW S, IsFiniteSet(S), NEW L, NEW x, IsFirst(x, S, L), CanLine(S \ {x}, L)
    PROVE  CanLine(S, L)
<1> DEFINE T == S \ {x}
           k == Cardinality(T)
<1>1. IsFiniteSet(T) /\ k \in Nat /\ Cardinality(S) = k + 1 /\ x \in S
  <2>1. x \in S
    BY DEF IsFirst
  <2>2. IsFiniteSet(T) /\ Cardinality(T) = Cardinality(S) - 1
    BY <2>1, FS_RemoveElement
  <2>3. Cardinality(S) \in Nat /\ Cardinality(T) \in Nat
    BY <2>2, FS_CardinalityType
  <2> QED BY <2>1, <2>2, <2>3
<1>2. PICK g : g \in [1..k -> T] /\ \A i, j \in 1..k : i < j => <<g[i], g[j]>> \in L
  BY DEF CanLine, InLine
<1> HIDE DEF k
<1> DEFINE f == [i \in 1..(k + 1) |-> IF i = 1 THEN x ELSE g[i - 1]]
<1>3. ASSUME NEW i \in 1..(k + 1), i # 1
      PROVE  i - 1 \in 1..k /\ f[i] = g[i - 1] /\ g[i - 1] \in S /\ <<x, g[i - 1]>> \in L
  <2>1. i - 1 \in 1..k
    BY <1>1, <1>3
  <2>2. g[i - 1] \in S /\ g[i - 1] # x
    BY <2>1, <1>2
  <2>3. <<x, g[i - 1]>> \in L
    BY <2>2 DEF IsFirst
  <2>4. f[i] = g[i - 1]
    BY <1>3
  <2> HIDE DEF f
  <2> QED BY <2>1, <2>2, <2>3, <2>4
<1>4. f[1] = x
  BY <1>1
<1>5. f \in [1..(k + 1) -> S]
  BY <1>1, <1>3
<1>6. ASSUME NEW i \in 1..(k + 1), NEW j \in 1..(k + 1), i < j PROVE <<f[i], f[j]>> \in L
  <2>1. j # 1 /\ i \in Int /\ j \in Int
    BY <1>1, <1>6
  <2>2. CASE i = 1
    BY <2>1, <2>2, <1>3, <1>4
  <2>3. CASE i # 1
    <3>1. i - 1 \in 1..k /\ j - 1 \in 1..k
      BY <2>1, <2>3, <1>3
    <3>2. i - 1 < j - 1
      BY <2>1, <1>6
    <3>3. <<g[i - 1], g[j - 1]>> \in L
      BY <3>1, <3>2, <1>2
    <3> QED BY <3>3, <2>1, <2>3, <1>3
  <2> QED BY <2>2, <2>3
<1> HIDE DEF f
<1> QED BY <1>1, <1>5, <1>6 DEF CanLine, InLine

\* L is a total order on S, without its diagonal.
Totals(L, S) ==
    /\ \A x, y, z \in S : <<x, y>> \in L /\ <<y, z>> \in L => <<x, z>> \in L
    /\ \A x, y \in S : x = y \/ <<x, y>> \in L \/ <<y, x>> \in L

\* Of finitely many one is before all the others.
LEMMA HasFirst ==
    ASSUME NEW S, IsFiniteSet(S), S # {}, NEW L, Totals(L, S)
    PROVE  \E x : IsFirst(x, S, L)
<1> DEFINE G == {T \in SUBSET S : T = {} \/ \E x : IsFirst(x, T, L)}
<1>1. ASSUME S \notin G PROVE FALSE
  <2> HIDE DEF G
  <2>0. PICK T : IsSmallest(T, S, G)
    BY <1>1, SmallestSet
  <2>1. T \in SUBSET S /\ IsFiniteSet(T) /\ T \notin G /\ \A x \in T : T \ {x} \in G
    BY <2>0 DEF IsSmallest
  <2> USE DEF G
  <2>2. PICK a \in T : TRUE
    BY <2>1
  <2>3. CASE T \ {a} = {}
    <3>1. IsFirst(a, T, L)
      BY <2>3 DEF IsFirst
    <3> QED BY <2>1, <3>1
  <2>4. CASE \E x : IsFirst(x, T \ {a}, L)
    <3>1. PICK x : IsFirst(x, T \ {a}, L)
      BY <2>4
    <3>2. /\ x \in S /\ a \in S /\ x \in T /\ x # a
          /\ \A y \in T : y # a /\ y # x => <<x, y>> \in L /\ y \in S
      BY <2>1, <3>1 DEF IsFirst
    <3>3. CASE <<x, a>> \in L
      <4>1. IsFirst(x, T, L)
        BY <3>2, <3>3 DEF IsFirst
      <4> QED BY <2>1, <4>1
    <3>4. CASE <<a, x>> \in L
      <4>1. IsFirst(a, T, L)
        BY <3>2, <3>4 DEF IsFirst, Totals
      <4> QED BY <2>1, <4>1
    <3> QED BY <3>2, <3>3, <3>4 DEF Totals
  <2> QED BY <2>1, <2>2, <2>3, <2>4
<1> QED BY <1>1

\* So they can be put in a line.
LEMMA AllCanLine ==
    ASSUME NEW S, IsFiniteSet(S), NEW L, Totals(L, S)
    PROVE  CanLine(S, L)
<1> DEFINE G == {T \in SUBSET S : CanLine(T, L)}
<1>1. ASSUME S \notin G PROVE FALSE
  <2> HIDE DEF G
  <2>0. PICK T : IsSmallest(T, S, G)
    BY <1>1, SmallestSet
  <2>1. T \in SUBSET S /\ IsFiniteSet(T) /\ T \notin G /\ \A x \in T : T \ {x} \in G
    BY <2>0 DEF IsSmallest
  <2> USE DEF G
  <2>2. CASE T = {}
    <3> DEFINE f == [i \in 1..0 |-> 0]
    <3>1. f \in [1..0 -> {}] /\ 1..0 = {}
      OBVIOUS
    <3> HIDE DEF f
    <3>2. InLine(f, T, L)
      BY <2>2, <3>1, FS_EmptySet DEF InLine
    <3> QED BY <2>1, <3>2 DEF CanLine
  <2>3. CASE T # {}
    <3>1. Totals(L, T)
      BY <2>1 DEF Totals
    <3>2. PICK x : IsFirst(x, T, L)
      BY <2>1, <2>3, <3>1, HasFirst
    <3>3. CanLine(T \ {x}, L)
      BY <2>1, <3>2 DEF IsFirst
    <3>4. CanLine(T, L)
      BY <2>1, <3>2, <3>3, PutFirst
    <3> QED BY <2>1, <3>4
  <2> QED BY <2>2, <2>3
<1> QED BY <1>1

\* f lists the members of S from the smallest to the largest.
Lists(f, S) == /\ f \in [1..Cardinality(S) -> S]
               /\ \A i, j \in 1..Cardinality(S) : i < j => f[i] < f[j]

\* Sorting the positions of a selection keeps them all, in order (the sort
\* by position in select_clips).
LEMMA OrderLists ==
    ASSUME NEW S \in SUBSET Nat, IsFiniteSet(S)
    PROVE  Lists(Order(S), S)
<1> DEFINE L == {ss \in Nat \X Nat : ss[1] < ss[2]}
<1>1. \A x, y \in Nat : <<x, y>> \in L <=> x < y
  OBVIOUS
<1> HIDE DEF L
<1>2. Totals(L, S)
  <2>1. \A x \in S : x \in Nat
    OBVIOUS
  <2>2. \A x, y, z \in Nat : x < y /\ y < z => x < z
    OBVIOUS
  <2>3. \A x, y \in Nat : x = y \/ x < y \/ y < x
    OBVIOUS
  <2> QED BY <1>1, <2>1, <2>2, <2>3, Zenon DEF Totals
<1>3. PICK f : InLine(f, S, L)
  BY <1>2, AllCanLine DEF CanLine
<1> DEFINE k == Cardinality(S)
<1>4. f \in [1..k -> S] /\ \A i, j \in 1..k : i < j => <<f[i], f[j]>> \in L
  BY <1>3 DEF InLine
<1> HIDE DEF k
<1>5. \A i, j \in 1..k : i < j => f[i] < f[j]
  <2>1. \A i \in 1..k : f[i] \in Nat
    BY <1>4
  <2> QED BY <1>1, <1>4, <2>1
<1> QED BY <1>4, <1>5 DEF Order, Lists, k

\* A list of S starts with the smallest number of S and ends with the largest.
LEMMA ListEnds ==
    ASSUME NEW S \in SUBSET Nat, IsFiniteSet(S), NEW f, Lists(f, S),
           NEW a \in S, NEW b \in S, \A x \in S : a <= x /\ x <= b
    PROVE  f[1] = a /\ f[Cardinality(S)] = b
<1> DEFINE k == Cardinality(S)
<1>1. k \in Nat /\ k > 0
  BY FS_CardinalityType, FS_EmptySet
<1>2. IsFiniteSet(1..k) /\ Cardinality(1..k) = k
  BY <1>1, FS_Interval
<1> HIDE DEF k
<1>3. f \in [1..k -> S] /\ \A i, j \in 1..k : i < j => f[i] < f[j]
  BY DEF Lists, k
<1>4. f \in Injection(1..k, S)
  <2>1. ASSUME NEW i \in 1..k, NEW j \in 1..k, f[i] = f[j] PROVE i = j
    <3>0. f[i] \in S /\ f[j] \in S /\ i \in Int /\ j \in Int
      BY <1>1, <1>3
    <3>1. f[i] \in Nat /\ f[j] \in Nat /\ i \in Int /\ j \in Int
      BY <3>0
    <3>2. ~(f[i] < f[j]) /\ ~(f[j] < f[i])
      BY <2>1, <3>1
    <3> QED BY <3>1, <3>2, <1>3
  <2> QED BY <1>3, <2>1 DEF Injection, IsInjective
<1>5. f \in Surjection(1..k, S)
  BY <1>2, <1>4, FS_Injection DEF k
<1>6. PICK i \in 1..k : f[i] = a
  BY <1>5 DEF Surjection
<1>7. PICK j \in 1..k : f[j] = b
  BY <1>5 DEF Surjection
<1>8. 1 \in 1..k /\ k \in 1..k /\ i \in Int /\ j \in Int
  BY <1>1
<1>9. i = 1
  <2>1. f[1] \in S /\ a <= f[1] /\ f[1] \in Nat /\ a \in Nat
    BY <1>3, <1>8
  <2> QED BY <2>1, <1>3, <1>6, <1>8
<1>10. j = k
  <2>1. f[k] \in S /\ f[k] <= b /\ f[k] \in Nat /\ b \in Nat
    BY <1>3, <1>8
  <2> QED BY <2>1, <1>1, <1>3, <1>7, <1>8
<1> QED BY <1>6, <1>7, <1>9, <1>10 DEF k

-----------------------------------------------------------------------------
(***************************************************************************)
(* The selections.                                                         *)
(***************************************************************************)

\* There is a sample to take: the pool is never too small for it.
LEMMA PoolIsEnough ==
    ASSUME NEW n \in Nat, n > 4
    PROVE  Sample(MiddlePool(n), MiddleCount(n)) # {}
<1>1. IsFiniteSet({}) /\ Cardinality({}) = 0
  BY FS_EmptySet
<1>2. IsFiniteSet({2}) /\ Cardinality({2}) = 1
  BY FS_Singleton
<1>3. IsFiniteSet({2} \cup {3}) /\ Cardinality({2} \cup {3}) = 2
  BY <1>2, FS_AddElement
<1>4. Cardinality({2, 3} \cup {4}) = 3
  <2>1. {2} \cup {3} = {2, 3}
    OBVIOUS
  <2>2. IsFiniteSet({2, 3}) /\ Cardinality({2, 3}) = 2
    BY <1>3, <2>1
  <2> QED BY <2>2, FS_AddElement
<1>5. CASE n <= 9
  <2>1. MiddleCount(n) = 2 /\ {2} \cup {3} \subseteq 2..(n - 1)
    BY <1>5 DEF MiddleCount
  <2>2. {2} \cup {3} \in Sample(MiddlePool(n), MiddleCount(n))
    BY <2>1, <1>3 DEF Sample, MiddlePool
  <2> QED BY <2>2
<1>6. CASE n > 9
  <2>1. MiddleCount(n) = 3 /\ {2, 3} \cup {4} \subseteq 2..(n - 1)
    BY <1>6 DEF MiddleCount
  <2>2. {2, 3} \cup {4} \in Sample(MiddlePool(n), MiddleCount(n))
    BY <2>1, <1>4 DEF Sample, MiddlePool
  <2> QED BY <2>2
<1> QED BY <1>5, <1>6

\* A selection of n clips has the size the docstring says and both ends.
LEMMA SelectionHas ==
    ASSUME NEW n \in Nat, NEW S \in Selections(n)
    PROVE  /\ S \in SUBSET (1..n)
           /\ Cardinality(S) = SelectedCount(n)
           /\ n > 0 => 1 \in S /\ n \in S
<1>1. CASE n <= 4
  <2>1. S = 1..n
    BY <1>1 DEF Selections
  <2>2. Cardinality(1..n) = n
    BY FS_Interval
  <2> QED BY <1>1, <2>1, <2>2 DEF SelectedCount
<1>2. CASE n > 4
  <2>1. PICK M \in Sample(MiddlePool(n), MiddleCount(n)) : S = {1, n} \cup M
    BY <1>2 DEF Selections
  <2>2. M \in SUBSET (2..(n - 1)) /\ Cardinality(M) = MiddleCount(n)
    BY <2>1 DEF Sample, MiddlePool
  <2>3. IsFiniteSet(M)
    <3>1. IsFiniteSet(2..(n - 1))
      BY FS_Interval
    <3> QED BY <2>2, <3>1, FS_Subset
  <2>4. 1 \notin M /\ n \notin M \cup {1}
    BY <1>2, <2>2
  <2>5. IsFiniteSet(M \cup {1}) /\ Cardinality(M \cup {1}) = Cardinality(M) + 1
    BY <2>3, <2>4, FS_AddElement
  <2>6. Cardinality((M \cup {1}) \cup {n}) = Cardinality(M \cup {1}) + 1
    BY <2>4, <2>5, FS_AddElement
  <2>7. S = (M \cup {1}) \cup {n}
    BY <2>1
  <2>8. Cardinality(S) = SelectedCount(n)
    BY <1>2, <2>2, <2>5, <2>6, <2>7 DEF MiddleCount, SelectedCount
  <2> QED BY <1>2, <2>2, <2>7, <2>8
<1> QED BY <1>1, <1>2

\* What select_clips returns for n clips, named by their positions.
LEMMA SelectClipsIsRight ==
    ASSUME NEW n \in Nat
    PROVE  LET results == SelectClips([i \in 1..n |-> i])
           IN  /\ results # {}
               /\ \A r \in results :
                     /\ Len(r) = SelectedCount(n) /\ Ascending(r)
                     /\ n > 0 => r[1] = 1 /\ r[Len(r)] = n
<1> DEFINE clips == [i \in 1..n |-> i]
<1>1. Len(clips) = n /\ \A i \in 1..n : clips[i] = i
  OBVIOUS
<1> HIDE DEF clips
<1>2. Selections(n) # {}
  <2>1. CASE n <= 4
    BY <2>1 DEF Selections
  <2>2. CASE n > 4
    <3>1. PICK M : M \in Sample(MiddlePool(n), MiddleCount(n))
      BY <2>2, PoolIsEnough
    <3>2. ({1, n} \cup M) \in Selections(n)
      BY <2>2, <3>1 DEF Selections
    <3> QED BY <3>2
  <2> QED BY <2>1, <2>2
<1>3. ASSUME NEW S \in Selections(n)
      PROVE  LET r == Picked(clips, S)
             IN  /\ Len(r) = SelectedCount(n) /\ Ascending(r)
                 /\ n > 0 => r[1] = 1 /\ r[Len(r)] = n
  <2> DEFINE k == Cardinality(S)
             f == Order(S)
             r == [i \in 1..k |-> clips[f[i]]]
  <2>1. S \in SUBSET (1..n) /\ k = SelectedCount(n) /\ (n > 0 => 1 \in S /\ n \in S)
    BY <1>3, SelectionHas
  <2>2. IsFiniteSet(S) /\ S \in SUBSET Nat
    <3>1. IsFiniteSet(1..n)
      BY FS_Interval
    <3>2. S \in SUBSET (1..n)
      BY <2>1
    <3>3. IsFiniteSet(S)
      BY <3>1, <3>2, FS_Subset
    <3> QED BY <3>2, <3>3
  <2>3. k \in Nat
    BY <2>2, FS_CardinalityType
  <2>4. Lists(f, S)
    BY <2>2, OrderLists
  <2>5. n > 0 => f[1] = 1 /\ f[k] = n
    <3> HIDE DEF f
    <3> QED BY <2>1, <2>2, <2>4, ListEnds
  <2>6. Picked(clips, S) = r
    BY DEF Picked
  <2>7. f \in [1..k -> S] /\ \A i, j \in 1..k : i < j => f[i] < f[j]
    BY <2>4 DEF Lists
  <2>8. n > 0 => k > 0
    BY <2>1 DEF SelectedCount
  <2> HIDE DEF k, f
  <2>9. \A i \in 1..k : r[i] = f[i]
    BY <1>1, <2>1, <2>7
  <2>10. Len(r) = k /\ DOMAIN r = 1..k
    BY <2>3
  <2> HIDE DEF r
  <2>11. Ascending(r)
    BY <2>7, <2>9, <2>10 DEF Ascending
  <2>12. n > 0 => r[1] = 1 /\ r[k] = n
    BY <2>3, <2>5, <2>8, <2>9
  <2> QED BY <2>1, <2>6, <2>10, <2>11, <2>12
<1>4. SelectClips(clips) = {Picked(clips, S) : S \in Selections(n)}
  BY <1>1 DEF SelectClips
<1> QED BY <1>2, <1>3, <1>4 DEF clips

-----------------------------------------------------------------------------
(***************************************************************************)
(* What the calls are made on, for every value of the constants.           *)
(***************************************************************************)
Clip     == [duration : Nat, dated : BOOLEAN]
PathText == [absolute : BOOLEAN, segments : Seq(STRING)]

CallTypeOK ==
    /\ call.fn = "select_clips" => call.n \in Nat
    /\ call.fn = "build_filter_complex" =>
          call.clips \in Seq(Clip) /\ call.clips # <<>> /\ call.target \in Nat \ {0}
    /\ call.fn = "atempo_chain" => call.p \in Nat \ {0} /\ call.q \in Nat \ {0}
    /\ call.fn = "parse_hashtags" => call.caption \in Seq(Characters)
    /\ call.fn = "file_path" => call.path \in PathText

\* A path that is asked about begins with a text: the directory of the bot
\* if it is near, nothing otherwise.
LEMMA NearIsText ==
    ASSUME NEW near
    PROVE  (IF near THEN BotDirectory ELSE <<>>) \in Seq(STRING)
<1>1. BotDirectory \in Seq(STRING)
  <2> DEFINE S == STRING \ {"", ".", ".."}
  <2>1. S \subseteq STRING
    OBVIOUS
  <2>2. BotDirectory \in Seq(S)
    BY BotDirectoryAssumption
  <2> HIDE DEF S
  <2> QED BY <2>1, <2>2, LargerAlphabet
<1>2. <<>> \in Seq(STRING)
  OBVIOUS
<1> QED BY <1>1, <1>2, Zenon

\* What a path is made of in a call.
LEMMA SegmentsAreTexts == MaxPath \in Nat /\ Segments \subseteq STRING
BY CallsAssumption

\* The segments of a path are a text.
LEMMA RestIsText ==
    ASSUME NEW n \in Nat, NEW rest \in [1..n -> Segments]
    PROVE  rest \in Seq(STRING)
<1>1. rest \in Seq(Segments)
  OBVIOUS
<1> QED BY <1>1, SegmentsAreTexts, LargerAlphabet, Zenon

\* Every call of every behaviour is one of these.
LEMMA CallsAreTyped == Spec => []CallTypeOK
<1>1. Init => CallTypeOK
  BY DEF Init, NoCall, CallTypeOK
<1>2. CallTypeOK /\ [Next]_call => CallTypeOK'
  <2> SUFFICES ASSUME CallTypeOK, [Next]_call PROVE CallTypeOK'
    OBVIOUS
  <2>1. CASE SelectCall
    BY <2>1, CallsAssumption DEF SelectCall, CallTypeOK
  <2>2. CASE GraphCall
    <3>1. PICK n \in 1..MaxGraph, target \in Targets :
             \E clips \in [1..n -> [duration : Durations, dated : BOOLEAN]] :
                call' = [fn |-> "build_filter_complex", clips |-> clips, target |-> target]
      BY <2>2 DEF GraphCall
    <3>2. PICK clips \in [1..n -> [duration : Durations, dated : BOOLEAN]] :
             call' = [fn |-> "build_filter_complex", clips |-> clips, target |-> target]
      BY <3>1
    <3>3. n \in Nat /\ n > 0 /\ target \in Nat \ {0} /\ Durations \subseteq Nat
      BY CallsAssumption
    <3>4. \A i \in 1..n : clips[i] \in Clip
      BY <3>3 DEF Clip
    <3>5. clips \in [1..n -> Clip] /\ 1 \in DOMAIN clips
      BY <3>3, <3>4
    <3>6. clips \in Seq(Clip) /\ clips # <<>>
      BY <3>3, <3>5
    <3> QED BY <3>2, <3>3, <3>6 DEF CallTypeOK
  <2>3. CASE TempoCall
    BY <2>3, CallsAssumption DEF TempoCall, CallTypeOK
  <2>4. CASE CaptionCall
    <3>1. PICK n \in 0..MaxCaption : \E caption \in [1..n -> Characters] :
             call' = [fn |-> "parse_hashtags", caption |-> caption]
      BY <2>4 DEF CaptionCall
    <3>2. PICK caption \in [1..n -> Characters] :
             call' = [fn |-> "parse_hashtags", caption |-> caption]
      BY <3>1
    <3>3. n \in Nat
      BY CallsAssumption
    <3>4. caption \in Seq(Characters)
      BY <3>3
    <3> QED BY <3>2, <3>4 DEF CallTypeOK
  <2>5. CASE PathCall
    <3>0. PICK n \in 0..MaxPath, near \in BOOLEAN, absolute \in BOOLEAN :
             \E rest \in [1..n -> Segments] :
                call' = [fn |-> "file_path",
                         path |-> Path(absolute, (IF near THEN BotDirectory ELSE <<>>) \o rest)]
      BY <2>5, Zenon DEF PathCall
    <3>1. PICK rest \in [1..n -> Segments] :
             call' = [fn |-> "file_path",
                      path |-> Path(absolute, (IF near THEN BotDirectory ELSE <<>>) \o rest)]
      BY <3>0
    <3> DEFINE before == IF near THEN BotDirectory ELSE <<>>
    <3>2. before \in Seq(STRING) /\ rest \in Seq(STRING)
      <4>1. n \in Nat
        BY SegmentsAreTexts
      <4> QED BY <4>1, NearIsText, RestIsText, Zenon
    <3> HIDE DEF before
    <3>3. before \o rest \in Seq(STRING)
      BY <3>2
    <3>4. Path(absolute, before \o rest) \in PathText
      BY <3>3 DEF Path, PathText
    <3>5. call' = [fn |-> "file_path", path |-> Path(absolute, before \o rest)]
      BY <3>1, Zenon DEF before
    <3> QED BY <3>4, <3>5 DEF CallTypeOK
  <2>6. CASE UNCHANGED call
    BY <2>6 DEF CallTypeOK
  <2> QED BY <2>1, <2>2, <2>3, <2>4, <2>5, <2>6 DEF Next
<1> QED BY <1>1, <1>2, PTL DEF Spec

\* Whatever the number of matching clips and whatever the sample: select_clips
\* finds its sample, and the reel has the number of clips of the docstring,
\* each once, in order, from the oldest to the newest.
THEOREM SelectionsAreRight == Spec => []SelectionIsRight
<1>1. CallTypeOK => SelectionIsRight
  BY SelectClipsIsRight DEF CallTypeOK, SelectionIsRight
<1> QED BY <1>1, CallsAreTyped, PTL

-----------------------------------------------------------------------------
(***************************************************************************)
(* The length of a reel.                                                   *)
(***************************************************************************)

\* What `\div` leaves.
LEMMA DivisionIs ==
    ASSUME NEW a \in Nat, NEW b \in Nat \ {0}
    PROVE  /\ a \div b \in Nat
           /\ b * (a \div b) <= a /\ a < b * (a \div b) + b
OBVIOUS

\* What is written is at most half a Precision-th away, on either side.
LEMMA WrittenIs ==
    ASSUME NEW p \in Nat, NEW q \in Nat \ {0}
    PROVE  /\ Written(p, q) \in Nat
           /\ 2 * (Written(p, q) * q) <= 2 * (p * Precision) + q
           /\ 2 * (p * Precision) < 2 * (Written(p, q) * q) + q
<1> DEFINE w == Written(p, q)
           a == 2 * p * Precision + q
<1>1. a \in Nat /\ 2 * q \in Nat \ {0} /\ p * Precision \in Nat /\ a = 2 * (p * Precision) + q
  BY PrecisionAssumption
<1>2. w = a \div (2 * q)
  BY DEF Written
<1> HIDE DEF a, w
<1>3. w \in Nat /\ (2 * q) * w <= a /\ a < (2 * q) * w + 2 * q
  BY <1>1, <1>2, DivisionIs
<1>4. (2 * q) * w = 2 * (w * q) /\ w * q \in Nat
  BY <1>3
<1>5. 2 * (w * q) <= 2 * (p * Precision) + q /\ 2 * (p * Precision) < 2 * (w * q) + q
  BY <1>1, <1>3, <1>4
<1> QED BY <1>3, <1>5 DEF w

\* A clip at a speed s, which takes up whole * n of its n-th part of target,
\* fits the part: at the speed that is written when it is too fast, and as it
\* is when it is not.
LEMMA FitsWhenFast ==
    ASSUME NEW d \in Nat, NEW n \in Nat, NEW t \in Nat \ {0},
           (d * n) * Precision > t * (Precision + 1), NEW w, w = Written(d * n, t)
    PROVE  /\ w \in Nat /\ d * Precision <= d * w
           /\ ((d * Precision) * n) * Precision <= (w * t) * (Precision + 1)
           /\ (w * t) * (Precision - 1) <= ((d * Precision) * n) * Precision
<1> DEFINE P  == Precision
           D  == d * n
           DP == D * P
           wt == w * t
           tP == t * P
<1>1. P \in Nat \ {0} /\ D \in Nat /\ DP \in Nat /\ tP \in Nat
  BY PrecisionAssumption
<1>2. w \in Nat /\ 2 * wt <= 2 * DP + t /\ 2 * DP < 2 * wt + t
  BY <1>1, WrittenIs
<1>3. wt \in Nat
  BY <1>2
<1>4. t * (P + 1) = tP + t /\ DP > tP + t
  BY <1>1
<1> HIDE DEF D
<1>5. wt > tP
  <2> HIDE DEF wt, tP, DP
  <2> QED BY <1>1, <1>2, <1>3, <1>4
<1>6. w > P
  <2>1. ASSUME w <= P PROVE wt <= tP
    BY <1>1, <1>2, <2>1
  <2> HIDE DEF wt, tP
  <2> QED BY <1>1, <1>2, <1>3, <1>5, <2>1
<1>7. d * P <= d * w
  BY <1>1, <1>2, <1>6
<1>8. DP * P \in Nat /\ wt * P \in Nat /\ (d * P) * n = DP
  BY <1>1, <1>3 DEF D
<1>9. 2 * (wt * P) <= 2 * (DP * P) + tP /\ 2 * (DP * P) <= 2 * (wt * P) + tP
  <2>1. \A x, y \in Nat : 2 * x <= 2 * y + t => 2 * (x * P) <= 2 * (y * P) + t * P
    <3> TAKE x, y \in Nat
    <3> HAVE 2 * x <= 2 * y + t
    <3>1. (2 * x) * P <= (2 * y + t) * P
      BY <1>1
    <3>2. (2 * x) * P = 2 * (x * P) /\ (2 * y + t) * P = 2 * (y * P) + t * P
      BY <1>1
    <3> QED BY <3>1, <3>2
  <2>2. 2 * wt <= 2 * DP + t /\ 2 * DP <= 2 * wt + t
    BY <1>1, <1>2, <1>3
  <2> HIDE DEF wt, DP
  <2> QED BY <1>1, <1>3, <2>1, <2>2
<1>10. wt * (P + 1) = wt * P + wt /\ wt * (P - 1) = wt * P - wt
  BY <1>1, <1>3
<1>11. DP * P <= wt * (P + 1) /\ wt * (P - 1) <= DP * P
  <2> HIDE DEF wt, tP, DP
  <2>1. DP * P \in Nat /\ wt * P \in Nat
    BY <1>8
  <2> DEFINE x == DP * P
             y == wt * P
  <2> HIDE DEF x, y
  <2>2. x \in Nat /\ y \in Nat /\ 2 * y <= 2 * x + tP /\ 2 * x <= 2 * y + tP
    BY <1>9, <2>1 DEF x, y
  <2>3. x <= y + wt /\ y - wt <= x
    BY <1>1, <1>3, <1>5, <2>2
  <2> QED BY <1>10, <2>3 DEF x, y
<1> QED BY <1>2, <1>7, <1>8, <1>11

\* The same for a clip that is left as it is.
LEMMA FitsWhenSlow ==
    ASSUME NEW d \in Nat, NEW n \in Nat, NEW t \in Nat \ {0},
           ~((d * n) * Precision > t * (Precision + 1))
    PROVE  /\ (d * n) * Precision <= t * (Precision + 1)
           /\ d * n >= t => t * (Precision - 1) <= (d * n) * Precision
<1> DEFINE D == d * n
<1>1. Precision \in Nat \ {0} /\ D \in Nat
  BY PrecisionAssumption
<1> HIDE DEF D
<1>2. D * Precision \in Nat /\ t * (Precision + 1) \in Nat
      /\ t * (Precision - 1) = t * Precision - t /\ t * Precision \in Nat
  BY <1>1
<1>3. D >= t => t * Precision <= D * Precision
  BY <1>1
<1>4. D * Precision <= t * (Precision + 1)
  BY <1>2 DEF D
<1>5. D >= t => t * (Precision - 1) <= D * Precision
  BY <1>2, <1>3
<1> QED BY <1>4, <1>5 DEF D

\* What ReelFitsTarget says of one clip.
Fits(long, d, n, t) ==
    /\ long[1] <= d * long[2]
    /\ (long[1] * n) * Precision <= (long[2] * t) * (Precision + 1)
    /\ d * n >= t => (long[2] * t) * (Precision - 1) <= (long[1] * n) * Precision

\* Every clip does.
LEMMA ClipFits ==
    ASSUME NEW clips \in Seq(Clip), NEW target \in Nat \ {0}, NEW i \in 1..Len(clips)
    PROVE  Fits(InReel(clips, target, i), clips[i].duration, Len(clips), target)
<1> DEFINE d == clips[i].duration
           n == Len(clips)
           fast == (d * n) * Precision > target * (Precision + 1)
           w == Written(d * n, target)
           long == InReel(clips, target, i)
<1>1. d \in Nat /\ n \in Nat
  <2>1. clips[i] \in Clip /\ Len(clips) \in Nat
    OBVIOUS
  <2> QED BY <2>1 DEF Clip
<1>2. long = IF fast THEN <<d * Precision, w>> ELSE <<d, 1>>
  BY DEF InReel, TooFast, Speed
<1> HIDE DEF d, n, long
<1>3. CASE fast
  <2>1. /\ w \in Nat /\ d * Precision <= d * w
        /\ ((d * Precision) * n) * Precision <= (w * target) * (Precision + 1)
        /\ (w * target) * (Precision - 1) <= ((d * Precision) * n) * Precision
    BY <1>1, <1>3, FitsWhenFast
  <2>2. long[1] = d * Precision /\ long[2] = w
    BY <1>2, <1>3
  <2> HIDE DEF w
  <2>3. Fits(long, d, n, target)
    BY <2>1, <2>2 DEF Fits
  <2> QED BY <2>3 DEF long, d, n
<1>4. CASE ~fast
  <2>1. /\ (d * n) * Precision <= target * (Precision + 1)
        /\ d * n >= target => target * (Precision - 1) <= (d * n) * Precision
    BY <1>1, <1>4, FitsWhenSlow
  <2>2. long[1] = d /\ long[2] = 1
    BY <1>2, <1>4
  <2>3. d <= d * 1 /\ 1 * target = target
    BY <1>1
  <2>4. Fits(long, d, n, target)
    BY <2>1, <2>2, <2>3 DEF Fits
  <2> QED BY <2>4 DEF long, d, n
<1> QED BY <1>3, <1>4

\* Whatever the clips, the target and the number of digits: no clip is longer
\* in the reel than its part of the target by more than the rounding, one that
\* is as long as its part fills it but for the rounding, none is slowed down.
THEOREM ReelsFit == Spec => []ReelFitsTarget
<1>1. CallTypeOK => ReelFitsTarget
  <2> SUFFICES ASSUME CallTypeOK, call.fn = "build_filter_complex" PROVE ReelFitsTarget
    BY DEF ReelFitsTarget
  <2>1. call.clips \in Seq(Clip) /\ call.target \in Nat \ {0}
    BY Zenon DEF CallTypeOK
  <2>2. \A i \in 1..Len(call.clips) :
           Fits(InReel(call.clips, call.target, i), call.clips[i].duration,
                Len(call.clips), call.target)
    BY <2>1, ClipFits
  <2> QED BY <2>2, Zenon DEF ReelFitsTarget, Fits
<1> QED BY <1>1, CallsAreTyped, PTL

-----------------------------------------------------------------------------
(***************************************************************************)
(* The tempo.                                                              *)
(***************************************************************************)

\* The powers of two double, and each is more than its exponent.
LEMMA Pow2Is ==
    /\ Pow2[0] = 1
    /\ \A k \in Nat : Pow2[k + 1] = 2 * Pow2[k] /\ Pow2[k] \in Nat /\ Pow2[k] > k
<1> DEFINE step == [xi \in Nat \X Nat |-> 2 * xi[1]]
           body(f) == [k \in Nat |-> IF k = 0 THEN 1 ELSE 2 * f[k - 1]]
           G == {k \in Nat : Pow2[k] \in Nat /\ Pow2[k] > k}
<1>1. step \in [Nat \X Nat -> Nat] /\ \A x, i \in Nat : step[<<x, i>>] = 2 * x
  OBVIOUS
<1> HIDE DEF step
<1>2. PICK f \in [Nat -> Nat] : f[0] = 1 /\ \A n \in Nat : f[n + 1] = step[<<f[n], n + 1>>]
  <2>1. 1 \in Nat
    OBVIOUS
  <2>2. \E f : BuiltForever(f, Nat, 1, step)
    BY <1>1, <2>1, Recursion
  <2> QED BY <2>2 DEF BuiltForever
<1>3. ASSUME NEW k \in Nat, k # 0 PROVE f[k] = 2 * f[k - 1]
  <2>1. k - 1 \in Nat /\ (k - 1) + 1 = k /\ f[k - 1] \in Nat
    BY <1>2, <1>3
  <2> QED BY <1>1, <1>2, <2>1
<1>4. f = body(f)
  BY <1>2, <1>3
<1>5. Pow2 = body(Pow2)
  <2>1. Pow2 = CHOOSE g : g = body(g)
    BY DEF Pow2
  <2> HIDE DEF body
  <2> QED BY <1>4, <2>1
<1>6. Pow2[0] = 1 /\ \A k \in Nat : Pow2[k + 1] = 2 * Pow2[(k + 1) - 1]
  BY <1>5
<1>7. \A k \in Nat : Pow2[k + 1] = 2 * Pow2[k]
  BY <1>6
<1>8. 0 \in G
  BY <1>6
<1>9. ASSUME NEW k \in Nat, k \in G PROVE k + 1 \in G
  BY <1>7, <1>9
<1> HIDE DEF G
<1>10. \A k \in Nat : k \in G
  BY <1>8, <1>9, Induction
<1> QED BY <1>6, <1>7, <1>10 DEF G

\* Halvings is the least number of halvings after which p / q is at most 2.
LEMMA HalvingsIs ==
    ASSUME NEW p \in Nat \ {0}, NEW q \in Nat \ {0}
    PROVE  LET k == Halvings(p, q)
           IN  /\ k \in Nat /\ p <= 2 * q * Pow2[k]
               /\ k = 0 \/ p > q * Pow2[k]
<1> DEFINE K == {k \in Nat : p <= 2 * q * Pow2[k]}
<1>1. p \in K
  <2>1. Pow2[p] \in Nat /\ Pow2[p] > p
    BY Pow2Is
  <2>2. 2 * q * Pow2[p] >= Pow2[p]
    BY <2>1
  <2> QED BY <2>1, <2>2
<1>2. PICK k \in K : \A j \in K : k <= j
  <2> HIDE DEF K
  <2>1. K \in SUBSET Nat
    BY DEF K
  <2> QED BY <1>1, <2>1, Minimum
<1>3. k \in 0..p /\ p <= 2 * q * Pow2[k]
  BY <1>1, <1>2
<1>4. ASSUME k # 0 PROVE p > q * Pow2[k]
  <2>1. k - 1 \in Nat /\ ~(k <= k - 1) /\ (k - 1) + 1 = k
    BY <1>2, <1>4
  <2>2. k - 1 \notin K
    BY <1>2, <2>1
  <2>3. ~(p <= 2 * q * Pow2[k - 1]) /\ Pow2[k - 1] \in Nat
    BY <2>1, <2>2, Pow2Is
  <2>4. Pow2[k] = 2 * Pow2[k - 1]
    BY <2>1, Pow2Is
  <2>5. q * (2 * Pow2[k - 1]) = 2 * q * Pow2[k - 1] /\ 2 * q * Pow2[k - 1] \in Nat
    BY <2>3
  <2> QED BY <2>3, <2>4, <2>5
<1>5. \E j \in 0..p : p <= 2 * q * Pow2[j] /\ (j = 0 \/ p > q * Pow2[j])
  BY <1>3, <1>4
<1>6. /\ Halvings(p, q) \in 0..p /\ p <= 2 * q * Pow2[Halvings(p, q)]
      /\ Halvings(p, q) = 0 \/ p > q * Pow2[Halvings(p, q)]
  BY <1>5 DEF Halvings
<1> QED BY <1>6

\* Doublings is the least number of doublings after which p / q is at least
\* 1/2.
LEMMA DoublingsIs ==
    ASSUME NEW p \in Nat \ {0}, NEW q \in Nat \ {0}
    PROVE  LET k == Doublings(p, q)
           IN  /\ k \in Nat /\ p * 2 * Pow2[k] >= q
               /\ k = 0 \/ p * Pow2[k] < q
<1> DEFINE K == {k \in Nat : p * 2 * Pow2[k] >= q}
<1>1. q \in K
  <2>1. Pow2[q] \in Nat /\ Pow2[q] > q
    BY Pow2Is
  <2>2. p * 2 * Pow2[q] >= Pow2[q]
    BY <2>1
  <2> QED BY <2>1, <2>2
<1>2. PICK k \in K : \A j \in K : k <= j
  <2> HIDE DEF K
  <2>1. K \in SUBSET Nat
    BY DEF K
  <2> QED BY <1>1, <2>1, Minimum
<1>3. k \in 0..q /\ p * 2 * Pow2[k] >= q
  BY <1>1, <1>2
<1>4. ASSUME k # 0 PROVE p * Pow2[k] < q
  <2>1. k - 1 \in Nat /\ ~(k <= k - 1) /\ (k - 1) + 1 = k
    BY <1>2, <1>4
  <2>2. k - 1 \notin K
    BY <1>2, <2>1
  <2>3. ~(p * 2 * Pow2[k - 1] >= q) /\ Pow2[k - 1] \in Nat
    BY <2>1, <2>2, Pow2Is
  <2>4. Pow2[k] = 2 * Pow2[k - 1]
    BY <2>1, Pow2Is
  <2>5. p * (2 * Pow2[k - 1]) = p * 2 * Pow2[k - 1] /\ p * 2 * Pow2[k - 1] \in Nat
    BY <2>3
  <2> QED BY <2>3, <2>4, <2>5
<1>5. \E j \in 0..q : p * 2 * Pow2[j] >= q /\ (j = 0 \/ p * Pow2[j] < q)
  BY <1>3, <1>4
<1>6. /\ Doublings(p, q) \in 0..q /\ p * 2 * Pow2[Doublings(p, q)] >= q
      /\ Doublings(p, q) = 0 \/ p * Pow2[Doublings(p, q)] < q
  BY <1>5 DEF Doublings
<1> QED BY <1>6

\* f multiplies the side c of the first n factors of a chain, for each n.
Multiplies(f, chain, c) ==
    /\ f[0] = 1
    /\ \A i \in 1..Len(chain) : f[i] = f[i - 1] * chain[i][c]

\* f is the recursive function that does.
IsProduct(f, chain, c) ==
    f = CHOOSE g : g = [i \in 0..Len(chain) |-> IF i = 0 THEN 1 ELSE g[i - 1] * chain[i][c]]

\* The product of one side of the factors of a chain, one after the other.
LEMMA ProductIs ==
    ASSUME NEW chain \in Seq(Nat \X Nat), NEW c \in {1, 2}, NEW f, IsProduct(f, chain, c)
    PROVE  Multiplies(f, chain, c)
<1> DEFINE n == Len(chain)
           side(i) == chain[i][c]
           step == [xi \in Nat \X (1..n) |-> xi[1] * side(xi[2])]
           body(h) == [i \in 0..n |-> IF i = 0 THEN 1 ELSE h[i - 1] * side(i)]
           product == CHOOSE g : g = body(g)
<1>1. n \in Nat /\ \A i \in 1..n : side(i) \in Nat
  <2>1. n \in Nat /\ \A i \in 1..n : chain[i] \in Nat \X Nat
    OBVIOUS
  <2> QED BY <2>1
<1> HIDE DEF n, side, product
<1>2. step \in [Nat \X (1..n) -> Nat] /\ \A x \in Nat, i \in 1..n : step[<<x, i>>] = x * side(i)
  <2>1. \A x \in Nat, i \in 1..n : x * side(i) \in Nat
    BY <1>1
  <2> QED BY <2>1
<1> HIDE DEF step
<1>3. PICK h : Built(h, Nat, 1, step, n)
  BY <1>1, <1>2, RecursionUpTo
<1>4. /\ h \in [0..n -> Nat] /\ h[0] = 1
      /\ \A i \in 1..n : h[i] = step[<<h[i - 1], i>>] /\ h[i - 1] \in Nat
  BY <1>1, <1>3 DEF Built
<1>5. \A i \in 1..n : h[i] = h[i - 1] * side(i)
  BY <1>2, <1>4
<1>6. h = body(h)
  BY <1>1, <1>4, <1>5
<1>7. product = body(product)
  <2> HIDE DEF body
  <2> QED BY <1>6 DEF product
<1>8. product[0] = 1 /\ \A i \in 1..n : product[i] = product[i - 1] * side(i)
  BY <1>1, <1>7
<1>9. f = product
  BY DEF IsProduct, product, n, side
<1> QED BY <1>1, <1>8, <1>9 DEF n, side, Multiplies

\* The side c of each of the first k factors is v.
StartsWith(chain, k, c, v) ==
    /\ k \in Nat /\ Len(chain) \in Nat /\ k <= Len(chain)
    /\ \A i \in 1..k : chain[i][c] = v

\* A chain that begins with k factors of 2 multiplies to 2^k so far.
LEMMA ProductOfTwos ==
    ASSUME NEW chain, NEW c, NEW f, NEW k, Multiplies(f, chain, c), StartsWith(chain, k, c, 2)
    PROVE  f[k] = Pow2[k]
<1> DEFINE G == {i \in Nat : i <= k => f[i] = Pow2[i]}
           n == Len(chain)
           side(i) == chain[i][c]
<1>1. n \in Nat /\ k \in Nat /\ k <= n /\ \A i \in 1..k : side(i) = 2
  BY DEF StartsWith
<1>2. f[0] = 1 /\ \A i \in 1..n : f[i] = f[i - 1] * side(i)
  BY DEF Multiplies
<1> HIDE DEF n, side
<1>3. 0 \in G
  BY <1>2, Pow2Is
<1>4. ASSUME NEW i \in Nat, i \in G PROVE i + 1 \in G
  <2> SUFFICES ASSUME i + 1 <= k PROVE f[i + 1] = Pow2[i + 1]
    OBVIOUS
  <2>1. i + 1 \in 1..n /\ i + 1 \in 1..k /\ (i + 1) - 1 = i /\ f[i] = Pow2[i]
    BY <1>1, <1>4
  <2>2. f[i + 1] = f[i] * 2
    BY <1>1, <1>2, <2>1
  <2>3. Pow2[i + 1] = 2 * Pow2[i] /\ Pow2[i] \in Nat
    BY Pow2Is
  <2> QED BY <2>1, <2>2, <2>3
<1>5. k \in G
  <2> HIDE DEF G
  <2> QED BY <1>1, <1>3, <1>4, Induction
<1> QED BY <1>1, <1>5

\* A chain that begins with k factors of 1 multiplies to 1 so far.
LEMMA ProductOfOnes ==
    ASSUME NEW chain, NEW c, NEW f, NEW k, Multiplies(f, chain, c), StartsWith(chain, k, c, 1)
    PROVE  f[k] = 1
<1> DEFINE G == {i \in Nat : i <= k => f[i] = 1}
           n == Len(chain)
           side(i) == chain[i][c]
<1>1. n \in Nat /\ k \in Nat /\ k <= n /\ \A i \in 1..k : side(i) = 1
  BY DEF StartsWith
<1>2. f[0] = 1 /\ \A i \in 1..n : f[i] = f[i - 1] * side(i)
  BY DEF Multiplies
<1> HIDE DEF n, side
<1>3. 0 \in G
  BY <1>2
<1>4. ASSUME NEW i \in Nat, i \in G PROVE i + 1 \in G
  <2> SUFFICES ASSUME i + 1 <= k PROVE f[i + 1] = 1
    OBVIOUS
  <2>1. i + 1 \in 1..n /\ i + 1 \in 1..k /\ (i + 1) - 1 = i /\ f[i] = 1
    BY <1>1, <1>4
  <2>2. f[i + 1] = f[i] * 1
    BY <1>1, <1>2, <2>1
  <2> QED BY <2>1, <2>2
<1>5. k \in G
  <2> HIDE DEF G
  <2> QED BY <1>1, <1>3, <1>4, Induction
<1> QED BY <1>1, <1>5

\* The last factor, when there is one.
LastFactor(one, x) == IF one THEN <<x>> ELSE <<>>

\* k equal factors and a last one.
IsChain(chain, k, factor, one, x) ==
    /\ chain \in Seq(Nat \X Nat)
    /\ \A i \in 1..k : chain[i] = factor
    /\ Len(chain) = IF one THEN k + 1 ELSE k
    /\ one => chain[k + 1] = x

\* A chain is made of them.
LEMMA ChainIs ==
    ASSUME NEW k \in Nat, NEW factor \in Nat \X Nat, NEW one \in BOOLEAN, NEW x \in Nat \X Nat
    PROVE  IsChain(Times(k, factor) \o LastFactor(one, x), k, factor, one, x)
<1> DEFINE P == Nat \X Nat
           same == Times(k, factor)
           last == LastFactor(one, x)
<1>1. factor \in P /\ x \in P
  OBVIOUS
<1> HIDE DEF P
<1>2. same \in Seq(P) /\ Len(same) = k /\ \A i \in 1..k : same[i] = factor
  BY <1>1 DEF Times
<1> HIDE DEF same
<1>3. CASE ~one
  <2>1. last = <<>>
    BY <1>3 DEF LastFactor
  <2>2. same \o last = same
    BY <1>2, <2>1
  <2> QED BY <1>2, <1>3, <2>2 DEF P, same, last, IsChain
<1>4. CASE one
  <2>1. last = <<x>>
    BY <1>4 DEF LastFactor
  <2> HIDE DEF last
  <2>2. /\ same \o last \in Seq(P) /\ Len(same \o last) = k + 1
        /\ (\A i \in 1..k : (same \o last)[i] = factor) /\ (same \o last)[k + 1] = x
    BY <1>1, <1>2, <2>1, OneMore DEF IsOneMore
  <2> QED BY <1>4, <2>2 DEF P, same, last, IsChain
<1> QED BY <1>3, <1>4

\* The factors of such a chain.
LEMMA ChainFactors ==
    ASSUME NEW k \in Nat, NEW factor, NEW one \in BOOLEAN, NEW x,
           NEW chain, IsChain(chain, k, factor, one, x), NEW f \in ToSet(chain)
    PROVE  f = factor \/ (one /\ f = x)
<1>1. PICK i \in 1..Len(chain) : chain[i] = f
  BY DEF ToSet, IsChain
<1>2. i \in 1..k \/ (one /\ i = k + 1)
  BY <1>1 DEF IsChain
<1> QED BY <1>1, <1>2 DEF IsChain

\* What the factors of a chain multiply to, when the equal ones are 2 on the
\* side c, and when they are 1.
LEMMA ChainProduct ==
    ASSUME NEW k \in Nat, NEW factor \in Nat \X Nat, NEW one \in BOOLEAN, NEW x \in Nat \X Nat,
           NEW chain, IsChain(chain, k, factor, one, x),
           NEW c \in {1, 2}, NEW f, Multiplies(f, chain, c)
    PROVE  LET last == IF one THEN x[c] ELSE 1
           IN  /\ factor[c] = 2 => f[Len(chain)] = Pow2[k] * last
               /\ factor[c] = 1 => f[Len(chain)] = last
<1> DEFINE y == factor[c]
           z == x[c]
<1>1. /\ chain \in Seq(Nat \X Nat) /\ k <= Len(chain) /\ \A i \in 1..k : chain[i] = factor
      /\ Len(chain) = IF one THEN k + 1 ELSE k
      /\ one => chain[k + 1] = x
  BY DEF IsChain
<1>2. y = 2 => f[k] = Pow2[k]
  <2> SUFFICES ASSUME y = 2 PROVE f[k] = Pow2[k]
    OBVIOUS
  <2>1. Len(chain) \in Nat /\ k <= Len(chain)
    BY <1>1
  <2>2. \A i \in 1..k : chain[i][c] = 2
    BY <1>1, Zenon
  <2>3. StartsWith(chain, k, c, 2)
    BY <2>1, <2>2, Zenon DEF StartsWith
  <2> QED BY <2>3, ProductOfTwos
<1>3. y = 1 => f[k] = 1
  <2> SUFFICES ASSUME y = 1 PROVE f[k] = 1
    OBVIOUS
  <2>1. Len(chain) \in Nat /\ k <= Len(chain)
    BY <1>1
  <2>2. \A i \in 1..k : chain[i][c] = 1
    BY <1>1, Zenon
  <2>3. StartsWith(chain, k, c, 1)
    BY <2>1, <2>2, Zenon DEF StartsWith
  <2> QED BY <2>3, ProductOfOnes
<1>4. z \in Nat /\ Pow2[k] \in Nat
  BY Pow2Is
<1>5. CASE ~one
  <2> HIDE DEF y
  <2>1. Len(chain) = k /\ Pow2[k] * 1 = Pow2[k]
    BY <1>1, <1>4, <1>5
  <2>2. (y = 2 => f[k] = Pow2[k] * 1) /\ (y = 1 => f[k] = 1)
    BY <1>2, <1>3, <2>1
  <2> QED BY <1>5, <2>1, <2>2 DEF y
<1>6. CASE one
  <2>1. Len(chain) = k + 1 /\ chain[k + 1] = x /\ k + 1 \in 1..(k + 1) /\ (k + 1) - 1 = k
    BY <1>1, <1>6
  <2>2. f[k + 1] = f[k] * z
    BY <2>1 DEF Multiplies
  <2> HIDE DEF y, z
  <2>3. (y = 2 => f[k + 1] = Pow2[k] * z) /\ (y = 1 => f[k + 1] = z)
    BY <1>2, <1>3, <1>4, <2>2
  <2> QED BY <1>6, <2>1, <2>3 DEF y, z
<1> QED BY <1>5, <1>6

\* x / y is a / b, but for a Precision-th of x / y.
Closely(a, b, x, y) == Apart(x * b, y * a) <= x * b

\* f is a factor that ffmpeg accepts, from 1/2 to 2.
Accepts(f) == f[1] <= 2 * f[2] /\ f[2] <= 2 * f[1]

\* The last factor, written of an a / b from 1/2 to 2.
LEMMA FactorIs ==
    ASSUME NEW a \in Nat \ {0}, NEW b \in Nat \ {0}, a <= 2 * b, b <= 2 * a
    PROVE  /\ Written(a, b) \in Nat
           /\ Accepts(<<Written(a, b), Precision>>)
           /\ Closely(a, b, Written(a, b), Precision)
<1> DEFINE w  == Written(a, b)
           wb == w * b
           aP == a * Precision
           Pb == Precision * b
<1>1. Precision \in Nat \ {0} /\ aP \in Nat /\ Pb \in Nat
  BY PrecisionAssumption
<1>2. w \in Nat /\ 2 * wb <= 2 * aP + b /\ 2 * aP < 2 * wb + b
  BY WrittenIs
<1>3. wb \in Nat
  BY <1>2
<1>4. Pb <= 2 * aP /\ aP <= 2 * Pb
  <2>1. \A x, y \in Nat : x <= 2 * y => x * Precision <= 2 * (y * Precision)
    BY <1>1
  <2>2. Pb = b * Precision
    BY <1>1
  <2> HIDE DEF aP
  <2> QED BY <2>1, <2>2 DEF aP
<1>5. Precision <= 2 * w
  <2>1. ASSUME 2 * w + 1 <= Precision PROVE 2 * wb + b <= Pb
    <3>1. (2 * w + 1) * b <= Precision * b
      BY <1>1, <1>2, <2>1
    <3>2. (2 * w + 1) * b = 2 * wb + b
      BY <1>2
    <3> QED BY <3>1, <3>2
  <2> HIDE DEF wb, aP, Pb, w
  <2> QED BY <1>1, <1>2, <1>3, <1>4, <2>1
<1>6. w <= 2 * Precision
  <2>1. ASSUME 2 * Precision + 1 <= w PROVE 2 * Pb + b <= wb
    <3>1. (2 * Precision + 1) * b <= w * b
      BY <1>1, <1>2, <2>1
    <3>2. (2 * Precision + 1) * b = 2 * Pb + b
      BY <1>1
    <3> QED BY <3>1, <3>2
  <2> HIDE DEF wb, aP, Pb, w
  <2> QED BY <1>1, <1>2, <1>3, <1>4, <2>1
<1>7. Accepts(<<w, Precision>>)
  BY <1>5, <1>6 DEF Accepts
<1>8. Precision * b <= 2 * wb
  <2>1. Precision * b <= (2 * w) * b
    BY <1>1, <1>2, <1>5
  <2>2. (2 * w) * b = 2 * wb
    BY <1>2
  <2> QED BY <2>1, <2>2
<1>9. Apart(wb, Precision * a) <= wb
  <2> DEFINE y == Precision * a
             e == IF wb > y THEN wb - y ELSE y - wb
  <2>1. y = aP /\ y \in Nat
    BY <1>1
  <2>2. e \in Nat /\ 2 * e <= b
    <3> HIDE DEF y, wb, aP
    <3> QED BY <1>2, <1>3, <2>1
  <2>3. Apart(wb, y) = Precision * e
    BY DEF Apart
  <2> HIDE DEF e, y
  <2>4. Precision * (2 * e) <= Precision * b /\ Precision * (2 * e) = 2 * (Precision * e)
        /\ Precision * e \in Nat
    BY <1>1, <2>2
  <2> HIDE DEF wb
  <2>5. Precision * e <= wb
    <3> DEFINE u == Precision * e
               v == Precision * b
    <3>1. u \in Nat /\ v \in Nat /\ 2 * u <= v /\ v <= 2 * wb
      BY <1>1, <1>8, <2>4
    <3> HIDE DEF u, v
    <3>2. u <= wb
      BY <1>3, <3>1
    <3> QED BY <3>2 DEF u
  <2> QED BY <2>3, <2>5 DEF y
<1>10. Closely(a, b, w, Precision)
  BY <1>9 DEF Closely
<1> QED BY <1>2, <1>7, <1>10

\* No factor is as good as that of an a / b in the tolerance of 1.
LEMMA NoFactorIs ==
    ASSUME NEW a \in Nat \ {0}, NEW b \in Nat \ {0}, Apart(a, b) <= b
    PROVE  Closely(a, b, 1, 1)
<1>1. 1 * b = b /\ 1 * a = a /\ Apart(a, b) = Apart(b, a)
  BY DEF Apart
<1> QED BY <1>1 DEF Closely

\* What the last factor is for a / b: one that ffmpeg accepts, and close to it,
\* or none, when 1 is close.
IsLast(a, b, one, x) ==
    /\ one => Accepts(x) /\ Closely(a, b, x[1], x[2])
    /\ ~one => Closely(a, b, 1, 1)

\* A chain of k factors of 2 and one for p / (q * 2^k), and one of k factors of
\* 1/2 and one for (p * 2^k) / q, multiply to about p / q.
LEMMA ChainOfTwos ==
    ASSUME NEW p \in Nat, NEW q \in Nat, NEW k \in Nat, NEW one \in BOOLEAN, NEW x \in Nat \X Nat,
           NEW chain, IsChain(chain, k, <<2, 1>>, one, x), IsLast(p, q * Pow2[k], one, x),
           NEW num, Multiplies(num, chain, 1), NEW den, Multiplies(den, chain, 2)
    PROVE  Closely(p, q, num[Len(chain)], den[Len(chain)])
<1> DEFINE b == q * Pow2[k]
           n == num[Len(chain)]
           m == den[Len(chain)]
           f == <<2, 1>>
           u == IF one THEN x[1] ELSE 1
           v == IF one THEN x[2] ELSE 1
<1>1. Pow2[k] \in Nat /\ u \in Nat /\ v \in Nat
  BY Pow2Is
<1>2. f \in Nat \X Nat /\ f[1] = 2 /\ f[2] = 1 /\ IsChain(chain, k, f, one, x)
  OBVIOUS
<1> HIDE DEF n, m, f
<1>3. n = Pow2[k] * u
  BY <1>2, ChainProduct DEF n
<1>4. m = v
  BY <1>2, ChainProduct DEF m
<1>5. Closely(p, b, u, v)
  BY DEF IsLast
<1> HIDE DEF u, v
<1>6. n * q = u * b /\ m * p = v * p
  BY <1>1, <1>3, <1>4
<1>7. Closely(p, q, n, m)
  BY <1>5, <1>6 DEF Closely
<1> QED BY <1>7 DEF n, m

\* The same for factors of 1/2.
LEMMA ChainOfHalves ==
    ASSUME NEW p \in Nat, NEW q \in Nat, NEW k \in Nat, NEW one \in BOOLEAN, NEW x \in Nat \X Nat,
           NEW chain, IsChain(chain, k, <<1, 2>>, one, x), IsLast(p * Pow2[k], q, one, x),
           NEW num, Multiplies(num, chain, 1), NEW den, Multiplies(den, chain, 2)
    PROVE  Closely(p, q, num[Len(chain)], den[Len(chain)])
<1> DEFINE a == p * Pow2[k]
           n == num[Len(chain)]
           m == den[Len(chain)]
           f == <<1, 2>>
           u == IF one THEN x[1] ELSE 1
           v == IF one THEN x[2] ELSE 1
<1>1. Pow2[k] \in Nat /\ u \in Nat /\ v \in Nat
  BY Pow2Is
<1>2. f \in Nat \X Nat /\ f[1] = 1 /\ f[2] = 2 /\ IsChain(chain, k, f, one, x)
  OBVIOUS
<1> HIDE DEF n, m, f
<1>3. n = u
  BY <1>2, ChainProduct DEF n
<1>4. m = Pow2[k] * v
  BY <1>2, ChainProduct DEF m
<1>5. Closely(a, q, u, v)
  BY DEF IsLast
<1> HIDE DEF u, v
<1>6. n * q = u * q /\ m * p = v * a
  BY <1>1, <1>3, <1>4
<1>7. Closely(p, q, n, m)
  BY <1>5, <1>6 DEF Closely
<1> QED BY <1>7 DEF n, m

\* The factor that is written of a / b.
FactorOf(a, b) == <<Written(a, b), Precision>>

\* Outside the tolerance of 1 it is appended: the last factor is right.
LEMMA LastIs ==
    ASSUME NEW a \in Nat \ {0}, NEW b \in Nat \ {0}, a <= 2 * b, b <= 2 * a,
           NEW one \in BOOLEAN, one \/ Apart(a, b) <= b
    PROVE  FactorOf(a, b) \in Nat \X Nat /\ IsLast(a, b, one, FactorOf(a, b))
<1>1. /\ Written(a, b) \in Nat /\ Precision \in Nat
      /\ Accepts(FactorOf(a, b)) /\ Closely(a, b, Written(a, b), Precision)
  BY FactorIs, PrecisionAssumption DEF FactorOf
<1>2. ~one => Closely(a, b, 1, 1)
  BY NoFactorIs
<1>3. FactorOf(a, b)[1] = Written(a, b) /\ FactorOf(a, b)[2] = Precision
  BY DEF FactorOf
<1>4. FactorOf(a, b) \in Nat \X Nat
  BY <1>1 DEF FactorOf
<1> QED BY <1>1, <1>2, <1>3, <1>4 DEF IsLast

\* How far apart is a number.
LEMMA ApartIs ==
    ASSUME NEW a \in Nat, NEW b \in Nat
    PROVE  Apart(a, b) \in Nat
<1>1. (IF a > b THEN a - b ELSE b - a) \in Nat
  OBVIOUS
<1> QED BY <1>1, PrecisionAssumption DEF Apart

\* The chain of a speed is one of these.
LEMMA AtempoChainIs ==
    ASSUME NEW p \in Nat \ {0}, NEW q \in Nat \ {0}
    PROVE  LET a == p * Pow2[Doublings(p, q)]
               b == q * Pow2[Halvings(p, q)]
           IN  /\ p > 2 * q => AtempoChain(p, q) = Times(Halvings(p, q), <<2, 1>>)
                                   \o LastFactor(Apart(p, b) > b, FactorOf(p, b))
               /\ 2 * p < q => AtempoChain(p, q) = Times(Doublings(p, q), <<1, 2>>)
                                   \o LastFactor(Apart(a, q) > q, FactorOf(a, q))
               /\ ~(p > 2 * q) /\ ~(2 * p < q)
                     => AtempoChain(p, q) = LastFactor(~(Apart(p, q) < q), FactorOf(p, q))
<1>1. p > 2 * q => ~(2 * p < q)
  OBVIOUS
<1> QED BY <1>1, Zenon DEF AtempoChain, LastFactor, FactorOf

\* The chain of p / q multiplies to about p / q and has only factors ffmpeg
\* accepts.
TempoIsRight(p, q, chain, num, den) ==
    /\ Closely(p, q, num[Len(chain)], den[Len(chain)])
    /\ \A f \in ToSet(chain) : Accepts(f)

\* A speed over 2.
LEMMA FastTempo ==
    ASSUME NEW p \in Nat \ {0}, NEW q \in Nat \ {0}, p > 2 * q,
           NEW chain, chain = AtempoChain(p, q),
           NEW num, IsProduct(num, chain, 1), NEW den, IsProduct(den, chain, 2)
    PROVE  TempoIsRight(p, q, chain, num, den)
<1> DEFINE k == Halvings(p, q)
           b == q * Pow2[k]
           one == Apart(p, b) > b
           x == FactorOf(p, b)
           two == <<2, 1>>
<1>1. k \in Nat /\ Pow2[k] \in Nat /\ p <= 2 * q * Pow2[k] /\ (k = 0 \/ p > q * Pow2[k])
      /\ (k = 0 => Pow2[k] = 1)
  BY HalvingsIs, Pow2Is
<1>2. chain = Times(k, two) \o LastFactor(one, x)
  BY AtempoChainIs
<1>3. b \in Nat /\ 2 * q * Pow2[k] = 2 * b
  BY <1>1
<1> HIDE DEF k
<1>4. p <= 2 * b /\ b <= 2 * p /\ b # 0
  BY <1>1, <1>3
<1>5. one \in BOOLEAN /\ (one \/ Apart(p, b) <= b)
  <2> HIDE DEF b
  <2>1. Apart(p, b) \in Nat
    BY <1>3, ApartIs
  <2> QED BY <1>3, <2>1
<1>6. x \in Nat \X Nat /\ IsLast(p, b, one, x)
  <2> HIDE DEF b, one
  <2> QED BY <1>3, <1>4, <1>5, LastIs
<1>7. two \in Nat \X Nat /\ Accepts(two)
  BY DEF Accepts
<1> HIDE DEF one, x
<1>8. IsChain(chain, k, two, one, x)
  <2> HIDE DEF two
  <2> QED BY <1>1, <1>2, <1>5, <1>6, <1>7, ChainIs
<1>9. Multiplies(num, chain, 1) /\ Multiplies(den, chain, 2)
  BY <1>8, ProductIs DEF IsChain
<1>10. Closely(p, q, num[Len(chain)], den[Len(chain)])
  BY <1>1, <1>5, <1>6, <1>8, <1>9, ChainOfTwos
<1>11. \A f \in ToSet(chain) : f = two \/ (one /\ f = x)
  BY <1>1, <1>5, <1>6, <1>8, ChainFactors
<1> QED BY <1>6, <1>7, <1>10, <1>11, Zenon DEF TempoIsRight, IsLast

\* A speed under 1/2.
LEMMA SlowTempo ==
    ASSUME NEW p \in Nat \ {0}, NEW q \in Nat \ {0}, 2 * p < q,
           NEW chain, chain = AtempoChain(p, q),
           NEW num, IsProduct(num, chain, 1), NEW den, IsProduct(den, chain, 2)
    PROVE  TempoIsRight(p, q, chain, num, den)
<1> DEFINE d == Doublings(p, q)
           a == p * Pow2[d]
           one == Apart(a, q) > q
           x == FactorOf(a, q)
           half == <<1, 2>>
<1>1. d \in Nat /\ Pow2[d] \in Nat /\ p * 2 * Pow2[d] >= q /\ (d = 0 \/ p * Pow2[d] < q)
      /\ (d = 0 => Pow2[d] = 1)
  BY DoublingsIs, Pow2Is
<1>2. chain = Times(d, half) \o LastFactor(one, x)
  BY AtempoChainIs
<1>3. a \in Nat /\ p * 2 * Pow2[d] = 2 * a
  BY <1>1
<1> HIDE DEF d
<1>4. a <= 2 * q /\ q <= 2 * a /\ a # 0
  BY <1>1, <1>3
<1>5. one \in BOOLEAN /\ (one \/ Apart(a, q) <= q)
  <2> HIDE DEF a
  <2>1. Apart(a, q) \in Nat
    BY <1>3, ApartIs
  <2> QED BY <1>3, <2>1
<1>6. x \in Nat \X Nat /\ IsLast(a, q, one, x)
  <2> HIDE DEF a, one
  <2> QED BY <1>3, <1>4, <1>5, LastIs
<1>7. half \in Nat \X Nat /\ Accepts(half)
  BY DEF Accepts
<1> HIDE DEF one, x
<1>8. IsChain(chain, d, half, one, x)
  <2> HIDE DEF half
  <2> QED BY <1>1, <1>2, <1>5, <1>6, <1>7, ChainIs
<1>9. Multiplies(num, chain, 1) /\ Multiplies(den, chain, 2)
  BY <1>8, ProductIs DEF IsChain
<1>10. Closely(p, q, num[Len(chain)], den[Len(chain)])
  BY <1>1, <1>5, <1>6, <1>8, <1>9, ChainOfHalves
<1>11. \A f \in ToSet(chain) : f = half \/ (one /\ f = x)
  BY <1>1, <1>5, <1>6, <1>8, ChainFactors
<1> QED BY <1>6, <1>7, <1>10, <1>11, Zenon DEF TempoIsRight, IsLast

\* A speed from 1/2 to 2: no factor before the last.
LEMMA EvenTempo ==
    ASSUME NEW p \in Nat \ {0}, NEW q \in Nat \ {0}, ~(p > 2 * q), ~(2 * p < q),
           NEW chain, chain = AtempoChain(p, q),
           NEW num, IsProduct(num, chain, 1), NEW den, IsProduct(den, chain, 2)
    PROVE  TempoIsRight(p, q, chain, num, den)
<1> DEFINE b == q * Pow2[0]
           one == ~(Apart(p, q) < q)
           x == FactorOf(p, q)
           two == <<2, 1>>
<1>1. chain = LastFactor(one, x)
  BY AtempoChainIs
<1>2. b = q
  BY Pow2Is
<1>3. one \in BOOLEAN /\ (one \/ Apart(p, q) <= q)
  BY ApartIs
<1>4. x \in Nat \X Nat /\ IsLast(p, q, one, x)
  <2> HIDE DEF one
  <2> QED BY <1>3, LastIs
<1>5. two \in Nat \X Nat /\ Accepts(two)
  BY DEF Accepts
<1> HIDE DEF one, x
<1>6. IsChain(chain, 0, two, one, x)
  <2>1. one => chain = <<x>>
    BY <1>1 DEF LastFactor
  <2>2. ~one => chain = <<>>
    BY <1>1 DEF LastFactor
  <2>3. <<x>> \in Seq(Nat \X Nat) /\ Len(<<x>>) = 1 /\ <<x>>[1] = x
    BY <1>4
  <2> HIDE DEF two
  <2>4. one => IsChain(chain, 0, two, one, x)
    <3> SUFFICES ASSUME one PROVE IsChain(chain, 0, two, one, x)
      OBVIOUS
    <3>1. chain \in Seq(Nat \X Nat) /\ Len(chain) = 0 + 1 /\ chain[0 + 1] = x /\ 1..0 = {}
      BY <2>1, <2>3
    <3> QED BY <3>1 DEF IsChain
  <2>5. ~one => IsChain(chain, 0, two, one, x)
    BY <2>2 DEF IsChain
  <2> QED BY <1>3, <2>4, <2>5
<1>7. Multiplies(num, chain, 1) /\ Multiplies(den, chain, 2)
  BY <1>6, ProductIs DEF IsChain
<1>8. Closely(p, q, num[Len(chain)], den[Len(chain)])
  <2>1. IsLast(p, b, one, x)
    BY <1>2, <1>4
  <2> QED BY <1>3, <1>4, <1>6, <1>7, <2>1, ChainOfTwos
<1>9. \A f \in ToSet(chain) : f = two \/ (one /\ f = x)
  BY <1>3, <1>4, <1>6, ChainFactors
<1> QED BY <1>4, <1>5, <1>8, <1>9, Zenon DEF TempoIsRight, IsLast

\* Whatever the speed and the number of digits: the factors atempo_chain
\* splits it into are factors ffmpeg accepts, and their product is the speed
\* but for the rounding and the tolerances.
THEOREM TemposAreClose == Spec => []TempoIsClose
<1>1. CallTypeOK => TempoIsClose
  <2> SUFFICES ASSUME CallTypeOK, call.fn = "atempo_chain" PROVE TempoIsClose
    BY DEF TempoIsClose
  <2> DEFINE p == call.p
             q == call.q
             chain == AtempoChain(p, q)
             num == CHOOSE g : g = [i \in 0..Len(chain) |->
                       IF i = 0 THEN 1 ELSE g[i - 1] * chain[i][1]]
             den == CHOOSE g : g = [i \in 0..Len(chain) |->
                       IF i = 0 THEN 1 ELSE g[i - 1] * chain[i][2]]
  <2>1. p \in Nat \ {0} /\ q \in Nat \ {0}
    BY Zenon DEF CallTypeOK
  <2>2. IsProduct(num, chain, 1) /\ IsProduct(den, chain, 2)
    BY Zenon DEF IsProduct
  <2>3. TempoIsRight(p, q, chain, num, den)
    <3>1. chain = AtempoChain(p, q)
      OBVIOUS
    <3> HIDE DEF chain, num, den, p, q
    <3> QED BY <2>1, <2>2, <3>1, FastTempo, SlowTempo, EvenTempo
  <2> QED BY <2>3, Zenon DEF TempoIsClose, TempoIsRight, Closely, Accepts
<1> QED BY <1>1, CallsAreTyped, PTL

-----------------------------------------------------------------------------
(***************************************************************************)
(* The filter graph: what its filters read and write, clip by clip.        *)
(***************************************************************************)

\* The labels that the filters of clip j write, and what each of them reads.
IsFast(clips, target, j) == TooFast(Speed(clips, target, j))

Stages(clips, target, j) ==
    {st \in {"n", "s", "t"} : (st = "s" => IsFast(clips, target, j)) /\ (st = "t" => clips[j].dated)}

Reads(clips, target, j, st) ==
    IF st = "n" THEN Label(j - 1, "v")
    ELSE IF st = "s" THEN Label(j - 1, "n")
    ELSE AfterSpeed(clips, target, j)

\* s is made of the filters of the clips J, one for each of their labels, and
\* a filter comes after the one that writes what it reads.
MadeOf(s, clips, target, J) ==
    \A k \in 1..Len(s) : \E j \in J : \E st \in Stages(clips, target, j) :
        s[k].ins = <<Reads(clips, target, j, st)>> /\ s[k].out = Label(j - 1, st)
HasAll(s, clips, target, J) ==
    \A j \in J : \A st \in Stages(clips, target, j) : \E k \in 1..Len(s) :
        s[k].ins = <<Reads(clips, target, j, st)>> /\ s[k].out = Label(j - 1, st)
WritesOnce(s) == \A k, l \in 1..Len(s) : s[k].out = s[l].out => k = l
ReadsWritten(s) ==
    \A k \in 1..Len(s) :
        s[k].ins[1][2] = "v" \/ \E l \in 1..(k - 1) : s[l].out = s[k].ins[1]

Pipe(s, clips, target, J) ==
    /\ MadeOf(s, clips, target, J) /\ HasAll(s, clips, target, J)
    /\ WritesOnce(s) /\ ReadsWritten(s)

\* The filters of one clip.
OfClip(clips, target, i) == Scale(i) \o SpeedUp(clips, target, i) \o DrawText(clips, target, i)

\* They are one filter for each stage, in the order of the stages.
LEMMA OfClipIs ==
    ASSUME NEW clips, NEW target, NEW i
    PROVE  LET fast == IsFast(clips, target, i)
               dated == clips[i].dated
               n == Filter(<<Label(i - 1, "v")>>, "scale", Label(i - 1, "n"))
               s == Filter(<<Label(i - 1, "n")>>, "setpts", Label(i - 1, "s"))
               t == Filter(<<AfterSpeed(clips, target, i)>>, "drawtext", Label(i - 1, "t"))
           IN  /\ ~fast /\ ~dated => OfClip(clips, target, i) = <<n>>
               /\ fast /\ ~dated => OfClip(clips, target, i) = <<n, s>>
               /\ ~fast /\ dated => OfClip(clips, target, i) = <<n, t>>
               /\ fast /\ dated => OfClip(clips, target, i) = <<n, s, t>>
<1> DEFINE fast == IsFast(clips, target, i)
           dated == clips[i].dated
           n == Filter(<<Label(i - 1, "v")>>, "scale", Label(i - 1, "n"))
           s == Filter(<<Label(i - 1, "n")>>, "setpts", Label(i - 1, "s"))
           t == Filter(<<AfterSpeed(clips, target, i)>>, "drawtext", Label(i - 1, "t"))
           speed == IF fast THEN <<s>> ELSE <<>>
           text == IF dated THEN <<t>> ELSE <<>>
<1>1. OfClip(clips, target, i) = (<<n>> \o speed) \o text
  BY Zenon DEF OfClip, Scale, SpeedUp, DrawText, IsFast
<1> HIDE DEF fast, dated, n, s, t
<1>2. /\ <<n>> \o <<>> = <<n>> /\ <<n, s>> \o <<>> = <<n, s>>
      /\ <<n>> \o <<s>> = <<n, s>> /\ <<n>> \o <<t>> = <<n, t>> /\ <<n, s>> \o <<t>> = <<n, s, t>>
  <2>1. <<n>> \o <<>> = <<n>> /\ <<n, s>> \o <<>> = <<n, s>>
    OBVIOUS
  <2> HIDE DEF speed, text
  <2> QED BY <2>1, TwoAndThree, Zenon
<1>3. /\ ~fast /\ ~dated => OfClip(clips, target, i) = <<n>>
      /\ fast /\ ~dated => OfClip(clips, target, i) = <<n, s>>
      /\ ~fast /\ dated => OfClip(clips, target, i) = <<n, t>>
      /\ fast /\ dated => OfClip(clips, target, i) = <<n, s, t>>
  <2>1. /\ ~fast => speed = <<>> /\ <<n>> \o speed = <<n>>
        /\ fast => <<n>> \o speed = <<n, s>>
        /\ ~dated => text = <<>>
        /\ dated => text = <<t>>
    BY <1>2, Zenon
  <2> HIDE DEF speed, text
  <2> QED BY <1>1, <1>2, <2>1, Zenon
<1> QED BY <1>3, Zenon DEF fast, dated, n, s, t

\* Labels are told apart by their clip and by their stage.
LEMMA LabelsDiffer == \A i, j, a, b : Label(i, a) = Label(j, b) <=> i = j /\ a = b
BY DEF Label

\* The filters of one clip are a pipe of this clip.
LEMMA PipeOfClip ==
    ASSUME NEW clips, NEW target, NEW i \in Nat \ {0}, clips[i].dated \in BOOLEAN
    PROVE  Pipe(OfClip(clips, target, i), clips, target, {i})
<1> DEFINE fast  == IsFast(clips, target, i)
           dated == clips[i].dated
           own(st) == Label(i - 1, st)
           n     == Filter(<<own("v")>>, "scale", own("n"))
           s     == Filter(<<own("n")>>, "setpts", own("s"))
           t     == Filter(<<AfterSpeed(clips, target, i)>>, "drawtext", own("t"))
           c     == OfClip(clips, target, i)
           R(st) == Reads(clips, target, i, st)
           S     == Stages(clips, target, i)
           Is(f, st) == f.ins = <<R(st)>> /\ f.out = own(st)
<1>1. R("n") = own("v") /\ R("s") = own("n") /\ R("t") = IF fast THEN own("s") ELSE own("n")
  BY DEF Reads, AfterSpeed, IsFast
<1>2. n.ins = <<own("v")>> /\ n.out = own("n") /\ s.ins = <<own("n")>> /\ s.out = own("s")
  BY DEF Filter
<1>3. t.ins = <<AfterSpeed(clips, target, i)>> /\ t.out = own("t")
  BY DEF Filter
<1>4. Is(n, "n") /\ Is(s, "s") /\ Is(t, "t")
  BY <1>1, <1>2, <1>3 DEF Reads
<1>5. n.out # s.out /\ n.out # t.out /\ s.out # t.out
  BY <1>2, <1>3, LabelsDiffer
<1>6. /\ n.ins[1][2] = "v" /\ s.ins[1] = n.out
      /\ fast => t.ins[1] = s.out
      /\ ~fast => t.ins[1] = n.out
  <2>1. \A a, f : f.ins = <<a>> => f.ins[1] = a
    OBVIOUS
  <2>2. n.ins[1] = own("v") /\ s.ins[1] = n.out /\ t.ins[1] = AfterSpeed(clips, target, i)
    BY <1>2, <1>3, <2>1
  <2>3. own("v")[2] = "v"
    BY DEF Label
  <2>4. AfterSpeed(clips, target, i) = IF fast THEN own("s") ELSE own("n")
    BY Zenon DEF AfterSpeed, IsFast
  <2> QED BY <1>2, <2>2, <2>3, <2>4
<1>7. S = {"n"} \cup {st \in {"s"} : fast} \cup {st \in {"t"} : dated}
  BY DEF Stages
<1>8. /\ ~fast /\ ~dated => c = <<n>>
      /\ fast /\ ~dated => c = <<n, s>>
      /\ ~fast /\ dated => c = <<n, t>>
      /\ fast /\ dated => c = <<n, s, t>>
  BY OfClipIs, Zenon
<1>9. SUFFICES /\ \A k \in 1..Len(c) : \E st \in S : Is(c[k], st)
               /\ \A st \in S : \E k \in 1..Len(c) : Is(c[k], st)
               /\ \A k, l \in 1..Len(c) : c[k].out = c[l].out => k = l
               /\ \A k \in 1..Len(c) :
                     c[k].ins[1][2] = "v" \/ \E l \in 1..(k - 1) : c[l].out = c[k].ins[1]
  BY Zenon DEF Pipe, MadeOf, HasAll, WritesOnce, ReadsWritten
<1> HIDE DEF fast, dated, own, n, s, t, c, R, S, Is
<1>10. CASE ~fast /\ ~dated
  <2>1. Len(c) = 1 /\ c[1] = n /\ S = {"n"}
    BY <1>7, <1>8, <1>10
  <2> QED BY <2>1, <1>4, <1>6
<1>11. CASE fast /\ ~dated
  <2>1. Len(c) = 2 /\ c[1] = n /\ c[2] = s /\ S = {"n", "s"}
    BY <1>7, <1>8, <1>11
  <2> QED BY <2>1, <1>4, <1>5, <1>6
<1>12. CASE ~fast /\ dated
  <2>1. Len(c) = 2 /\ c[1] = n /\ c[2] = t /\ S = {"n", "t"}
    BY <1>7, <1>8, <1>12
  <2> QED BY <2>1, <1>4, <1>5, <1>6, <1>12
<1>13. CASE fast /\ dated
  <2>1. Len(c) = 3 /\ c[1] = n /\ c[2] = s /\ c[3] = t /\ S = {"n", "s", "t"}
    BY <1>7, <1>8, <1>13
  <2> QED BY <2>1, <1>4, <1>5, <1>6, <1>13
<1> QED BY <1>10, <1>11, <1>12, <1>13

\* The places of a concatenation.
LEMMA ConcatPlaces ==
    ASSUME NEW A, NEW s \in Seq(A), NEW c \in Seq(A)
    PROVE  /\ s \o c \in Seq(A) /\ Len(s) \in Nat /\ Len(c) \in Nat
           /\ Len(s \o c) = Len(s) + Len(c)
           /\ \A k \in 1..Len(s) : (s \o c)[k] = s[k]
           /\ \A k \in 1..Len(c) : (s \o c)[Len(s) + k] = c[k]
OBVIOUS

\* Two pipes of different clips make one of both.
LEMMA PipesJoin ==
    ASSUME NEW clips, NEW target, NEW A, NEW s \in Seq(A), NEW c \in Seq(A),
           NEW J \in SUBSET Nat, NEW K \in SUBSET Nat, J \cap K = {},
           Pipe(s, clips, target, J), Pipe(c, clips, target, K)
    PROVE  Pipe(s \o c, clips, target, J \cup K)
<1> DEFINE z == s \o c
           a == Len(s)
           b == Len(c)
           Is(f, j, st) == f.ins = <<Reads(clips, target, j, st)>> /\ f.out = Label(j - 1, st)
           St(j) == Stages(clips, target, j)
<1>1. /\ a \in Nat /\ b \in Nat /\ Len(z) = a + b
      /\ (\A k \in 1..a : z[k] = s[k]) /\ (\A k \in 1..b : z[a + k] = c[k])
  BY ConcatPlaces
<1>2. /\ \A k \in 1..a : \E j \in J : \E st \in St(j) : Is(s[k], j, st)
      /\ \A j \in J : \A st \in St(j) : \E k \in 1..a : Is(s[k], j, st)
      /\ \A k, l \in 1..a : s[k].out = s[l].out => k = l
      /\ \A k \in 1..a : s[k].ins[1][2] = "v" \/ \E l \in 1..(k - 1) : s[l].out = s[k].ins[1]
  BY Zenon DEF Pipe, MadeOf, HasAll, WritesOnce, ReadsWritten
<1>3. /\ \A k \in 1..b : \E j \in K : \E st \in St(j) : Is(c[k], j, st)
      /\ \A j \in K : \A st \in St(j) : \E k \in 1..b : Is(c[k], j, st)
      /\ \A k, l \in 1..b : c[k].out = c[l].out => k = l
      /\ \A k \in 1..b : c[k].ins[1][2] = "v" \/ \E l \in 1..(k - 1) : c[l].out = c[k].ins[1]
  BY Zenon DEF Pipe, MadeOf, HasAll, WritesOnce, ReadsWritten
<1>4. \A j \in J, i \in K : \A st, su, f, g :
         Is(f, j, st) /\ Is(g, i, su) => f.out # g.out
  <2> SUFFICES ASSUME NEW j \in J, NEW i \in K, NEW st, NEW su, NEW f, NEW g,
                      Is(f, j, st), Is(g, i, su), f.out = g.out
               PROVE  FALSE
    OBVIOUS
  <2>1. Label(j - 1, st) = Label(i - 1, su)
    OBVIOUS
  <2>2. j - 1 = i - 1
    BY <2>1, LabelsDiffer
  <2> QED BY <2>2
<1> HIDE DEF z, a, b, Is, St
<1>5. \A k \in 1..(a + b) : k \in 1..a \/ (k - a \in 1..b /\ a + (k - a) = k)
  BY <1>1
<1>6. \A k \in 1..b : a + k \in 1..(a + b)
  BY <1>1
<1>7. \A k \in 1..(a + b) : \E j \in J \cup K : \E st \in St(j) : Is(z[k], j, st)
  <2> TAKE k \in 1..(a + b)
  <2>1. CASE k \in 1..a
    BY <2>1, <1>1, <1>2
  <2>2. CASE k - a \in 1..b /\ a + (k - a) = k
    <3>1. z[k] = c[k - a]
      BY <2>2, <1>1
    <3> QED BY <2>2, <3>1, <1>3
  <2> QED BY <2>1, <2>2, <1>5
<1>8. \A j \in J \cup K : \A st \in St(j) : \E k \in 1..(a + b) : Is(z[k], j, st)
  <2> SUFFICES ASSUME NEW j \in J \cup K, NEW st \in St(j)
               PROVE  \E k \in 1..(a + b) : Is(z[k], j, st)
    OBVIOUS
  <2>1. CASE j \in J
    <3>1. PICK k \in 1..a : Is(s[k], j, st)
      BY <2>1, <1>2
    <3>2. k \in 1..(a + b) /\ z[k] = s[k]
      BY <1>1
    <3> QED BY <3>1, <3>2
  <2>2. CASE j \in K
    <3>1. PICK k \in 1..b : Is(c[k], j, st)
      BY <2>2, <1>3
    <3>2. a + k \in 1..(a + b) /\ z[a + k] = c[k]
      BY <1>1, <1>6
    <3> QED BY <3>1, <3>2
  <2> QED BY <2>1, <2>2
<1>9. \A k, l \in 1..(a + b) : z[k].out = z[l].out => k = l
  <2> SUFFICES ASSUME NEW k \in 1..(a + b), NEW l \in 1..(a + b), z[k].out = z[l].out
               PROVE  k = l
    OBVIOUS
  <2>1. CASE k \in 1..a /\ l \in 1..a
    BY <2>1, <1>1, <1>2
  <2>2. CASE k - a \in 1..b /\ l - a \in 1..b /\ a + (k - a) = k /\ a + (l - a) = l
    <3>1. z[k] = c[k - a] /\ z[l] = c[l - a]
      BY <2>2, <1>1
    <3>2. k - a = l - a
      BY <2>2, <3>1, <1>3
    <3> QED BY <2>2, <3>2
  <2>3. ASSUME NEW x \in 1..a, NEW y \in 1..b PROVE z[x].out # z[a + y].out
    <3>1. PICK j \in J : \E st \in St(j) : Is(s[x], j, st)
      BY <1>2
    <3>2. PICK st \in St(j) : Is(s[x], j, st)
      BY <3>1
    <3>3. PICK i \in K : \E su \in St(i) : Is(c[y], i, su)
      BY <1>3
    <3>4. PICK su \in St(i) : Is(c[y], i, su)
      BY <3>3
    <3>5. s[x].out # c[y].out
      BY <3>2, <3>4, <1>4
    <3> QED BY <3>5, <1>1
  <2>4. CASE k \in 1..a /\ l - a \in 1..b /\ a + (l - a) = l
    BY <2>3, <2>4
  <2>5. CASE l \in 1..a /\ k - a \in 1..b /\ a + (k - a) = k
    BY <2>3, <2>5
  <2> QED BY <2>1, <2>2, <2>4, <2>5, <1>5
<1>10. \A k \in 1..(a + b) :
          z[k].ins[1][2] = "v" \/ \E l \in 1..(k - 1) : z[l].out = z[k].ins[1]
  <2> TAKE k \in 1..(a + b)
  <2>1. CASE k \in 1..a
    <3>1. z[k] = s[k] /\ \A l \in 1..(k - 1) : z[l] = s[l]
      BY <2>1, <1>1
    <3>2. s[k].ins[1][2] = "v" \/ \E l \in 1..(k - 1) : s[l].out = s[k].ins[1]
      BY <2>1, <1>2, Zenon
    <3> QED BY <3>1, <3>2, Zenon
  <2>2. CASE k - a \in 1..b /\ a + (k - a) = k
    <3>1. z[k] = c[k - a]
      BY <2>2, <1>1
    <3>2. ASSUME NEW l \in 1..((k - a) - 1), c[l].out = c[k - a].ins[1]
          PROVE  a + l \in 1..(k - 1) /\ z[a + l].out = z[k].ins[1]
      <4>1. a \in Nat /\ b \in Nat /\ k - a \in 1..b
        BY <2>2, <1>1
      <4>2. l \in 1..b
        BY <4>1
      <4>3. a + l \in 1..(k - 1)
        BY <4>1
      <4>4. z[a + l] = c[l]
        BY <1>1, <4>2
      <4> QED BY <3>1, <3>2, <4>3, <4>4
    <3> QED BY <2>2, <3>1, <3>2, <1>3
  <2> QED BY <2>1, <2>2, <1>5
<1>11. Len(z) = a + b
  BY <1>1
<1>12. MadeOf(z, clips, target, J \cup K)
  BY <1>7, <1>11 DEF MadeOf, Is, St
<1>13. HasAll(z, clips, target, J \cup K)
  BY <1>8, <1>11 DEF HasAll, Is, St
<1>14. WritesOnce(z) /\ ReadsWritten(z)
  BY <1>9, <1>10, <1>11 DEF WritesOnce, ReadsWritten
<1> QED BY <1>12, <1>13, <1>14 DEF Pipe, z

\* The filters a reel can have.
ReelFilters(clips, target) ==
    UNION {{Filter(<<Label(i - 1, "v")>>, "scale", Label(i - 1, "n")),
            Filter(<<Label(i - 1, "n")>>, "setpts", Label(i - 1, "s")),
            Filter(<<AfterSpeed(clips, target, i)>>, "drawtext", Label(i - 1, "t"))}
           : i \in 1..Len(clips)}

\* The filters of a clip are among them.
LEMMA OfClipSeq ==
    ASSUME NEW clips, NEW target, NEW i \in 1..Len(clips)
    PROVE  OfClip(clips, target, i) \in Seq(ReelFilters(clips, target))
<1> DEFINE n == Filter(<<Label(i - 1, "v")>>, "scale", Label(i - 1, "n"))
           s == Filter(<<Label(i - 1, "n")>>, "setpts", Label(i - 1, "s"))
           t == Filter(<<AfterSpeed(clips, target, i)>>, "drawtext", Label(i - 1, "t"))
           A == ReelFilters(clips, target)
           c == OfClip(clips, target, i)
<1>1. n \in A /\ s \in A /\ t \in A
  <2>1. {n, s, t} \subseteq A
    BY Zenon DEF ReelFilters
  <2> QED BY <2>1, Zenon
<1>2. c = <<n>> \/ c = <<n, s>> \/ c = <<n, t>> \/ c = <<n, s, t>>
  BY OfClipIs, Zenon
<1> HIDE DEF n, s, t, A, c
<1>3. <<n>> \in Seq(A) /\ <<n, s>> \in Seq(A) /\ <<n, t>> \in Seq(A) /\ <<n, s, t>> \in Seq(A)
  BY <1>1
<1>4. c \in Seq(A)
  BY <1>2, <1>3, Zenon
<1> QED BY <1>4 DEF c, A

\* Nothing is a pipe of no clips.
LEMMA NoPipe == \A clips, target : Pipe(<<>>, clips, target, {})
BY DEF Pipe, MadeOf, HasAll, WritesOnce, ReadsWritten

\* The filters of all the clips, one after the other, are a pipe of them.
LEMMA PipeOfReel ==
    ASSUME NEW clips \in Seq(Clip), NEW target, clips # <<>>
    PROVE  LET all == FlattenSeq([i \in 1..Len(clips) |-> OfClip(clips, target, i)])
           IN  /\ all \in Seq(ReelFilters(clips, target))
               /\ Pipe(all, clips, target, 1..Len(clips))
<1> DEFINE n    == Len(clips)
           A    == ReelFilters(clips, target)
           of(i) == OfClip(clips, target, i)
           seqs == [i \in 1..n |-> of(i)]
           dated(i) == clips[i].dated
<1>1. n \in Nat /\ n > 0 /\ \A i \in 1..n : dated(i) \in BOOLEAN
  <2>1. n \in Nat /\ n > 0 /\ \A i \in 1..n : clips[i] \in Clip
    OBVIOUS
  <2> QED BY <2>1 DEF Clip
<1>2. \A i \in 1..n : of(i) \in Seq(A)
  BY OfClipSeq
<1>3. \A i \in 1..n : Pipe(of(i), clips, target, {i})
  <2> TAKE i \in 1..n
  <2>1. i \in Nat \ {0} /\ clips[i].dated \in BOOLEAN
    BY <1>1
  <2> QED BY <2>1, PipeOfClip
<1> HIDE DEF n, A, of, dated
<1>4. seqs \in Seq(Seq(A)) /\ Len(seqs) = n /\ seqs # <<>> /\ \A i \in 1..n : seqs[i] = of(i)
  BY <1>1, <1>2
<1> HIDE DEF seqs
<1>5. PICK f : Joins(f, seqs, A) /\ FlattenSeq(seqs) = f[Len(seqs)]
  BY <1>4, FlattenJoins
<1>6. /\ f \in [0..n -> Seq(A)] /\ f[0] = <<>>
      /\ \A i \in 1..n : f[i] = f[i - 1] \o of(i)
  BY <1>4, <1>5 DEF Joins
<1> DEFINE G == {i \in Nat : i <= n => Pipe(f[i], clips, target, 1..i)}
<1>7. 0 \in G
  <2>1. 1..0 = {}
    OBVIOUS
  <2>2. Pipe(f[0], clips, target, 1..0)
    BY <1>6, <2>1, NoPipe
  <2> QED BY <2>2
<1>8. ASSUME NEW i \in Nat, i \in G PROVE i + 1 \in G
  <2> SUFFICES ASSUME i + 1 <= n PROVE Pipe(f[i + 1], clips, target, 1..(i + 1))
    OBVIOUS
  <2>1. i + 1 \in 1..n /\ (i + 1) - 1 = i /\ f[i] \in Seq(A) /\ Pipe(f[i], clips, target, 1..i)
    BY <1>1, <1>6, <1>8
  <2>2. f[i + 1] = f[i] \o of(i + 1)
    BY <1>6, <2>1
  <2>3. of(i + 1) \in Seq(A) /\ Pipe(of(i + 1), clips, target, {i + 1})
    BY <1>2, <1>3, <2>1
  <2> DEFINE J == 1..i
             K == {i + 1}
  <2>4. J \in SUBSET Nat /\ K \in SUBSET Nat /\ J \cap K = {} /\ 1..(i + 1) = J \cup K
    OBVIOUS
  <2>5. Pipe(f[i], clips, target, J) /\ Pipe(of(i + 1), clips, target, K)
    BY <2>1, <2>3
  <2> HIDE DEF J, K, G
  <2>6. Pipe(f[i] \o of(i + 1), clips, target, J \cup K)
    BY <2>1, <2>3, <2>4, <2>5, PipesJoin
  <2> QED BY <2>2, <2>4, <2>6
<1>9. n \in G
  <2> HIDE DEF G
  <2> QED BY <1>1, <1>7, <1>8, Induction
<1>10. FlattenSeq(seqs) \in Seq(A) /\ Pipe(FlattenSeq(seqs), clips, target, 1..n)
  BY <1>1, <1>4, <1>5, <1>6, <1>9
<1> QED BY <1>10 DEF n, A, of, seqs

\* The stage whose label concat reads.
LastStage(clips, target, j) ==
    IF clips[j].dated THEN "t" ELSE IF IsFast(clips, target, j) THEN "s" ELSE "n"

\* Within one clip every label but the last is read by one filter, the last by
\* none, and only the first filter reads a source.
LEMMA StagesLinkUp ==
    ASSUME NEW clips, NEW target, NEW j
    PROVE  LET S    == Stages(clips, target, j)
               R(st) == Reads(clips, target, j, st)
               last == LastStage(clips, target, j)
           IN  /\ last \in S /\ ConcatInput(clips, target, j) = Label(j - 1, last)
               /\ "n" \in S /\ S \subseteq {"n", "s", "t"}
               /\ \A st \in S : st # last => \E su \in S : R(su) = Label(j - 1, st)
               /\ \A st, su \in S : R(st) = R(su) => st = su
               /\ \A st \in S : R(st) # Label(j - 1, last)
               /\ \A st \in S : \E x \in {"v", "n", "s"} :
                     R(st) = Label(j - 1, x) /\ (x = "v" <=> st = "n")
<1> DEFINE fast  == IsFast(clips, target, j)
           dated == clips[j].dated
           S     == Stages(clips, target, j)
           R(st) == Reads(clips, target, j, st)
           own(st) == Label(j - 1, st)
           last  == LastStage(clips, target, j)
<1>1. S = {st \in {"n", "s", "t"} : (st = "s" => fast) /\ (st = "t" => dated)}
  BY DEF Stages
<1>2. last = IF dated THEN "t" ELSE IF fast THEN "s" ELSE "n"
  BY DEF LastStage
<1>3. R("n") = own("v") /\ R("s") = own("n") /\ R("t") = IF fast THEN own("s") ELSE own("n")
  BY DEF Reads, AfterSpeed, IsFast
<1>4. ConcatInput(clips, target, j) = own(last)
  BY <1>2 DEF ConcatInput, AfterSpeed, IsFast
<1>5. \A x, y : own(x) = own(y) => x = y
  BY LabelsDiffer
<1> HIDE DEF fast, dated, S, R, own, last
<1>6. last \in S /\ "n" \in S /\ S \subseteq {"n", "s", "t"}
  BY <1>1, <1>2
<1>7. \A st \in S : st # last => \E su \in S : R(su) = own(st)
  BY <1>1, <1>2, <1>3
<1>8. \A st, su \in S : R(st) = R(su) => st = su
  BY <1>1, <1>3, <1>5
<1>9. \A st \in S : R(st) # own(last)
  BY <1>1, <1>2, <1>3, <1>5
<1>10. \A st \in S : \E x \in {"v", "n", "s"} : R(st) = own(x) /\ (x = "v" <=> st = "n")
  BY <1>1, <1>3
<1> QED BY <1>4, <1>6, <1>7, <1>8, <1>9, <1>10 DEF S, R, own, last

\* The graph is the pipe of its clips, and concat at the end.
LEMMA GraphIs ==
    ASSUME NEW clips \in Seq(Clip), NEW target, clips # <<>>
    PROVE  LET g == BuildFilterComplex(clips, target)
               m == Len(g) - 1
               s == [k \in 1..m |-> g[k]]
           IN  /\ Len(g) \in Nat /\ m \in Nat /\ Len(s) = m
               /\ Pipe(s, clips, target, 1..Len(clips))
               /\ g[m + 1].ins = [i \in 1..Len(clips) |-> ConcatInput(clips, target, i)]
               /\ g[m + 1].out = OutV
<1> DEFINE all  == FlattenSeq([i \in 1..Len(clips) |-> OfClip(clips, target, i)])
           ins  == [i \in 1..Len(clips) |-> ConcatInput(clips, target, i)]
           last == Filter(ins, "concat", OutV)
           g    == BuildFilterComplex(clips, target)
           B    == ReelFilters(clips, target) \cup {last}
<1>1. g = Append(all, last)
  BY Zenon DEF BuildFilterComplex, OfClip
<1>2. all \in Seq(ReelFilters(clips, target)) /\ Pipe(all, clips, target, 1..Len(clips))
  BY PipeOfReel
<1>3. last.ins = ins /\ last.out = OutV
  BY DEF Filter
<1> HIDE DEF all, ins, last, g
<1>4. all \in Seq(B) /\ last \in B
  <2>1. ReelFilters(clips, target) \subseteq B /\ last \in B
    OBVIOUS
  <2> HIDE DEF B
  <2> QED BY <1>2, <2>1, LargerAlphabet
<1> HIDE DEF B
<1> DEFINE m == Len(all)
<1>5. /\ m \in Nat /\ Len(g) = m + 1 /\ g[m + 1] = last
      /\ \A k \in 1..m : g[k] = all[k]
  BY <1>1, <1>4
<1>6. all = [k \in 1..m |-> all[k]]
  BY <1>4
<1> HIDE DEF m
<1>7. Len(g) - 1 = m
  BY <1>5
<1>8. [k \in 1..m |-> g[k]] = all
  BY <1>5, <1>6
<1>9. Len([k \in 1..m |-> g[k]]) = m
  BY <1>5
<1> QED BY <1>2, <1>3, <1>5, <1>7, <1>8, <1>9 DEF g, ins

\* The label of a clip's stage, from which the clip and the stage come back.
LEMMA LabelOf ==
    ASSUME NEW j \in Nat, NEW a
    PROVE  /\ Label(j - 1, a)[1] = j - 1 /\ Label(j - 1, a)[2] = a
           /\ \A k \in Nat : \A b : Label(j - 1, a) = Label(k - 1, b) => j = k /\ a = b
<1>1. Label(j - 1, a)[1] = j - 1 /\ Label(j - 1, a)[2] = a
  BY DEF Label
<1>2. ASSUME NEW k \in Nat, NEW b, Label(j - 1, a) = Label(k - 1, b) PROVE j = k /\ a = b
  <2>1. j - 1 = k - 1 /\ a = b
    BY <1>2, LabelsDiffer
  <2> QED BY <2>1
<1> QED BY <1>1, <1>2

\* The files that ffmpeg reads: the clips, and the silence after them.
LEMMA InputsAre ==
    ASSUME NEW clips \in Seq(Clip)
    PROVE  /\ \A i \in 1..Len(clips) : Inputs(clips)[i] = "clip"
           /\ Inputs(clips)[Maps(clips)[2][1] + 1] = "silence"
<1> DEFINE n == Len(clips)
           A == {"clip", "silence"}
           s == [i \in 1..n |-> "clip"]
           c == <<"silence">>
<1>1. n \in Nat
  OBVIOUS
<1>2. "clip" \in A /\ "silence" \in A
  OBVIOUS
<1> HIDE DEF n, A
<1>3. s \in Seq(A) /\ Len(s) = n /\ c \in Seq(A) /\ Len(c) = 1 /\ c[1] = "silence"
  BY <1>1, <1>2
<1>4. \A i \in 1..n : s[i] = "clip"
  OBVIOUS
<1>5. Inputs(clips) = s \o c /\ Maps(clips)[2][1] = n
  BY DEF Inputs, Maps, Label, SilentInput, n
<1> HIDE DEF s, c
<1>6. /\ \A k \in 1..n : (s \o c)[k] = s[k]
      /\ (s \o c)[n + 1] = c[1]
  BY <1>1, <1>3, ConcatPlaces
<1> QED BY <1>3, <1>4, <1>5, <1>6 DEF n

\* The filters of the graph before concat, by what they read and write.
FilterOf(f, clips, target, j, st) ==
    /\ f.ins = <<Reads(clips, target, j, st)>>
    /\ f.ins[1] = Reads(clips, target, j, st) /\ f.out = Label(j - 1, st)

LinkedFilters(g, m, clips, target) ==
    /\ \A k \in 1..m : \E j \in 1..Len(clips) : \E st \in Stages(clips, target, j) :
          FilterOf(g[k], clips, target, j, st)
    /\ \A j \in 1..Len(clips) : \A st \in Stages(clips, target, j) : \E k \in 1..m :
          FilterOf(g[k], clips, target, j, st)
    /\ \A k, l \in 1..m : g[k].out = g[l].out => k = l
    /\ \A k \in 1..m :
          g[k].ins[1][2] = "v" \/ \E l \in 1..(k - 1) : g[l].out = g[k].ins[1]

\* What a pipe says, of the filters of the graph.
LEMMA FiltersLinked ==
    ASSUME NEW g, NEW m \in Nat, NEW clips, NEW target,
           Pipe([k \in 1..m |-> g[k]], clips, target, 1..Len(clips)),
           Len([k \in 1..m |-> g[k]]) = m
    PROVE  LinkedFilters(g, m, clips, target)
<1> DEFINE s == [k \in 1..m |-> g[k]]
           St(j) == Stages(clips, target, j)
           R(j, st) == Reads(clips, target, j, st)
           Is(f, j, st) == f.ins = <<R(j, st)>> /\ f.out = Label(j - 1, st)
<1>1. /\ \A k \in 1..Len(s) : \E j \in 1..Len(clips) : \E st \in St(j) : Is(s[k], j, st)
      /\ \A j \in 1..Len(clips) : \A st \in St(j) : \E k \in 1..Len(s) : Is(s[k], j, st)
      /\ \A k, l \in 1..Len(s) : s[k].out = s[l].out => k = l
      /\ \A k \in 1..Len(s) :
            s[k].ins[1][2] = "v" \/ \E l \in 1..(k - 1) : s[l].out = s[k].ins[1]
  BY Zenon DEF Pipe, MadeOf, HasAll, WritesOnce, ReadsWritten
<1>2. Len(s) = m /\ \A k \in 1..m : s[k] = g[k]
  OBVIOUS
<1>3. \A k \in 1..m : \A l \in 1..(k - 1) : l \in 1..m
  OBVIOUS
<1>4. \A f, j, st : Is(f, j, st) => FilterOf(f, clips, target, j, st)
  BY DEF FilterOf
<1> HIDE DEF s, St, R, Is
<1>5. /\ \A k \in 1..m : \E j \in 1..Len(clips) : \E st \in St(j) :
            FilterOf(g[k], clips, target, j, st)
      /\ \A j \in 1..Len(clips) : \A st \in St(j) : \E k \in 1..m :
            FilterOf(g[k], clips, target, j, st)
  BY <1>1, <1>2, <1>4, Zenon
<1>6. \A k, l \in 1..m : g[k].out = g[l].out => k = l
  BY <1>1, <1>2, Zenon
<1>7. \A k \in 1..m :
         g[k].ins[1][2] = "v" \/ \E l \in 1..(k - 1) : g[l].out = g[k].ins[1]
  <2> SUFFICES ASSUME NEW k \in 1..m, g[k].ins[1][2] # "v"
               PROVE  \E l \in 1..(k - 1) : g[l].out = g[k].ins[1]
    OBVIOUS
  <2>1. s[k] = g[k] /\ k \in 1..Len(s)
    BY <1>2
  <2>2. PICK l \in 1..(k - 1) : s[l].out = s[k].ins[1]
    BY <1>1, <2>1, Zenon
  <2> QED BY <1>2, <1>3, <2>1, <2>2, Zenon
<1> QED BY <1>5, <1>6, <1>7, Zenon DEF LinkedFilters, St

\* What is read and written in the graph of a reel.  c(i) is the label of clip i
\* that concat reads.
LEMMA GraphReads ==
    ASSUME NEW clips \in Seq(Clip), NEW target, clips # <<>>
    PROVE  LET g    == BuildFilterComplex(clips, target)
               n    == Len(clips)
               m    == Len(g) - 1
               c(i) == Label(i - 1, LastStage(clips, target, i))
           IN  /\ m \in Nat /\ n \in Nat /\ n > 0 /\ Len(g) = m + 1
               /\ LinkedFilters(g, m, clips, target)
               /\ \A k \in 1..m : DOMAIN g[k].ins = {1} /\ ToSet(g[k].ins) = {g[k].ins[1]}
               /\ DOMAIN g[m + 1].ins = 1..n
               /\ \A i \in 1..n : g[m + 1].ins[i] = c(i)
               /\ ToSet(g[m + 1].ins) = {c(i) : i \in 1..n}
               /\ g[m + 1].out = OutV
<1> DEFINE g    == BuildFilterComplex(clips, target)
           n    == Len(clips)
           m    == Len(g) - 1
           c(i) == Label(i - 1, LastStage(clips, target, i))
<1>1. n \in Nat /\ n > 0
  OBVIOUS
<1>2. /\ Len(g) \in Nat /\ m \in Nat /\ Len([k \in 1..m |-> g[k]]) = m
      /\ Pipe([k \in 1..m |-> g[k]], clips, target, 1..n)
      /\ g[m + 1].ins = [i \in 1..n |-> ConcatInput(clips, target, i)]
      /\ g[m + 1].out = OutV
  BY GraphIs, Zenon
<1>3. Len(g) = m + 1
  BY <1>2
<1>4. ASSUME NEW i PROVE ConcatInput(clips, target, i) = c(i)
  BY StagesLinkUp
<1>5. g[m + 1].ins = [i \in 1..n |-> c(i)]
  BY <1>2, <1>4
<1> HIDE DEF g, n, m, c
<1>6. LinkedFilters(g, m, clips, target)
  BY <1>2, FiltersLinked, Zenon DEF n
<1>7. ASSUME NEW k \in 1..m
      PROVE  DOMAIN g[k].ins = {1} /\ ToSet(g[k].ins) = {g[k].ins[1]}
  <2>1. PICK j \in 1..Len(clips) : \E st \in Stages(clips, target, j) :
                                    FilterOf(g[k], clips, target, j, st)
    BY <1>6, Zenon DEF LinkedFilters
  <2>2. PICK x : g[k].ins = <<x>>
    BY <2>1, Zenon DEF FilterOf
  <2>3. DOMAIN <<x>> = {1} /\ <<x>>[1] = x
    OBVIOUS
  <2> QED BY <2>2, <2>3 DEF ToSet
<1>8. /\ DOMAIN g[m + 1].ins = 1..n /\ \A i \in 1..n : g[m + 1].ins[i] = c(i)
  BY <1>5
<1>9. ToSet(g[m + 1].ins) = {c(i) : i \in 1..n}
  BY <1>8 DEF ToSet
<1> QED BY <1>1, <1>2, <1>3, <1>6, <1>7, <1>8, <1>9, Zenon DEF g, n, m, c

\* The labels and the stages of the clips, as the graph links them: c(i) is
\* the label of clip i that concat reads.
ReelLinks(g, m, n, c, R, St) ==
    /\ m \in Nat /\ n \in Nat /\ n > 0
    /\ \A k \in 1..m : \E j \in 1..n : \E st \in St[j] :
          g[k].ins[1] = R[j][st] /\ g[k].out = Label(j - 1, st)
    /\ \A j \in 1..n : \A st \in St[j] : \E k \in 1..m :
          g[k].ins[1] = R[j][st] /\ g[k].out = Label(j - 1, st)
    /\ \A k, l \in 1..m : g[k].out = g[l].out => k = l
    /\ \A k \in 1..m :
          g[k].ins[1][2] = "v" \/ \E l \in 1..(k - 1) : g[l].out = g[k].ins[1]
    /\ \A i \in 1..n : g[m + 1].ins[i] = c[i]
    /\ g[m + 1].out = Label(0, "outv")
    /\ \A j \in 1..n : \E last \in St[j] :
          /\ c[j] = Label(j - 1, last)
          /\ \A st \in St[j] : st # last => \E su \in St[j] : R[j][su] = Label(j - 1, st)
          /\ \A st \in St[j] : R[j][st] # c[j]
    /\ \A j \in 1..n :
          /\ "n" \in St[j] /\ St[j] \subseteq {"n", "s", "t"}
          /\ \A st, su \in St[j] : R[j][st] = R[j][su] => st = su
          /\ \A st \in St[j] : \E x \in {"v", "n", "s"} :
                R[j][st] = Label(j - 1, x) /\ (x = "v" <=> st = "n")

\* The graph of a reel links up this way.
LEMMA GraphLinks ==
    ASSUME NEW clips \in Seq(Clip), NEW target, clips # <<>>
    PROVE  LET g == BuildFilterComplex(clips, target)
               n == Len(clips)
           IN  \E c, R, St : ReelLinks(g, Len(g) - 1, n, c, R, St)
<1> DEFINE g  == BuildFilterComplex(clips, target)
           n  == Len(clips)
           m  == Len(g) - 1
           c  == [i \in 1..n |-> Label(i - 1, LastStage(clips, target, i))]
           St == [j \in 1..n |-> Stages(clips, target, j)]
           R  == [j \in 1..n |-> [st \in St[j] |-> Reads(clips, target, j, st)]]
<1>1. /\ m \in Nat /\ n \in Nat /\ n > 0 /\ LinkedFilters(g, m, clips, target)
      /\ \A i \in 1..n : g[m + 1].ins[i] = Label(i - 1, LastStage(clips, target, i))
      /\ g[m + 1].out = OutV
  BY GraphReads, Zenon
<1>2. \A j \in 1..n :
         /\ c[j] = Label(j - 1, LastStage(clips, target, j)) /\ St[j] = Stages(clips, target, j)
         /\ \A st \in Stages(clips, target, j) : R[j][st] = Reads(clips, target, j, st)
  OBVIOUS
<1> HIDE DEF g, n, m, c, St, R
<1>3. /\ \A k \in 1..m : \E j \in 1..n : \E st \in St[j] :
            g[k].ins[1] = R[j][st] /\ g[k].out = Label(j - 1, st)
      /\ \A j \in 1..n : \A st \in St[j] : \E k \in 1..m :
            g[k].ins[1] = R[j][st] /\ g[k].out = Label(j - 1, st)
  <2>1. \A k \in 1..m : \E j \in 1..n : \E st \in Stages(clips, target, j) :
           FilterOf(g[k], clips, target, j, st)
    BY <1>1, Zenon DEF LinkedFilters, n
  <2>2. \A j \in 1..n : \A st \in Stages(clips, target, j) : \E k \in 1..m :
           FilterOf(g[k], clips, target, j, st)
    BY <1>1, Zenon DEF LinkedFilters, n
  <2>3. \A f : \A j \in 1..n : \A st \in Stages(clips, target, j) :
           FilterOf(f, clips, target, j, st) =>
              f.ins[1] = R[j][st] /\ f.out = Label(j - 1, st) /\ st \in St[j]
    BY <1>2, Zenon DEF FilterOf
  <2>4. \A j \in 1..n : \A st \in St[j] : st \in Stages(clips, target, j)
    BY <1>2, Zenon
  <2>5. \A k \in 1..m : \E j \in 1..n : \E st \in St[j] :
            g[k].ins[1] = R[j][st] /\ g[k].out = Label(j - 1, st)
    BY <2>1, <2>3, Zenon
  <2>6. \A j \in 1..n : \A st \in St[j] : \E k \in 1..m :
            g[k].ins[1] = R[j][st] /\ g[k].out = Label(j - 1, st)
    BY <2>2, <2>3, <2>4, Zenon
  <2> QED BY <2>5, <2>6
<1>4. /\ \A k, l \in 1..m : g[k].out = g[l].out => k = l
      /\ \A k \in 1..m :
            g[k].ins[1][2] = "v" \/ \E l \in 1..(k - 1) : g[l].out = g[k].ins[1]
  BY <1>1, Zenon DEF LinkedFilters
<1>5. (\A i \in 1..n : g[m + 1].ins[i] = c[i]) /\ g[m + 1].out = Label(0, "outv")
  BY <1>1, <1>2, Zenon DEF OutV
<1>6. ASSUME NEW j \in 1..n
      PROVE  /\ \E last \in St[j] :
                   /\ c[j] = Label(j - 1, last)
                   /\ \A st \in St[j] : st # last => \E su \in St[j] : R[j][su] = Label(j - 1, st)
                   /\ \A st \in St[j] : R[j][st] # c[j]
             /\ "n" \in St[j] /\ St[j] \subseteq {"n", "s", "t"}
             /\ \A st, su \in St[j] : R[j][st] = R[j][su] => st = su
             /\ \A st \in St[j] : \E x \in {"v", "n", "s"} :
                   R[j][st] = Label(j - 1, x) /\ (x = "v" <=> st = "n")
  <2> DEFINE S == Stages(clips, target, j)
             Rd(st) == Reads(clips, target, j, st)
             last == LastStage(clips, target, j)
  <2>1. /\ last \in S /\ "n" \in S /\ S \subseteq {"n", "s", "t"}
        /\ \A st \in S : st # last => \E su \in S : Rd(su) = Label(j - 1, st)
        /\ \A st, su \in S : Rd(st) = Rd(su) => st = su
        /\ \A st \in S : Rd(st) # Label(j - 1, last)
        /\ \A st \in S : \E x \in {"v", "n", "s"} :
              Rd(st) = Label(j - 1, x) /\ (x = "v" <=> st = "n")
    BY StagesLinkUp, Zenon
  <2>2. c[j] = Label(j - 1, last) /\ St[j] = S /\ \A st \in S : R[j][st] = Rd(st)
    BY <1>2
  <2> HIDE DEF S, Rd, last
  <2>3. \A st \in S : st # last => \E su \in S : R[j][su] = Label(j - 1, st)
    BY <2>1, <2>2
  <2>4. \A st, su \in S : R[j][st] = R[j][su] => st = su
    BY <2>1, <2>2
  <2>5. \A st \in S : R[j][st] # c[j]
    BY <2>1, <2>2
  <2>6. \A st \in S : \E x \in {"v", "n", "s"} :
              R[j][st] = Label(j - 1, x) /\ (x = "v" <=> st = "n")
    BY <2>1, <2>2
  <2>7. "n" \in S /\ S \subseteq {"n", "s", "t"} /\ last \in S
    BY <2>1
  <2> QED BY <2>2, <2>3, <2>4, <2>5, <2>6, <2>7, Zenon
<1>7. ReelLinks(g, m, n, c, R, St)
  BY <1>1, <1>3, <1>4, <1>5, <1>6, Zenon DEF ReelLinks
<1> QED BY <1>7, Zenon DEF g, n, m

\* So every label that is read is read once, and was written before or is the
\* video of a clip; and every label that is written, but the last, is read.
LEMMA LinksAreOne ==
    ASSUME NEW g, NEW m, NEW n, NEW c, NEW R, NEW St, ReelLinks(g, m, n, c, R, St)
    PROVE  LET in(k) == g[k].ins[1]
               IsRead(l) == (\E k \in 1..m : in(k) = l) \/ \E i \in 1..n : c[i] = l
           IN  /\ \A k \in 1..m :
                     IF in(k)[2] = "v" THEN in(k)[1] + 1 \in 1..n
                     ELSE \E l \in 1..(k - 1) : g[l].out = in(k)
               /\ \A i \in 1..n : c[i][2] # "v" /\ c[i][1] = i - 1
                                  /\ \E l \in 1..m : g[l].out = c[i]
               /\ \A j, k \in 1..m : in(j) = in(k) => j = k
               /\ \A j \in 1..m : \A i \in 1..n : in(j) # c[i]
               /\ \A j \in 1..m : g[j].out # Label(0, "outv") /\ IsRead(g[j].out)
               /\ ~IsRead(Label(0, "outv"))
               /\ \A l : IsRead(l) /\ l[2] = "v" => \E i \in 1..n : l = Label(i - 1, "v")
               /\ \A i \in 1..n : IsRead(Label(i - 1, "v"))
               /\ \A k \in 1..m : in(k)[1] = g[k].out[1]
<1> DEFINE in(k) == g[k].ins[1]
           own(j, st) == Label(j - 1, st)
           IsRead(l) == (\E k \in 1..m : in(k) = l) \/ \E i \in 1..n : c[i] = l
<1>1. /\ m \in Nat /\ n \in Nat /\ n > 0
      /\ \A k \in 1..m : \E j \in 1..n : \E st \in St[j] : in(k) = R[j][st] /\ g[k].out = own(j, st)
      /\ \A j \in 1..n : \A st \in St[j] : \E k \in 1..m : in(k) = R[j][st] /\ g[k].out = own(j, st)
  BY Zenon DEF ReelLinks
<1>2. /\ \A k, l \in 1..m : g[k].out = g[l].out => k = l
      /\ \A k \in 1..m : in(k)[2] = "v" \/ \E l \in 1..(k - 1) : g[l].out = in(k)
  BY Zenon DEF ReelLinks
<1>3. \A j \in 1..n : \E last \in St[j] :
          /\ c[j] = own(j, last)
          /\ \A st \in St[j] : st # last => \E su \in St[j] : R[j][su] = own(j, st)
          /\ \A st \in St[j] : R[j][st] # c[j]
  BY Zenon DEF ReelLinks
<1>4. \A j \in 1..n :
          /\ "n" \in St[j] /\ St[j] \subseteq {"n", "s", "t"}
          /\ \A st, su \in St[j] : R[j][st] = R[j][su] => st = su
          /\ \A st \in St[j] : \E x \in {"v", "n", "s"} :
                R[j][st] = own(j, x) /\ (x = "v" <=> st = "n")
  BY Zenon DEF ReelLinks
<1>5. /\ \A j \in 1..n : \A a : own(j, a)[1] = j - 1 /\ own(j, a)[2] = a
      /\ \A j, k \in 1..n : \A a, b : own(j, a) = own(k, b) => j = k /\ a = b
  <2>1. \A j \in 1..n : j \in Nat
    BY <1>1
  <2> QED BY <2>1, LabelOf
<1>6. ASSUME NEW j \in 1..n, NEW a \in {"v", "n", "s", "t"} PROVE own(j, a) # Label(0, "outv")
  <2>1. own(j, a) = Label(0, "outv") => a = "outv"
    BY LabelsDiffer
  <2> QED BY <2>1
<1> DEFINE out0 == Label(0, "outv")
<1> HIDE DEF own, out0
\* What a filter reads is of its own clip.
<1>7. \A k \in 1..m : \E j \in 1..n : \E st \in St[j] : \E x \in {"v", "n", "s"} :
         /\ in(k) = R[j][st] /\ g[k].out = own(j, st)
         /\ in(k) = own(j, x) /\ (x = "v" <=> st = "n")
  <2> SUFFICES ASSUME NEW k \in 1..m
               PROVE  \E j \in 1..n : \E st \in St[j] : \E x \in {"v", "n", "s"} :
                         /\ in(k) = R[j][st] /\ g[k].out = own(j, st)
                         /\ in(k) = own(j, x) /\ (x = "v" <=> st = "n")
    OBVIOUS
  <2>1. PICK j \in 1..n : \E st \in St[j] : in(k) = R[j][st] /\ g[k].out = own(j, st)
    BY <1>1, Zenon
  <2>2. PICK st \in St[j] : in(k) = R[j][st] /\ g[k].out = own(j, st)
    BY <2>1, Zenon
  <2>3. PICK x \in {"v", "n", "s"} : R[j][st] = own(j, x) /\ (x = "v" <=> st = "n")
    BY <1>4, Zenon
  <2>4. in(k) = own(j, x)
    BY <2>2, <2>3, Zenon
  <2> QED BY <2>2, <2>3, <2>4, Zenon
<1>8. \A i \in 1..n : \E last \in St[i] \cap {"n", "s", "t"} : c[i] = own(i, last)
  BY <1>3, <1>4
<1> HIDE DEF in
<1>9. ASSUME NEW k \in 1..m
      PROVE  IF in(k)[2] = "v" THEN in(k)[1] + 1 \in 1..n
             ELSE \E l \in 1..(k - 1) : g[l].out = in(k)
  <2>1. PICK j \in 1..n : \E x : in(k) = own(j, x)
    BY <1>7, Zenon
  <2>2. in(k)[1] = j - 1
    BY <1>5, <2>1, Zenon
  <2>3. in(k)[1] + 1 \in 1..n
    BY <1>1, <2>2
  <2> QED BY <1>2, <2>3, Zenon
<1>10. ASSUME NEW i \in 1..n
       PROVE  c[i][2] # "v" /\ c[i][1] = i - 1 /\ \E l \in 1..m : g[l].out = c[i]
  <2>1. PICK last \in St[i] \cap {"n", "s", "t"} : c[i] = own(i, last)
    BY <1>8, Zenon
  <2>2. c[i][1] = i - 1 /\ c[i][2] = last
    <3>1. own(i, last)[1] = i - 1 /\ own(i, last)[2] = last
      BY <1>5, Zenon
    <3> QED BY <2>1, <3>1
  <2>3. last \in St[i] /\ last # "v"
    <3>1. last \in {"n", "s", "t"}
      OBVIOUS
    <3>2. last = "n" \/ last = "s" \/ last = "t"
      BY <3>1
    <3> QED BY <3>2
  <2>4. \E l \in 1..m : g[l].out = c[i]
    BY <1>1, <2>1, <2>3
  <2> QED BY <2>2, <2>3, <2>4, Zenon
<1>11. ASSUME NEW j \in 1..m, NEW k \in 1..m, in(j) = in(k) PROVE j = k
  <2>1. PICK a \in 1..n : \E st \in St[a] : \E x :
           in(j) = R[a][st] /\ g[j].out = own(a, st) /\ in(j) = own(a, x)
    <3>1. PICK a \in 1..n : \E st \in St[a] : \E x \in {"v", "n", "s"} :
             /\ in(j) = R[a][st] /\ g[j].out = own(a, st)
             /\ in(j) = own(a, x) /\ (x = "v" <=> st = "n")
      BY <1>7, Zenon
    <3> QED BY <3>1, Zenon
  <2>2. PICK st \in St[a] : \E x :
           in(j) = R[a][st] /\ g[j].out = own(a, st) /\ in(j) = own(a, x)
    BY <2>1, Zenon
  <2>3. PICK b \in 1..n : \E su \in St[b] : \E x :
           in(k) = R[b][su] /\ g[k].out = own(b, su) /\ in(k) = own(b, x)
    <3>1. PICK b \in 1..n : \E su \in St[b] : \E x \in {"v", "n", "s"} :
             /\ in(k) = R[b][su] /\ g[k].out = own(b, su)
             /\ in(k) = own(b, x) /\ (x = "v" <=> su = "n")
      BY <1>7, Zenon
    <3> QED BY <3>1, Zenon
  <2>4. PICK su \in St[b] : \E x :
           in(k) = R[b][su] /\ g[k].out = own(b, su) /\ in(k) = own(b, x)
    BY <2>3, Zenon
  <2>5. a = b
    <3>1. \A x, y : own(a, x) = own(b, y) => a = b
      BY <1>5, Zenon
    <3> QED BY <1>11, <2>2, <2>4, <3>1, Zenon
  <2>6. st = su
    <3>1. R[a][st] = R[a][su] /\ su \in St[a]
      BY <1>11, <2>2, <2>4, <2>5, Zenon
    <3> QED BY <1>4, <3>1, Zenon
  <2> QED BY <1>2, <2>2, <2>4, <2>5, <2>6, Zenon
<1>12. ASSUME NEW j \in 1..m, NEW i \in 1..n PROVE in(j) # c[i]
  <2>1. PICK a \in 1..n : \E st \in St[a] : \E x : in(j) = R[a][st] /\ in(j) = own(a, x)
    BY <1>7, Zenon
  <2>2. PICK st \in St[a] : \E x : in(j) = R[a][st] /\ in(j) = own(a, x)
    BY <2>1, Zenon
  <2>3. \E y : c[i] = own(i, y)
    BY <1>8, Zenon
  <2>4. in(j) = c[i] => a = i
    <3>1. \A x, y : own(a, x) = own(i, y) => a = i
      BY <1>5, Zenon
    <3> QED BY <2>2, <2>3, <3>1, Zenon
  <2>5. R[a][st] # c[a]
    BY <1>3, Zenon
  <2> QED BY <2>2, <2>4, <2>5, Zenon
<1>13. ASSUME NEW j \in 1..m PROVE g[j].out # out0 /\ IsRead(g[j].out)
  <2>1. PICK a \in 1..n : \E st \in St[a] : g[j].out = own(a, st)
    BY <1>7, Zenon
  <2>2. PICK st \in St[a] : g[j].out = own(a, st)
    BY <2>1, Zenon
  <2>3. st \in {"v", "n", "s", "t"}
    BY <1>4, <2>2
  <2>4. g[j].out # out0
    BY <1>6, <2>2, <2>3, Zenon DEF out0
  <2>5. PICK last \in St[a] :
          /\ c[a] = own(a, last)
          /\ \A su \in St[a] : su # last => \E sv \in St[a] : R[a][sv] = own(a, su)
    BY <1>3, Zenon
  <2>6. CASE st = last
    BY <2>2, <2>4, <2>5, <2>6, Zenon DEF IsRead
  <2>7. CASE st # last
    <3>1. PICK sv \in St[a] : R[a][sv] = own(a, st)
      BY <2>5, <2>7, Zenon
    <3>2. PICK k \in 1..m : in(k) = R[a][sv]
      BY <1>1, Zenon DEF in
    <3> QED BY <2>2, <2>4, <3>1, <3>2, Zenon
  <2> QED BY <2>4, <2>6, <2>7, Zenon
<1>14. ~IsRead(out0)
  <2>1. \A k \in 1..m : in(k) # out0
    <3>1. \A k \in 1..m : \E j \in 1..n : \E x \in {"v", "n", "s"} : in(k) = own(j, x)
      BY <1>7, Zenon
    <3>2. \A j \in 1..n : \A x \in {"v", "n", "s"} : own(j, x) # out0
      BY <1>6, Zenon DEF out0
    <3> QED BY <3>1, <3>2, Zenon
  <2>2. \A i \in 1..n : c[i] # out0
    BY <1>6, <1>8, Zenon DEF out0
  <2> QED BY <2>1, <2>2, Zenon
<1>15. ASSUME NEW l, IsRead(l), l[2] = "v" PROVE \E i \in 1..n : l = own(i, "v")
  <2>1. \A i \in 1..n : c[i] # l
    BY <1>10, <1>15, Zenon
  <2>2. PICK k \in 1..m : in(k) = l
    BY <1>15, <2>1, Zenon
  <2>3. PICK j \in 1..n : \E x : in(k) = own(j, x)
    BY <1>7, Zenon
  <2>4. PICK x : in(k) = own(j, x)
    BY <2>3, Zenon
  <2>5. x = "v"
    BY <1>5, <1>15, <2>2, <2>4, Zenon
  <2> QED BY <2>2, <2>4, <2>5, Zenon
<1>16. ASSUME NEW i \in 1..n PROVE IsRead(own(i, "v"))
  <2>1. PICK x \in {"v", "n", "s"} : R[i]["n"] = own(i, x) /\ x = "v"
    BY <1>4, Zenon
  <2>2. PICK k \in 1..m : in(k) = R[i]["n"]
    BY <1>1, <1>4 DEF in
  <2> QED BY <2>1, <2>2, Zenon
<1>17. ASSUME NEW k \in 1..m PROVE in(k)[1] = g[k].out[1]
  <2>1. PICK j \in 1..n : \E st \in St[j] : \E x \in {"v", "n", "s"} :
           /\ in(k) = R[j][st] /\ g[k].out = own(j, st)
           /\ in(k) = own(j, x) /\ (x = "v" <=> st = "n")
    BY <1>7, Zenon
  <2>2. PICK st \in St[j] : \E x \in {"v", "n", "s"} : g[k].out = own(j, st) /\ in(k) = own(j, x)
    BY <2>1, Zenon
  <2>3. g[k].out[1] = j - 1 /\ in(k)[1] = j - 1
    BY <1>5, <2>2, Zenon
  <2> QED BY <2>3
<1> QED BY <1>9, <1>10, <1>11, <1>12, <1>13, <1>14, <1>15, <1>16, <1>17, Zenon
        DEF in, own, out0

\* What GraphLinksUp says of one call.
LinksUp(clips, target) ==
    LET g      == BuildFilterComplex(clips, target)
        reads  == UNION {ToSet(g[k].ins) : k \in 1..Len(g)}
        source(l) == l[2] = "v"
        earlier(k) == {g[j].out : j \in 1..(k - 1)}
    IN  /\ \A k \in 1..Len(g) : \A l \in ToSet(g[k].ins) :
              IF source(l) THEN Inputs(clips)[l[1] + 1] = "clip" ELSE l \in earlier(k)
        /\ \A j, k \in 1..Len(g) : \A a \in DOMAIN g[j].ins, b \in DOMAIN g[k].ins :
              g[j].ins[a] = g[k].ins[b] => j = k /\ a = b
        /\ IsInjective([k \in 1..Len(g) |-> g[k].out])
        /\ {g[k].out : k \in 1..Len(g)} \ reads = {OutV}
        /\ {l \in reads : source(l)} = {Label(i - 1, "v") : i \in 1..Len(clips)}
        /\ [i \in 1..Len(clips) |-> Last(g).ins[i][1]] = [i \in 1..Len(clips) |-> i - 1]
        /\ \A k \in 1..(Len(g) - 1) : g[k].ins[1][1] = g[k].out[1]
        /\ Inputs(clips)[Maps(clips)[2][1] + 1] = "silence"

\* It holds for the graph of every reel.
LEMMA ReelLinksUp ==
    ASSUME NEW clips \in Seq(Clip), NEW target, clips # <<>>
    PROVE  LinksUp(clips, target)
<1> DEFINE g     == BuildFilterComplex(clips, target)
           n     == Len(clips)
           m     == Len(g) - 1
           in(k) == g[k].ins[1]
           all   == 1..Len(g)
           reads == UNION {ToSet(g[k].ins) : k \in all}
           source(l) == l[2] = "v"
           earlier(k) == {g[j].out : j \in 1..(k - 1)}
<1>1. PICK c, R, St : ReelLinks(g, m, n, c, R, St)
  BY GraphLinks, Zenon
<1>2. /\ m \in Nat /\ n \in Nat /\ n > 0 /\ Len(g) = m + 1
      /\ \A k \in 1..m : DOMAIN g[k].ins = {1} /\ ToSet(g[k].ins) = {g[k].ins[1]}
      /\ DOMAIN g[m + 1].ins = 1..n
      /\ g[m + 1].out = OutV
  BY GraphReads, Zenon
<1>3. \A i \in 1..n : g[m + 1].ins[i] = c[i]
  BY <1>1, Zenon DEF ReelLinks
<1>4. \A k, l \in 1..m : g[k].out = g[l].out => k = l
  BY <1>1, Zenon DEF ReelLinks
<1> DEFINE IsRead(l) == (\E k \in 1..m : in(k) = l) \/ \E i \in 1..n : c[i] = l
           silence == Inputs(clips)[Maps(clips)[2][1] + 1]
<1>5. (\A i \in 1..n : Inputs(clips)[i] = "clip") /\ silence = "silence"
  BY InputsAre, Zenon
<1>6. \A i \in 1..n : source(Label(i - 1, "v"))
  BY LabelOf DEF n
<1>7. Last(g) = g[m + 1]
  BY <1>2 DEF Last
<1> HIDE DEF g, n, m
<1>8. /\ \A k \in 1..m :
            IF source(in(k)) THEN in(k)[1] + 1 \in 1..n
            ELSE \E l \in 1..(k - 1) : g[l].out = in(k)
      /\ \A i \in 1..n : ~source(c[i]) /\ c[i][1] = i - 1 /\ \E l \in 1..m : g[l].out = c[i]
      /\ \A j, k \in 1..m : in(j) = in(k) => j = k
      /\ \A j \in 1..m : \A i \in 1..n : in(j) # c[i]
      /\ \A j \in 1..m : g[j].out # OutV /\ IsRead(g[j].out)
      /\ ~IsRead(OutV)
      /\ \A l : IsRead(l) /\ source(l) => \E i \in 1..n : l = Label(i - 1, "v")
      /\ \A i \in 1..n : IsRead(Label(i - 1, "v"))
      /\ \A k \in 1..m : in(k)[1] = g[k].out[1]
  BY <1>1, LinksAreOne, Zenon DEF OutV
<1>9. \A i, j \in 1..n : c[i] = c[j] => i = j
  <2>1. \A i, j \in 1..n : c[i] = c[j] => i - 1 = j - 1
    BY <1>8
  <2> QED BY <1>2, <2>1
<1>10. all = 1..m \cup {m + 1} /\ \A k \in 1..m : k # m + 1
  BY <1>2
<1>11. ToSet(g[m + 1].ins) = {c[i] : i \in 1..n}
  BY <1>2, <1>3 DEF ToSet
<1> HIDE DEF all, source, in, silence
<1>12. \A l : l \in reads <=> IsRead(l)
  <2> SUFFICES ASSUME NEW l PROVE l \in reads <=> IsRead(l)
    OBVIOUS
  <2>1. l \in reads <=> \E k \in all : l \in ToSet(g[k].ins)
    OBVIOUS
  <2>2. \A k \in 1..m : l \in ToSet(g[k].ins) <=> in(k) = l
    BY <1>2 DEF in
  <2>3. l \in ToSet(g[m + 1].ins) <=> \E i \in 1..n : c[i] = l
    BY <1>11
  <2> HIDE DEF reads
  <2>4. (\E k \in all : l \in ToSet(g[k].ins))
           <=> (\E k \in 1..m : l \in ToSet(g[k].ins)) \/ l \in ToSet(g[m + 1].ins)
    BY <1>10, Zenon
  <2> QED BY <2>1, <2>2, <2>3, <2>4, Zenon
<1> HIDE DEF reads
<1>13. ASSUME NEW k \in all, NEW l \in ToSet(g[k].ins)
       PROVE  IF source(l) THEN Inputs(clips)[l[1] + 1] = "clip" ELSE l \in earlier(k)
  <2>1. CASE k \in 1..m
    <3>1. l = in(k)
      BY <1>2, <2>1 DEF in
    <3>2. IF source(l) THEN l[1] + 1 \in 1..n ELSE \E x \in 1..(k - 1) : g[x].out = l
      BY <1>8, <2>1, <3>1, Zenon
    <3> QED BY <1>5, <3>2
  <2>2. CASE k = m + 1
    <3>1. PICK i \in 1..n : l = c[i]
      BY <1>11, <2>2, Zenon
    <3>2. PICK x \in 1..m : g[x].out = l
      BY <1>8, <3>1, Zenon
    <3>3. k - 1 = m /\ ~source(l)
      BY <1>2, <1>8, <2>2, <3>1
    <3> QED BY <3>2, <3>3
  <2> QED BY <1>10, <2>1, <2>2
<1>14. ASSUME NEW j \in all, NEW k \in all, NEW a \in DOMAIN g[j].ins, NEW b \in DOMAIN g[k].ins,
              g[j].ins[a] = g[k].ins[b]
       PROVE  j = k /\ a = b
  <2>1. \A x \in 1..m : DOMAIN g[x].ins = {1}
    BY <1>2, Zenon
  <2>2. CASE j \in 1..m /\ k \in 1..m
    <3>1. a = 1 /\ b = 1
      BY <2>1, <2>2
    <3> QED BY <1>8, <1>14, <2>2, <3>1 DEF in
  <2>3. CASE j \in 1..m /\ k = m + 1
    <3>1. a = 1 /\ b \in 1..n
      BY <1>2, <2>1, <2>3
    <3>2. in(j) = c[b]
      BY <1>3, <1>14, <2>3, <3>1 DEF in
    <3> QED BY <1>8, <2>3, <3>1, <3>2, Zenon
  <2>4. CASE j = m + 1 /\ k \in 1..m
    <3>1. b = 1 /\ a \in 1..n
      BY <1>2, <2>1, <2>4
    <3>2. in(k) = c[a]
      BY <1>3, <1>14, <2>4, <3>1 DEF in
    <3> QED BY <1>8, <2>4, <3>1, <3>2, Zenon
  <2>5. CASE j = m + 1 /\ k = m + 1
    <3>1. a \in 1..n /\ b \in 1..n
      BY <1>2, <2>5
    <3> QED BY <1>3, <1>9, <1>14, <2>5, <3>1
  <2> QED BY <1>10, <2>2, <2>3, <2>4, <2>5
<1>15. IsInjective([k \in all |-> g[k].out])
  <2>1. \A j, k \in all : g[j].out = g[k].out => j = k
    BY <1>2, <1>4, <1>8, <1>10
  <2> QED BY <2>1 DEF IsInjective
<1>16. {g[k].out : k \in all} \ reads = {OutV}
  <2>1. \A k \in 1..m : g[k].out \in reads
    BY <1>8, <1>12, Zenon
  <2>2. OutV \notin reads
    BY <1>8, <1>12, Zenon
  <2> QED BY <1>2, <1>10, <2>1, <2>2
<1>17. {l \in reads : source(l)} = {Label(i - 1, "v") : i \in 1..n}
  <2>1. ASSUME NEW l \in reads, source(l) PROVE \E i \in 1..n : l = Label(i - 1, "v")
    BY <1>8, <1>12, <2>1, Zenon
  <2>2. \A i \in 1..n : Label(i - 1, "v") \in reads /\ source(Label(i - 1, "v"))
    BY <1>8, <1>6, <1>12, Zenon
  <2> QED BY <2>1, <2>2
<1>18. [i \in 1..n |-> Last(g).ins[i][1]] = [i \in 1..n |-> i - 1]
  BY <1>3, <1>8, <1>7
<1>19. \A k \in 1..(Len(g) - 1) : g[k].ins[1][1] = g[k].out[1]
  <2>1. Len(g) - 1 = m
    BY <1>2
  <2> QED BY <1>8, <2>1, Zenon DEF in
<1>20. silence = "silence"
  BY <1>5
<1> QED BY <1>13, <1>14, <1>15, <1>16, <1>17, <1>18, <1>19, <1>20, Zenon
        DEF LinksUp, g, n, all, reads, source, silence

\* In the graph of every reel, of any number of clips, each label is read by
\* exactly one filter and after it was written, only the video that is mapped
\* is left over, and the clips are joined in their order (build_filter_complex).
THEOREM GraphsLinkUp == Spec => []GraphLinksUp
<1>1. CallTypeOK => GraphLinksUp
  <2> SUFFICES ASSUME CallTypeOK, call.fn = "build_filter_complex" PROVE GraphLinksUp
    BY DEF GraphLinksUp
  <2>1. call.clips \in Seq(Clip) /\ call.clips # <<>>
    BY Zenon DEF CallTypeOK
  <2>2. LinksUp(call.clips, call.target)
    BY <2>1, ReelLinksUp
  <2> QED BY <2>2, Zenon DEF GraphLinksUp, LinksUp
<1> QED BY <1>1, CallsAreTyped, PTL
=============================================================================
