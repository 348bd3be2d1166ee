---------------------------- MODULE PageTreeProofs ----------------------------
(***************************************************************************)
(* Whatever tree without a cycle a file has and whatever counts it states, *)
(* the corrections of pdf_getpagecount survive every flush, because the    *)
(* objects they are made in are kept by the references it resolved; and    *)
(* then each page opened is the one asked for, with its nearest box.       *)
(*                                                                         *)
(* The functions that count, read and search a tree are recursive.  That   *)
(* they have the values their bodies say is proved here once, for any      *)
(* well-founded relation and for folds over sequences; then each is taken  *)
(* from the kids of a node to the node.                                    *)
(***************************************************************************)
EXTENDS PageTree, TLAPS, NaturalsInduction, WellFoundedInduction, FiniteSetTheorems
-----------------------------------------------------------------------------
(* Recursive functions have a solution where the recursion is well-founded.  *)

(* A nonempty set of naturals has a least member.                            *)
LEMMA LeastOf ==
  ASSUME NEW S \in SUBSET Nat, S # {}
  PROVE  \E x \in S : \A y \in S : x <= y
<1>1. IsWellFoundedOn(OpToRel(<, Nat), Nat)
  BY NatLessThanWellFounded
<1>2. PICK x \in S : \A y \in S : ~(<<y, x>> \in OpToRel(<, Nat))
  BY <1>1, WFMin
<1>3. \A y \in S : ~(y < x)
  BY <1>2 DEF OpToRel
<1> QED
  BY <1>3

(* A set with 0 and the number after each member holds all numbers.          *)
LEMMA UpTo ==
  ASSUME NEW m \in Nat, NEW S, 0 \in S, \A i \in 1 .. m : i - 1 \in S => i \in S
  PROVE  0 .. m \subseteq S
<1> DEFINE Out == (0 .. m) \ S
<1> SUFFICES ASSUME Out # {} PROVE FALSE
  OBVIOUS
<1>1. PICK x \in Out : \A y \in Out : x <= y
  <2>1. Out \in SUBSET Nat
    OBVIOUS
  <2> HIDE DEF Out
  <2> QED
    BY <2>1, LeastOf
<1>2. x # 0 /\ x \in 1 .. m /\ x - 1 \in 0 .. m
  OBVIOUS
<1>3. x - 1 \in S
  BY <1>1, <1>2
<1> QED
  BY <1>2, <1>3

Before(R, S, n) == \A m \in S : <<m, n>> \notin R
Founded(R, N) == \A S \in SUBSET N : S # {} => \E n \in S : Before(R, S, n)
Total(N, V) == [N -> V]
Bodies(N, V) == [N -> [Total(N, V) -> V]]
Local(B, R, N, V) ==
  \A n \in N : \A f, g \in Total(N, V) :
    (\A m \in N : <<m, n>> \in R => f[m] = g[m]) => B[n][f] = B[n][g]
Down(R, N, D) == D \in SUBSET N /\ \A n \in D : \A m \in N : <<m, n>> \in R => m \in D
Solves(B, R, N, V, D, f) ==
  /\ Down(R, N, D) /\ f \in [N -> V] /\ \A n \in D : f[n] = B[n][f]

(* A body looks at the values below only.                                    *)
LEMMA LocalValue ==
  ASSUME NEW N, NEW V, NEW R, NEW B, Local(B, R, N, V), NEW n \in N,
         NEW f \in Total(N, V), NEW g \in Total(N, V), \A m \in N : <<m, n>> \in R => f[m] = g[m]
  PROVE  B[n][f] = B[n][g]
BY DEF Local

(* Partial solutions agree where both are one.                               *)
LEMMA SolutionsAgree ==
  ASSUME NEW N, NEW V, NEW R, NEW B, Founded(R, N), Local(B, R, N, V),
         NEW D, NEW E, NEW f, NEW g, Solves(B, R, N, V, D, f), Solves(B, R, N, V, E, g)
  PROVE  \A n \in D \cap E : f[n] = g[n]
<1> DEFINE S == {n \in D \cap E : f[n] # g[n]}
<1> SUFFICES ASSUME S # {} PROVE FALSE
  OBVIOUS
<1>1. S \in SUBSET N
  BY DEF Solves, Down
<1>2. PICK n \in S : Before(R, S, n)
  BY <1>1 DEF Founded
<1>3. ASSUME NEW m \in N, <<m, n>> \in R
      PROVE  f[m] = g[m]
  <2>1. m \in D /\ m \in E
    BY <1>2, <1>3 DEF Solves, Down
  <2>2. m \notin S
    BY <1>2, <1>3 DEF Before
  <2> QED
    BY <2>1, <2>2
<1>4. n \in N /\ f \in [N -> V] /\ g \in [N -> V]
  BY <1>1, <1>2 DEF Solves
<1>5. B[n][f] = B[n][g]
  BY <1>3, <1>4 DEF Local, Total
<1>6. f[n] = B[n][f] /\ g[n] = B[n][g]
  BY <1>2 DEF Solves
<1> QED
  BY <1>2, <1>5, <1>6

(* Where every body looks down, some function has the values of its bodies.  *)
LEMMA Solution ==
  ASSUME NEW N, NEW V, NEW v0 \in V, NEW R, NEW B \in Bodies(N, V),
         Founded(R, N), Local(B, R, N, V)
  PROVE  \E f \in Total(N, V) : \A n \in N : f[n] = B[n][f]
<1> DEFINE Good == {n \in N : \E D, f : n \in D /\ Solves(B, R, N, V, D, f)}
           Value(n, v) == \E D, f : n \in D /\ Solves(B, R, N, V, D, f) /\ v = f[n]
           val == [n \in N |-> IF n \in Good THEN CHOOSE v : Value(n, v) ELSE v0]
<1>1. ASSUME NEW D, NEW f, Solves(B, R, N, V, D, f), NEW n \in D
      PROVE  n \in Good /\ val[n] = f[n]
  <2>1. n \in N
    BY <1>1 DEF Solves, Down
  <2>2. n \in Good
    BY <1>1, <2>1
  <2>3. Value(n, f[n])
    BY <1>1
  <2>4. Value(n, CHOOSE v : Value(n, v))
    BY <2>3
  <2>5. PICK E, g : n \in E /\ Solves(B, R, N, V, E, g) /\ (CHOOSE v : Value(n, v)) = g[n]
    BY <2>4
  <2>6. n \in D \cap E
    BY <1>1, <2>5
  <2>7. f[n] = g[n]
    BY <1>1, <2>5, <2>6, SolutionsAgree
  <2>8. val[n] = CHOOSE v : Value(n, v)
    BY <2>1, <2>2
  <2> QED
    BY <2>2, <2>5, <2>7, <2>8
<1>2. val \in [N -> V]
  <2> SUFFICES ASSUME NEW n \in N PROVE val[n] \in V
    OBVIOUS
  <2>1. CASE n \in Good
    <3>1. PICK D, f : n \in D /\ Solves(B, R, N, V, D, f)
      BY <2>1
    <3>2. val[n] = f[n]
      <4> HIDE DEF val, Good, Value
      <4> QED
        BY <1>1, <3>1
    <3>3. f[n] \in V
      BY <3>1 DEF Solves
    <3> QED
      BY <3>2, <3>3
  <2>2. CASE n \notin Good
    BY <2>2
  <2> QED
    BY <2>1, <2>2
<1>3. \A n \in Good : \E D, f : n \in D /\ Solves(B, R, N, V, D, f)
  OBVIOUS
<1>4. Good \in SUBSET N
  OBVIOUS
<1> HIDE DEF Good, val, Value
<1>5. ASSUME NEW n \in Good
      PROVE  val[n] = B[n][val] /\ \A m \in N : <<m, n>> \in R => m \in Good
  <2>1. PICK D, f : n \in D /\ Solves(B, R, N, V, D, f)
    BY <1>3
  <2>2. ASSUME NEW m \in N, <<m, n>> \in R
        PROVE  m \in Good /\ val[m] = f[m]
    <3>1. m \in D
      BY <2>1, <2>2 DEF Solves, Down
    <3> QED
      BY <1>1, <2>1, <3>1
  <2>3. B[n][val] = B[n][f]
    <3>1. f \in Total(N, V) /\ val \in Total(N, V)
      BY <1>2, <2>1 DEF Total, Solves
    <3> QED
      BY <1>4, <2>2, <3>1, LocalValue
  <2>4. val[n] = f[n] /\ f[n] = B[n][f]
    BY <1>1, <2>1 DEF Solves
  <2> QED
    BY <2>2, <2>3, <2>4
<1>6. Good = N
  <2> DEFINE S == N \ Good
  <2> SUFFICES ASSUME S # {} PROVE FALSE
    BY <1>4
  <2>1. PICK n \in S : Before(R, S, n)
    BY DEF Founded
  <2>2. n \in N /\ n \notin Good
    BY <2>1
  <2>3. \A m \in N : <<m, n>> \in R => m \in Good
    BY <2>1 DEF Before
  <2> DEFINE h == [val EXCEPT ![n] = B[n][val]]
             D == Good \cup {n}
  <2>4. h \in [N -> V] /\ h[n] = B[n][val] /\ \A m \in Good : h[m] = val[m]
    <3>1. B[n][val] \in V
      BY <1>2, <2>2 DEF Bodies, Total
    <3> QED
      BY <1>2, <1>4, <2>2, <3>1
  <2> HIDE DEF h
  <2>5. B[n][h] = B[n][val]
    <3>1. \A m \in N : <<m, n>> \in R => h[m] = val[m]
      BY <2>3, <2>4
    <3>2. h \in Total(N, V) /\ val \in Total(N, V)
      BY <1>2, <2>4 DEF Total
    <3> QED
      BY <2>2, <3>1, <3>2, LocalValue
  <2>6. ASSUME NEW m \in Good
        PROVE  B[m][h] = B[m][val]
    <3>1. m \in N /\ \A k \in N : <<k, m>> \in R => h[k] = val[k]
      BY <1>4, <1>5, <2>4
    <3>2. h \in Total(N, V) /\ val \in Total(N, V)
      BY <1>2, <2>4 DEF Total
    <3> QED
      BY <3>1, <3>2, LocalValue
  <2>7. \A m \in D : h[m] = B[m][h]
    BY <1>5, <2>4, <2>5, <2>6
  <2>8. Down(R, N, D)
    BY <1>4, <1>5, <2>2, <2>3 DEF Down
  <2>9. Solves(B, R, N, V, D, h)
    BY <2>4, <2>7, <2>8 DEF Solves
  <2>10. n \in D
    OBVIOUS
  <2> QED
    BY <1>1, <2>2, <2>9, <2>10
<1>7. val \in Total(N, V)
  BY <1>2 DEF Total
<1> QED
  BY <1>5, <1>6, <1>7
-----------------------------------------------------------------------------
(* Folds over a sequence, step by step.                                      *)

(* The maximum of a nonempty set of numbers is its largest.                  *)
LEMMA MaxOf ==
  ASSUME NEW n \in Nat, NEW S \in SUBSET (1 .. n), S # {}
  PROVE  Max(S) \in S /\ \A y \in S : y <= Max(S)
<1> DEFINE T == {n - x : x \in S}
<1>1. T \in SUBSET Nat /\ T # {}
  <2>1. \A x \in S : x \in 1 .. n /\ n - x \in Nat
    OBVIOUS
  <2>2. PICK x \in S : TRUE
    OBVIOUS
  <2> QED
    BY <2>1, <2>2
<1>2. PICK z \in T : \A y \in T : z <= y
  <2> HIDE DEF T
  <2> QED
    BY <1>1, LeastOf
<1>3. PICK x \in S : z = n - x
  OBVIOUS
<1>4. \A y \in S : x >= y
  <2> SUFFICES ASSUME NEW y \in S PROVE x >= y
    OBVIOUS
  <2>1. z <= n - y
    BY <1>2
  <2> QED
    BY <1>3, <2>1
<1>5. \E x1 \in S : \A y \in S : x1 >= y
  BY <1>4
<1>6. Max(S) \in S /\ \A y \in S : Max(S) >= y
  BY <1>5 DEF Max
<1> QED
  BY <1>6

(* The numbers up to i are those up to the one before, and i.                *)
LEMMA MaxUpTo ==
  ASSUME NEW n \in Nat, NEW i \in 1 .. n
  PROVE  /\ 1 .. i # {} /\ 1 .. i \in SUBSET (1 .. n)
         /\ Max(1 .. i) = i /\ (1 .. i) \ {i} = 1 .. (i - 1)
<1>1. 1 .. i # {} /\ 1 .. i \in SUBSET (1 .. n) /\ i \in 1 .. i
  OBVIOUS
<1>2. Max(1 .. i) \in 1 .. i /\ i <= Max(1 .. i)
  BY <1>1, MaxOf
<1> QED
  BY <1>1, <1>2

One(h, v0, d, f) == IF d = {} THEN v0 ELSE h[Max(d)][f[d \ {Max(d)}]]

Initial(I) == \E n \in Nat : I = 1 .. n
Folds(I, V, v0, h, it) ==
  it \in Total(SUBSET I, V) /\ \A d \in SUBSET I : it[d] = One(h, v0, d, it)

(* The function by which a fold over a sequence is defined exists.           *)
LEMMA Folding ==
  ASSUME NEW I, Initial(I), NEW V, NEW v0 \in V, NEW h \in Total(I, Total(V, V))
  PROVE  \E it : Folds(I, V, v0, h, it)
<1>0. PICK n \in Nat : I = 1 .. n
  BY DEF Initial
<1> DEFINE N == SUBSET I
           R == {r \in N \X N : r[2] # {} /\ r[1] = r[2] \ {Max(r[2])}}
           B == [d \in N |-> [f \in Total(N, V) |-> One(h, v0, d, f)]]
<1>1. \A d \in N : d # {} => Max(d) \in d /\ Max(d) \in I /\ d \ {Max(d)} \in N
  <2> SUFFICES ASSUME NEW d \in N, d # {}
               PROVE  Max(d) \in d /\ Max(d) \in I /\ d \ {Max(d)} \in N
    OBVIOUS
  <2>1. Max(d) \in d
    BY <1>0, MaxOf
  <2> QED
    BY <2>1
<1>2. \A d \in N : IsFiniteSet(d)
  <2>1. IsFiniteSet(1 .. n)
    BY FS_Interval
  <2> QED
    BY <1>0, <2>1, FS_Subset
<1>3. Founded(R, N)
  <2> SUFFICES ASSUME NEW S \in SUBSET N, S # {} PROVE \E d \in S : Before(R, S, d)
    BY DEF Founded
  <2> DEFINE C == {Cardinality(d) : d \in S}
  <2>1. C \in SUBSET Nat /\ C # {}
    BY <1>2, FS_CardinalityType
  <2>2. PICK z \in C : \A y \in C : z <= y
    <3> HIDE DEF C
    <3> QED
      BY <2>1, LeastOf
  <2>3. PICK d \in S : z = Cardinality(d)
    BY <2>2
  <2>4. ASSUME NEW m \in S, <<m, d>> \in R
        PROVE  FALSE
    <3>1. d # {} /\ m = d \ {Max(d)} /\ d \in N
      BY <2>4
    <3>2. IsFiniteSet(d) /\ Max(d) \in d
      BY <1>1, <1>2, <3>1
    <3>3. Cardinality(m) = Cardinality(d) - 1 /\ Cardinality(d) \in Nat
      BY <3>1, <3>2, FS_RemoveElement, FS_CardinalityType
    <3>4. Cardinality(d) <= Cardinality(m)
      BY <2>2, <2>3
    <3> QED
      BY <3>3, <3>4
  <2> HIDE DEF R
  <2> QED
    BY <2>4 DEF Before
<1>4. B \in Bodies(N, V)
  <2> SUFFICES ASSUME NEW d \in N, NEW f \in Total(N, V)
               PROVE  One(h, v0, d, f) \in V
    BY DEF Bodies
  <2>1. CASE d = {}
    BY <2>1 DEF One
  <2>2. CASE d # {}
    <3>1. Max(d) \in I /\ d \ {Max(d)} \in N
      BY <1>1, <2>2
    <3>2. f[d \ {Max(d)}] \in V /\ h[Max(d)] \in Total(V, V)
      BY <3>1 DEF Total
    <3>3. h[Max(d)][f[d \ {Max(d)}]] \in V
      BY <3>2 DEF Total
    <3> QED
      BY <2>2, <3>3 DEF One
  <2> QED
    BY <2>1, <2>2
<1>5. \A d \in N : \A f \in Total(N, V) :
        B[d][f] = One(h, v0, d, f)
  OBVIOUS
<1>6. Local(B, R, N, V)
  <2> SUFFICES ASSUME NEW d \in N, NEW f \in Total(N, V), NEW g \in Total(N, V),
                      \A m \in N : <<m, d>> \in R => f[m] = g[m]
               PROVE  B[d][f] = B[d][g]
    BY DEF Local
  <2>1. d # {} => <<d \ {Max(d)}, d>> \in R /\ d \ {Max(d)} \in N
    BY <1>1
  <2>2. d # {} => f[d \ {Max(d)}] = g[d \ {Max(d)}]
    BY <2>1
  <2>3. One(h, v0, d, f) = One(h, v0, d, g)
    BY <2>2 DEF One
  <2> HIDE DEF B, R, N
  <2> QED
    BY <1>5, <2>3
<1> HIDE DEF B, R
<1>7. \E f \in Total(N, V) : \A d \in N : f[d] = B[d][f]
  <2> HIDE DEF N
  <2> QED
    BY <1>3, <1>4, <1>6, Solution
<1>8. PICK f \in Total(N, V) : \A d \in N : f[d] = B[d][f]
  BY <1>7
<1>9. \A d \in N : f[d] = One(h, v0, d, f)
  <2> HIDE DEF N
  <2> QED
    BY <1>5, <1>8
<1> QED
  BY <1>9 DEF Folds

(* What SumOver adds up.                                                     *)
LEMMA SumSteps ==
  ASSUME NEW c, NEW s \in Seq(Node), \A i \in 1 .. Len(s) : c[s[i]] \in Nat
  PROVE  \E a \in [0 .. Len(s) -> Nat] :
           /\ a[0] = 0 /\ SumOver(c, s) = a[Len(s)]
           /\ \A i \in 1 .. Len(s) : a[i] = a[i - 1] + c[s[i]]
<1> DEFINE n == Len(s)
           D == SUBSET (1 .. n)
           Eq(it) == it = [d \in D |-> IF d = {} THEN 0 ELSE it[d \ {Max(d)}] + c[s[Max(d)]]]
           it == CHOOSE x : Eq(x)
           h == [i \in 1 .. n |-> [x \in Nat |-> x + c[s[i]]]]
<1>1. n \in Nat /\ DOMAIN s = 1 .. n /\ \A i \in 1 .. n : c[s[i]] \in Nat
  OBVIOUS
<1>2. SumOver(c, s) = it[1 .. n]
  BY <1>1 DEF SumOver, FoldLeft, MapThenFoldSet
<1>3. \E x : Eq(x)
  <2>1. h \in Total(1 .. n, Total(Nat, Nat))
    BY <1>1 DEF Total
  <2>2. Initial(1 .. n) /\ 0 \in Nat
    BY <1>1 DEF Initial
  <2>3. PICK x : Folds(1 .. n, Nat, 0, h, x)
    <3> HIDE DEF h, n
    <3> QED
      BY <2>1, <2>2, Folding
  <2>4. ASSUME NEW d \in D
        PROVE  x[d] = IF d = {} THEN 0 ELSE x[d \ {Max(d)}] + c[s[Max(d)]]
    <3>1. x[d] = One(h, 0, d, x)
      BY <2>3 DEF Folds
    <3>2. CASE d # {}
      <4>1. Max(d) \in 1 .. n /\ d \ {Max(d)} \in D
        BY <1>1, <3>2, MaxOf
      <4>2. x[d \ {Max(d)}] \in Nat
        BY <2>3, <4>1 DEF Folds, Total
      <4>3. h[Max(d)][x[d \ {Max(d)}]] = x[d \ {Max(d)}] + c[s[Max(d)]]
        BY <4>1, <4>2
      <4> HIDE DEF h
      <4> QED
        BY <3>1, <3>2, <4>3 DEF One
    <3> QED
      BY <3>1, <3>2 DEF One
  <2>5. x \in [D -> Nat]
    BY <2>3 DEF Folds, Total
  <2>6. Eq(x)
    <3> HIDE DEF h, D
    <3> QED
      BY <2>4, <2>5
  <2> QED
    BY <2>6
<1>4. Eq(it)
  <2> HIDE DEF Eq
  <2> QED
    BY <1>3
<1>5. \A d \in D : it[d] = IF d = {} THEN 0 ELSE it[d \ {Max(d)}] + c[s[Max(d)]]
  <2> HIDE DEF it, D
  <2> QED
    BY <1>4
<1> HIDE DEF it, Eq, h
<1> DEFINE a == [i \in 0 .. n |-> it[1 .. i]]
<1>6. a[0] = 0
  <2>1. 1 .. 0 = {} /\ {} \in D /\ 0 \in 0 .. n
    BY <1>1
  <2> QED
    BY <1>5, <2>1
<1>7. ASSUME NEW i \in 1 .. n
      PROVE  a[i] = a[i - 1] + c[s[i]]
  <2>1. /\ 1 .. i # {} /\ 1 .. i \in D /\ Max(1 .. i) = i /\ (1 .. i) \ {i} = 1 .. (i - 1)
    BY <1>1, MaxUpTo
  <2>2. it[1 .. i] = it[1 .. (i - 1)] + c[s[i]]
    BY <1>5, <2>1
  <2>3. i \in 0 .. n /\ i - 1 \in 0 .. n
    BY <1>1
  <2> QED
    BY <2>2, <2>3
<1>8. \A i \in 0 .. n : a[i] \in Nat
  <2> DEFINE S == {i \in 0 .. n : a[i] \in Nat}
  <2>1. 0 \in S
    BY <1>1, <1>6
  <2>2. ASSUME NEW i \in 1 .. n, i - 1 \in S
        PROVE  i \in S
    <3>1. a[i - 1] \in Nat /\ c[s[i]] \in Nat /\ i \in 0 .. n
      BY <1>1, <2>2
    <3> HIDE DEF a
    <3> QED
      BY <1>7, <3>1
  <2>3. 0 .. n \subseteq S
    <3> HIDE DEF S, n
    <3> QED
      BY <1>1, <2>1, <2>2, UpTo
  <2> QED
    BY <2>3
<1>9. SumOver(c, s) = a[n]
  BY <1>1, <1>2
<1> QED
  BY <1>6, <1>7, <1>8, <1>9

(* Where a search through the kids stands after each of them.                *)
Outcome == [seen : Nat, node : Node \cup {Nobody}, box : Boxes]
Then(g, inherit, at, k) == IF at.node # Nobody THEN at ELSE g[At(at.seen, k, inherit)]

(* Each kid leaves the search somewhere.                                     *)
LEMMA ThenType ==
  ASSUME NEW g, NEW inherit, NEW k, NEW at \in Outcome,
         \A x \in Nat : g[At(x, k, inherit)] \in Outcome
  PROVE  Then(g, inherit, at, k) \in Outcome
<1>1. at.seen \in Nat
  BY DEF Outcome
<1> QED
  BY <1>1 DEF Then

Answers(g, inherit, s) ==
  \A i \in 1 .. Len(s) : \A x \in Nat : g[At(x, s[i], inherit)] \in Outcome
Search(g, seen, inherit, s, r) ==
  /\ r \in [0 .. Len(s) -> Outcome]
  /\ r[0] = At(seen, Nobody, NoBox) /\ FirstIn(g, seen, inherit, s) = r[Len(s)]
  /\ \A i \in 1 .. Len(s) : r[i] = Then(g, inherit, r[i - 1], s[i])

(* The search through the kids is a sequence of outcomes, one after each.    *)
LEMMA SearchSteps ==
  ASSUME NEW g, NEW seen \in Nat, NEW inherit, NEW s \in Seq(Node), Answers(g, inherit, s)
  PROVE  \E r : Search(g, seen, inherit, s, r)
<1> DEFINE n == Len(s)
           D == SUBSET (1 .. n)
           z == At(seen, Nobody, NoBox)
           Eq(it) == it = [d \in D |-> IF d = {} THEN z
                                       ELSE Then(g, inherit, it[d \ {Max(d)}], s[Max(d)])]
           it == CHOOSE x : Eq(x)
           h == [i \in 1 .. n |-> [x \in Outcome |-> Then(g, inherit, x, s[i])]]
<1>1. /\ n \in Nat /\ DOMAIN s = 1 .. n
      /\ \A i \in 1 .. n : \A x \in Nat : g[At(x, s[i], inherit)] \in Outcome
  BY DEF Answers
<1>2. FirstIn(g, seen, inherit, s) = it[1 .. n]
  BY <1>1 DEF FirstIn, FoldLeft, MapThenFoldSet, Then
<1>10. z \in Outcome
  BY DEF Outcome, At, Boxes
<1> HIDE DEF z
<1>3. \E x : Eq(x)
  <2>1. h \in Total(1 .. n, Total(Outcome, Outcome))
    BY <1>1, ThenType DEF Total
  <2>2. Initial(1 .. n)
    BY <1>1 DEF Initial
  <2>3. PICK x : Folds(1 .. n, Outcome, z, h, x)
    <3> HIDE DEF h, n
    <3> QED
      BY <1>10, <2>1, <2>2, Folding
  <2>4. ASSUME NEW d \in D
        PROVE  x[d] = IF d = {} THEN z ELSE Then(g, inherit, x[d \ {Max(d)}], s[Max(d)])
    <3>1. x[d] = One(h, z, d, x)
      BY <2>3 DEF Folds
    <3>2. CASE d # {}
      <4>1. Max(d) \in 1 .. n /\ d \ {Max(d)} \in D
        BY <1>1, <3>2, MaxOf
      <4>2. x[d \ {Max(d)}] \in Outcome
        BY <2>3, <4>1 DEF Folds, Total
      <4>3. h[Max(d)][x[d \ {Max(d)}]] = Then(g, inherit, x[d \ {Max(d)}], s[Max(d)])
        BY <4>1, <4>2
      <4> HIDE DEF h
      <4> QED
        BY <3>1, <3>2, <4>3 DEF One
    <3> QED
      BY <3>1, <3>2 DEF One
  <2>5. x \in [D -> Outcome]
    BY <2>3 DEF Folds, Total
  <2>6. Eq(x)
    <3> HIDE DEF h, D
    <3> QED
      BY <2>4, <2>5
  <2> QED
    BY <2>6
<1>4. Eq(it)
  <2> HIDE DEF Eq
  <2> QED
    BY <1>3
<1>5. \A d \in D : it[d] = IF d = {} THEN z ELSE Then(g, inherit, it[d \ {Max(d)}], s[Max(d)])
  <2> HIDE DEF it, D
  <2> QED
    BY <1>4
<1> HIDE DEF it, Eq, h
<1> DEFINE a == [i \in 0 .. n |-> it[1 .. i]]
<1>6. a[0] = z
  <2>1. 1 .. 0 = {} /\ {} \in D /\ 0 \in 0 .. n
    BY <1>1
  <2> QED
    BY <1>5, <2>1
<1>7. ASSUME NEW i \in 1 .. n
      PROVE  a[i] = Then(g, inherit, a[i - 1], s[i])
  <2>1. /\ 1 .. i # {} /\ 1 .. i \in D /\ Max(1 .. i) = i /\ (1 .. i) \ {i} = 1 .. (i - 1)
    BY <1>1, MaxUpTo
  <2>2. it[1 .. i] = Then(g, inherit, it[1 .. (i - 1)], s[i])
    BY <1>5, <2>1
  <2>3. i \in 0 .. n /\ i - 1 \in 0 .. n
    BY <1>1
  <2> QED
    BY <2>2, <2>3
<1>8. \A i \in 0 .. n : a[i] \in Outcome
  <2> DEFINE S == {i \in 0 .. n : a[i] \in Outcome}
  <2>1. 0 \in S
    BY <1>1, <1>6, <1>10
  <2>2. ASSUME NEW i \in 1 .. n, i - 1 \in S
        PROVE  i \in S
    <3>1. a[i - 1] \in Outcome /\ i \in 0 .. n
      BY <1>1, <2>2
    <3> HIDE DEF a
    <3>2. Then(g, inherit, a[i - 1], s[i]) \in Outcome
      BY <1>1, <3>1, ThenType
    <3> QED
      BY <1>7, <3>1, <3>2
  <2>3. 0 .. n \subseteq S
    <3> HIDE DEF S, n
    <3> QED
      BY <1>1, <2>1, <2>2, UpTo
  <2> QED
    BY <2>3
<1>9. FirstIn(g, seen, inherit, s) = a[n]
  BY <1>1, <1>2
<1>11. a \in [0 .. n -> Outcome]
  BY <1>8
<1>12. a[0] = At(seen, Nobody, NoBox)
  BY <1>6 DEF z
<1> HIDE DEF a
<1> QED
  BY <1>7, <1>9, <1>11, <1>12 DEF Search
-----------------------------------------------------------------------------
(* Sequences put together, step by step.                                     *)
LEMMA FlattenSteps ==
  ASSUME NEW s \in Seq(Seq(Node))
  PROVE  \E q \in [0 .. Len(s) -> Seq(Node)] :
           /\ q[0] = <<>> /\ FlattenSeq(s) = q[Len(s)]
           /\ \A i \in 1 .. Len(s) : q[i] = q[i - 1] \o s[i]
<1> DEFINE n == Len(s)
           N == 1 .. n
           V == Seq(Node)
           Joined(f, i) == IF i = 1 THEN s[i] ELSE f[i - 1] \o s[i]
           Eq(x) == x = [i \in N |-> Joined(x, i)]
           fl == CHOOSE x : Eq(x)
           R == {e \in N \X N : e[1] = e[2] - 1}
           B == [i \in N |-> [f \in Total(N, V) |-> Joined(f, i)]]
<1>1. n \in Nat /\ \A i \in N : s[i] \in V
  OBVIOUS
<1>2. Founded(R, N)
  <2> SUFFICES ASSUME NEW S \in SUBSET N, S # {} PROVE \E i \in S : Before(R, S, i)
    BY DEF Founded
  <2>1. S \in SUBSET Nat
    BY <1>1
  <2>2. PICK i \in S : \A j \in S : i <= j
    BY <2>1, LeastOf
  <2>3. \A j \in S : <<j, i>> \notin R
    <3> SUFFICES ASSUME NEW j \in S, <<j, i>> \in R PROVE FALSE
      OBVIOUS
    <3>1. j = i - 1 /\ i \in N /\ j \in N
      OBVIOUS
    <3>2. i <= j
      BY <2>2
    <3> QED
      BY <1>1, <3>1, <3>2
  <2> QED
    BY <2>3 DEF Before
<1>3. ASSUME NEW i \in N, NEW f \in Total(N, V)
      PROVE  Joined(f, i) \in V
  <2>1. i # 1 => i - 1 \in N
    BY <1>1
  <2>2. i # 1 => f[i - 1] \in V
    BY <2>1 DEF Total
  <2> QED
    BY <1>1, <2>2
<1>4. B \in Bodies(N, V)
  <2> HIDE DEF Joined
  <2> QED
    BY <1>3 DEF Bodies
<1>5. \A i \in N : \A f \in Total(N, V) : B[i][f] = Joined(f, i)
  OBVIOUS
<1>6. Local(B, R, N, V)
  <2> SUFFICES ASSUME NEW i \in N, NEW f \in Total(N, V), NEW g \in Total(N, V),
                      \A m \in N : <<m, i>> \in R => f[m] = g[m]
               PROVE  B[i][f] = B[i][g]
    BY DEF Local
  <2>1. i # 1 => i - 1 \in N /\ <<i - 1, i>> \in R
    BY <1>1
  <2>2. Joined(f, i) = Joined(g, i)
    BY <2>1
  <2> HIDE DEF B, Joined
  <2> QED
    BY <1>5, <2>2
<1>7. <<>> \in V
  OBVIOUS
<1> HIDE DEF B, R
<1>8. PICK f \in Total(N, V) : \A i \in N : f[i] = B[i][f]
  <2> HIDE DEF N, V
  <2> QED
    BY <1>2, <1>4, <1>6, <1>7, Solution
<1>9. \A i \in N : f[i] = Joined(f, i)
  <2> HIDE DEF N, V, Joined
  <2> QED
    BY <1>5, <1>8
<1>10. Eq(f)
  <2> HIDE DEF N, V, Joined
  <2> QED
    BY <1>9 DEF Total
<1>11. Eq(fl)
  <2> HIDE DEF Eq
  <2> QED
    BY <1>10
<1>12. \A i \in N : fl[i] = Joined(fl, i)
  <2> HIDE DEF fl, N, Joined
  <2> QED
    BY <1>11
<1>13. FlattenSeq(s) = IF n = 0 THEN s ELSE fl[n]
  BY DEF FlattenSeq
<1> HIDE DEF fl, Eq
<1> DEFINE q == [i \in 0 .. n |-> IF i = 0 THEN <<>> ELSE fl[i]]
<1>14. q[0] = <<>>
  BY <1>1
<1>15. \A i \in N : q[i] = fl[i]
  BY <1>1
<1>16. ASSUME NEW i \in N, q[i - 1] \in V
       PROVE  q[i] = q[i - 1] \o s[i] /\ q[i] \in V
  <2>1. CASE i = 1
    <3>1. q[1] = s[1] /\ q[0] = <<>>
      BY <1>12, <1>14, <1>15, <2>1
    <3>2. s[1] \in Seq(Node)
      BY <1>1, <2>1
    <3>3. <<>> \o s[1] = s[1]
      BY <3>2
    <3>4. i - 1 = 0
      BY <2>1
    <3>5. q[i] = s[i] /\ q[i - 1] = <<>> /\ s[i] \in Seq(Node) /\ <<>> \o s[i] = s[i]
      BY <2>1, <3>1, <3>2, <3>3, <3>4
    <3> HIDE DEF q
    <3> QED
      BY <3>5
  <2>2. CASE i # 1
    <3>1. i - 1 \in N
      BY <1>1, <2>2
    <3>2. q[i] = q[i - 1] \o s[i]
      BY <1>12, <1>15, <2>2, <3>1
    <3> HIDE DEF q
    <3> QED
      BY <1>1, <1>16, <3>2
  <2> QED
    BY <2>1, <2>2
<1>17. \A i \in 0 .. n : q[i] \in V
  <2> DEFINE S == {i \in 0 .. n : q[i] \in V}
  <2>1. 0 \in S
    BY <1>1, <1>7, <1>14
  <2>2. ASSUME NEW i \in 1 .. n, i - 1 \in S
        PROVE  i \in S
    <3>1. i \in 0 .. n
      BY <1>1
    <3> HIDE DEF q
    <3> QED
      BY <1>16, <2>2, <3>1
  <2>3. 0 .. n \subseteq S
    <3> HIDE DEF S, n
    <3> QED
      BY <1>1, <2>1, <2>2, UpTo
  <2> QED
    BY <2>3
<1>18. q \in [0 .. n -> V]
  BY <1>17
<1>19. FlattenSeq(s) = q[n]
  <2>1. CASE n = 0
    <3>1. s = <<>>
      BY <2>1
    <3> QED
      BY <1>13, <1>14, <2>1, <3>1
  <2>2. CASE n # 0
    BY <1>1, <1>13, <1>15, <2>2
  <2> QED
    BY <2>1, <2>2
<1>20. \A i \in 1 .. n : q[i] = q[i - 1] \o s[i]
  <2> SUFFICES ASSUME NEW i \in 1 .. n PROVE q[i] = q[i - 1] \o s[i]
    OBVIOUS
  <2>1. i - 1 \in 0 .. n
    BY <1>1
  <2>2. q[i - 1] \in V
    BY <1>17, <2>1
  <2> QED
    BY <1>16, <2>2
<1> HIDE DEF q
<1> QED
  BY <1>14, <1>18, <1>19, <1>20

(* Equal values under the elements give equal sums and searches.             *)
LEMMA SumLocal ==
  ASSUME NEW c, NEW d, NEW s \in Seq(Node),
         \A i \in 1 .. Len(s) : c[s[i]] \in Nat /\ d[s[i]] = c[s[i]]
  PROVE  SumOver(c, s) = SumOver(d, s) /\ SumOver(c, s) \in Nat
<1> DEFINE n == Len(s)
<1>1. n \in Nat
  OBVIOUS
<1>2. PICK a \in [0 .. n -> Nat] : /\ a[0] = 0 /\ SumOver(c, s) = a[n]
                                   /\ \A i \in 1 .. n : a[i] = a[i - 1] + c[s[i]]
  BY SumSteps
<1>3. PICK b \in [0 .. n -> Nat] : /\ b[0] = 0 /\ SumOver(d, s) = b[n]
                                   /\ \A i \in 1 .. n : b[i] = b[i - 1] + d[s[i]]
  BY SumSteps
<1> DEFINE S == {i \in 0 .. n : a[i] = b[i]}
<1>4. 0 \in S
  BY <1>1, <1>2, <1>3
<1>5. ASSUME NEW i \in 1 .. n, i - 1 \in S
      PROVE  i \in S
  BY <1>1, <1>2, <1>3, <1>5
<1>6. 0 .. n \subseteq S
  <2> HIDE DEF S, n
  <2> QED
    BY <1>1, <1>4, <1>5, UpTo
<1>7. n \in S
  BY <1>1, <1>6
<1> QED
  BY <1>1, <1>2, <1>3, <1>7

AnswersAgree(g, h, inherit, s) ==
  \A i \in 1 .. Len(s) : \A x \in Nat : h[At(x, s[i], inherit)] = g[At(x, s[i], inherit)]

(* Equal answers for the kids give equal searches through them.              *)
LEMMA SearchLocal ==
  ASSUME NEW g, NEW h, NEW seen \in Nat, NEW inherit, NEW s \in Seq(Node),
         Answers(g, inherit, s), AnswersAgree(g, h, inherit, s)
  PROVE  /\ FirstIn(g, seen, inherit, s) = FirstIn(h, seen, inherit, s)
         /\ FirstIn(g, seen, inherit, s) \in Outcome
<1> DEFINE n == Len(s)
<1>1. n \in Nat
  OBVIOUS
<1>2. PICK a : Search(g, seen, inherit, s, a)
  BY SearchSteps
<1>3. PICK b : Search(h, seen, inherit, s, b)
  <2>1. Answers(h, inherit, s)
    BY DEF Answers, AnswersAgree
  <2> QED
    BY <2>1, SearchSteps
<1> DEFINE S == {i \in 0 .. n : a[i] = b[i]}
<1>4. 0 \in S
  BY <1>1, <1>2, <1>3 DEF Search
<1>5. ASSUME NEW i \in 1 .. n, i - 1 \in S
      PROVE  i \in S
  <2>1. a[i - 1] = b[i - 1] /\ a[i - 1].seen \in Nat /\ i \in 0 .. n
    BY <1>1, <1>2, <1>5 DEF Outcome, Search
  <2>2. Then(g, inherit, a[i - 1], s[i]) = Then(h, inherit, b[i - 1], s[i])
    BY <2>1 DEF Then, AnswersAgree
  <2> QED
    BY <1>2, <1>3, <2>1, <2>2 DEF Search
<1>6. 0 .. n \subseteq S
  <2> HIDE DEF S, n
  <2> QED
    BY <1>1, <1>4, <1>5, UpTo
<1>7. n \in S /\ n \in 0 .. n
  BY <1>1, <1>6
<1> QED
  BY <1>1, <1>2, <1>3, <1>7 DEF Search
-----------------------------------------------------------------------------
(* What the recursive functions of a page tree compute.                      *)
Lower(t) == {e \in Node \X Node : e[2] \in DOMAIN t /\ \E i \in 1 .. Len(t[e[2]]) : e[1] = t[e[2]][i]}

(* What a tree lists under a node.                                           *)
LEMMA TreeKids ==
  ASSUME NEW t \in Tree, NEW n \in DOMAIN t
  PROVE  /\ n \in Node /\ n \notin Missing /\ t[n] \in Seq(Node)
         /\ DOMAIN t[n] = 1 .. Len(t[n]) /\ Len(t[n]) \in Nat
         /\ \A i \in 1 .. Len(t[n]) : t[n][i] \in Node /\ <<t[n][i], n>> \in Lower(t)
<1>1. n \in Node /\ n \notin Missing /\ t[n] \in Seq(Node)
  BY TreeAssumption
<1>2. DOMAIN t[n] = 1 .. Len(t[n]) /\ Len(t[n]) \in Nat /\ \A i \in 1 .. Len(t[n]) : t[n][i] \in Node
  BY <1>1
<1> QED
  BY <1>1, <1>2 DEF Lower

(* Downwards a tree ends.                                                    *)
LEMMA TreeFounded ==
  ASSUME NEW t \in Tree
  PROVE  Founded(Lower(t), Node)
<1> SUFFICES ASSUME NEW S \in SUBSET Node, S # {} PROVE \E n \in S : Before(Lower(t), S, n)
  BY DEF Founded
<1>1. Acyclic(t)
  BY TreeAssumption
<1>2. PICK n \in S : n \in DOMAIN t => \A i \in DOMAIN t[n] : t[n][i] \notin S
  BY <1>1 DEF Acyclic
<1>3. ASSUME NEW m \in S, <<m, n>> \in Lower(t)
      PROVE  FALSE
  <2>1. n \in DOMAIN t /\ \E i \in 1 .. Len(t[n]) : m = t[n][i]
    BY <1>3 DEF Lower
  <2>2. DOMAIN t[n] = 1 .. Len(t[n])
    BY <2>1, TreeKids
  <2> QED
    BY <1>2, <2>1, <2>2
<1> QED
  BY <1>3 DEF Before

(* From the kids to the node, for every node.                                *)
LEMMA Upwards ==
  ASSUME NEW t \in Tree, NEW S,
         \A n \in Node : (n \in DOMAIN t => \A i \in 1 .. Len(t[n]) : t[n][i] \in S) => n \in S
  PROVE  \A n \in Node : n \in S
<1> DEFINE Out == Node \ S
<1> SUFFICES ASSUME Out # {} PROVE FALSE
  OBVIOUS
<1>1. PICK n \in Out : Before(Lower(t), Out, n)
  BY TreeFounded DEF Founded
<1>2. ASSUME n \in DOMAIN t, NEW i \in 1 .. Len(t[n])
      PROVE  t[n][i] \in S
  <2>1. t[n][i] \in Node /\ <<t[n][i], n>> \in Lower(t)
    BY <1>2, TreeKids
  <2> QED
    BY <1>1, <2>1 DEF Before
<1> QED
  BY <1>2

CountBody(t, c, m) ==
  IF m \in Missing THEN 0 ELSE IF m \notin DOMAIN t THEN 1 ELSE SumOver(c, t[m])

(* Counted has the values getpagecount computes from the kids.               *)
LEMMA Counting ==
  ASSUME NEW t \in Tree
  PROVE  \E c : /\ c \in Total(Node, Nat) /\ \A n \in Node : c[n] = CountBody(t, c, n)
                /\ \A n \in Node : Counted(t, n) = c[n]
<1> DEFINE R == Lower(t)
           B == [n \in Node |-> [f \in Total(Node, Nat) |-> CountBody(t, f, n)]]
           Eq(x) == x = [n \in Node |-> CountBody(t, x, n)]
           c == CHOOSE x : Eq(x)
<1>1. ASSUME NEW n \in DOMAIN t, NEW f \in Total(Node, Nat), NEW g,
             \A i \in 1 .. Len(t[n]) : g[t[n][i]] = f[t[n][i]]
      PROVE  SumOver(f, t[n]) = SumOver(g, t[n]) /\ SumOver(f, t[n]) \in Nat
  <2>1. t[n] \in Seq(Node) /\ \A i \in 1 .. Len(t[n]) : f[t[n][i]] \in Nat /\ g[t[n][i]] = f[t[n][i]]
    BY <1>1, TreeKids DEF Total
  <2> QED
    BY <2>1, SumLocal
<1>2. \A n \in Node : \A f \in Total(Node, Nat) : CountBody(t, f, n) \in Nat
  BY <1>1 DEF CountBody
<1>3. B \in Bodies(Node, Nat)
  BY <1>2 DEF Bodies
<1>4. \A n \in Node : \A f \in Total(Node, Nat) : B[n][f] = CountBody(t, f, n)
  OBVIOUS
<1>5. ASSUME NEW n \in Node, NEW f \in Total(Node, Nat), NEW g,
             n \in DOMAIN t => \A i \in 1 .. Len(t[n]) : g[t[n][i]] = f[t[n][i]]
      PROVE  CountBody(t, f, n) = CountBody(t, g, n)
  BY <1>1, <1>5 DEF CountBody
<1>6. Local(B, R, Node, Nat)
  <2> SUFFICES ASSUME NEW n \in Node, NEW f \in Total(Node, Nat), NEW g \in Total(Node, Nat),
                      \A m \in Node : <<m, n>> \in R => f[m] = g[m]
               PROVE  B[n][f] = B[n][g]
    BY DEF Local
  <2>1. n \in DOMAIN t => \A i \in 1 .. Len(t[n]) : g[t[n][i]] = f[t[n][i]]
    BY TreeKids
  <2>2. CountBody(t, f, n) = CountBody(t, g, n)
    BY <1>5, <2>1
  <2> HIDE DEF B
  <2> QED
    BY <1>4, <2>2
<1>7. Founded(R, Node) /\ 0 \in Nat
  BY TreeFounded
<1> HIDE DEF B, R
<1>8. PICK f \in Total(Node, Nat) : \A n \in Node : f[n] = B[n][f]
  BY <1>3, <1>6, <1>7, Solution
<1>9. \A n \in Node : f[n] = CountBody(t, f, n)
  BY <1>4, <1>8
<1>10. Eq(f)
  BY <1>9 DEF Total
<1>11. Eq(c)
  <2> HIDE DEF Eq
  <2> QED
    BY <1>10
<1>12. \A n \in Node : c[n] = CountBody(t, c, n)
  <2> HIDE DEF c
  <2> QED
    BY <1>11
<1>13. \A n \in Node : Counted(t, n) = c[n]
  BY DEF Counted, CountBody
<1> HIDE DEF c, Eq
<1>14. \A n \in Node : c[n] = f[n]
  <2> DEFINE S == {n \in Node : c[n] = f[n]}
  <2>1. ASSUME NEW n \in Node, n \in DOMAIN t => \A i \in 1 .. Len(t[n]) : t[n][i] \in S
        PROVE  n \in S
    <3>1. n \in DOMAIN t => \A i \in 1 .. Len(t[n]) : c[t[n][i]] = f[t[n][i]]
      BY <2>1
    <3>2. CountBody(t, f, n) = CountBody(t, c, n)
      BY <1>5, <3>1
    <3> QED
      BY <1>9, <1>12, <3>2
  <2> HIDE DEF S
  <2>2. \A n \in Node : n \in S
    BY <2>1, Upwards
  <2> QED
    BY <2>2 DEF S
<1> QED
  BY <1>9, <1>13, <1>14

PageBody(t, p, m) ==
  IF m \in Missing THEN <<>>
  ELSE IF m \notin DOMAIN t THEN <<m>>
  ELSE FlattenSeq([i \in DOMAIN t[m] |-> p[t[m][i]]])

(* A node's pages are its kids' pages, one list after the other.             *)
LEMMA Reading ==
  ASSUME NEW t \in Tree
  PROVE  \E p : /\ p \in Total(Node, Seq(Node)) /\ \A n \in Node : p[n] = PageBody(t, p, n)
                /\ \A n \in Node : PagesUnder(t, n) = p[n]
<1> DEFINE V == Seq(Node)
           R == Lower(t)
           B == [n \in Node |-> [f \in Total(Node, V) |-> PageBody(t, f, n)]]
           Eq(x) == x = [n \in Node |-> PageBody(t, x, n)]
           p == CHOOSE x : Eq(x)
           Rows(f, n) == [i \in DOMAIN t[n] |-> f[t[n][i]]]
<1>1. ASSUME NEW n \in DOMAIN t, NEW f \in Total(Node, V), NEW g,
             \A i \in 1 .. Len(t[n]) : g[t[n][i]] = f[t[n][i]]
      PROVE  FlattenSeq(Rows(f, n)) = FlattenSeq(Rows(g, n)) /\ FlattenSeq(Rows(f, n)) \in V
  <2>1. /\ DOMAIN t[n] = 1 .. Len(t[n]) /\ Len(t[n]) \in Nat
        /\ \A i \in 1 .. Len(t[n]) : f[t[n][i]] \in V
    BY <1>1, TreeKids DEF Total
  <2>2. Rows(f, n) = Rows(g, n)
    BY <1>1, <2>1
  <2>3. Rows(f, n) \in Seq(V)
    BY <2>1
  <2> HIDE DEF Rows
  <2>4. PICK q \in [0 .. Len(Rows(f, n)) -> V] : FlattenSeq(Rows(f, n)) = q[Len(Rows(f, n))]
    BY <2>3, FlattenSteps
  <2>5. Len(Rows(f, n)) \in 0 .. Len(Rows(f, n))
    BY <2>3
  <2> QED
    BY <2>2, <2>4, <2>5
<1>2. ASSUME NEW n \in Node, NEW f \in Total(Node, V)
      PROVE  PageBody(t, f, n) \in V
  <2>1. n \in DOMAIN t => FlattenSeq(Rows(f, n)) \in V
    BY <1>1
  <2>2. <<>> \in V /\ <<n>> \in V
    OBVIOUS
  <2> HIDE DEF V
  <2> QED
    BY <2>1, <2>2 DEF PageBody
<1> HIDE DEF V
<1>3. B \in Bodies(Node, V)
  BY <1>2 DEF Bodies
<1>4. \A n \in Node : \A f \in Total(Node, V) : B[n][f] = PageBody(t, f, n)
  OBVIOUS
<1>5. ASSUME NEW n \in Node, NEW f \in Total(Node, V), NEW g,
             n \in DOMAIN t => \A i \in 1 .. Len(t[n]) : g[t[n][i]] = f[t[n][i]]
      PROVE  PageBody(t, f, n) = PageBody(t, g, n)
  <2>1. n \in DOMAIN t => FlattenSeq(Rows(f, n)) = FlattenSeq(Rows(g, n))
    BY <1>1, <1>5
  <2> QED
    BY <2>1 DEF PageBody
<1>6. Local(B, R, Node, V)
  <2> SUFFICES ASSUME NEW n \in Node, NEW f \in Total(Node, V), NEW g \in Total(Node, V),
                      \A m \in Node : <<m, n>> \in R => f[m] = g[m]
               PROVE  B[n][f] = B[n][g]
    BY DEF Local
  <2>1. n \in DOMAIN t => \A i \in 1 .. Len(t[n]) : g[t[n][i]] = f[t[n][i]]
    BY TreeKids
  <2>2. PageBody(t, f, n) = PageBody(t, g, n)
    BY <1>5, <2>1
  <2> HIDE DEF B
  <2> QED
    BY <1>4, <2>2
<1>7. Founded(R, Node) /\ <<>> \in V
  BY TreeFounded DEF V
<1> HIDE DEF B, R
<1>8. PICK f \in Total(Node, V) : \A n \in Node : f[n] = B[n][f]
  BY <1>3, <1>6, <1>7, Solution
<1>9. \A n \in Node : f[n] = PageBody(t, f, n)
  BY <1>4, <1>8
<1>10. Eq(f)
  BY <1>9 DEF Total
<1>11. Eq(p)
  <2> HIDE DEF Eq
  <2> QED
    BY <1>10
<1>12. \A n \in Node : p[n] = PageBody(t, p, n)
  <2> HIDE DEF p
  <2> QED
    BY <1>11
<1>13. \A n \in Node : PagesUnder(t, n) = p[n]
  BY DEF PagesUnder, PageBody
<1> HIDE DEF p, Eq
<1>14. \A n \in Node : p[n] = f[n]
  <2> DEFINE S == {n \in Node : p[n] = f[n]}
  <2>1. ASSUME NEW n \in Node, n \in DOMAIN t => \A i \in 1 .. Len(t[n]) : t[n][i] \in S
        PROVE  n \in S
    <3>1. n \in DOMAIN t => \A i \in 1 .. Len(t[n]) : p[t[n][i]] = f[t[n][i]]
      BY <2>1
    <3>2. PageBody(t, f, n) = PageBody(t, p, n)
      BY <1>5, <3>1
    <3> QED
      BY <1>9, <1>12, <3>2
  <2> HIDE DEF S
  <2>2. \A n \in Node : n \in S
    BY <2>1, Upwards
  <2> QED
    BY <2>2 DEF S
<1> QED
  BY <1>9, <1>13, <1>14 DEF V
-----------------------------------------------------------------------------
(* The search for a page.                                                    *)
LEMMA AtPlace ==
  ASSUME NEW s \in Nat, NEW n \in Node, NEW b \in Boxes
  PROVE  /\ At(s, n, b) \in Place
         /\ At(s, n, b).seen = s /\ At(s, n, b).node = n /\ At(s, n, b).box = b
BY DEF At, Place

LEMMA PlaceAt ==
  ASSUME NEW x \in Place
  PROVE  x.seen \in Nat /\ x.node \in Node /\ x.box \in Boxes /\ x = At(x.seen, x.node, x.box)
BY DEF At, Place

LEMMA AtOutcome ==
  ASSUME NEW s \in Nat, NEW n \in Node \cup {Nobody}, NEW b \in Boxes
  PROVE  /\ At(s, n, b) \in Outcome
         /\ At(s, n, b).seen = s /\ At(s, n, b).node = n /\ At(s, n, b).box = b
BY DEF At, Outcome

FoundBody(no, c, o, g, x) ==
  LET mine == Nearer(o[x.node], x.box) IN
  IF x.node \in Missing THEN At(x.seen, Nobody, NoBox)
  ELSE IF x.node \notin DOMAIN kids
  THEN IF x.seen + 1 = no THEN At(x.seen + 1, x.node, mine)
                          ELSE At(x.seen + 1, Nobody, NoBox)
  ELSE IF Skips(x.seen, c[x.node], no)
  THEN At(x.seen + c[x.node], Nobody, NoBox)
  ELSE FirstIn(g, x.seen, mine, kids[x.node])

(* Found is the value at the root of a function with the values getpageobject *)
(* computes.                                                                 *)
LEMMA Searching ==
  ASSUME kids \in Tree, NEW no \in Nat, NEW c, \A n \in DOMAIN kids : c[n] \in Nat,
         NEW o \in Total(Node, Boxes)
  PROVE  \E g : /\ g \in Total(Place, Outcome) /\ \A x \in Place : g[x] = FoundBody(no, c, o, g, x)
                /\ Found(no, c, o) = g[At(0, Root, NoBox)]
<1> DEFINE Body(f, x) == FoundBody(no, c, o, f, x)
           R == {e \in Place \X Place : <<e[1].node, e[2].node>> \in Lower(kids)}
           B == [x \in Place |-> [f \in Total(Place, Outcome) |-> Body(f, x)]]
           Eq(y) == y = [x \in Place |-> Body(y, x)]
           g == CHOOSE y : Eq(y)
           mine(x) == Nearer(o[x.node], x.box)
<1>0. \A x \in Place : mine(x) \in Boxes
  BY PlaceAt DEF Total, Nearer
<1> HIDE DEF mine
<1>1. ASSUME NEW x \in Place, x.node \in DOMAIN kids,
             NEW f \in Total(Place, Outcome), NEW h,
             \A i \in 1 .. Len(kids[x.node]) : \A s \in Nat :
               h[At(s, kids[x.node][i], mine(x))] = f[At(s, kids[x.node][i], mine(x))]
      PROVE  /\ FirstIn(f, x.seen, mine(x), kids[x.node]) = FirstIn(h, x.seen, mine(x), kids[x.node])
             /\ FirstIn(f, x.seen, mine(x), kids[x.node]) \in Outcome
  <2>1. kids[x.node] \in Seq(Node) /\ \A i \in 1 .. Len(kids[x.node]) : kids[x.node][i] \in Node
    BY <1>1, TreeKids
  <2>2. Answers(f, mine(x), kids[x.node])
    BY <1>0, <2>1, AtPlace DEF Total, Answers
  <2>3. x.seen \in Nat
    BY PlaceAt
  <2>4. AnswersAgree(f, h, mine(x), kids[x.node])
    BY <1>1 DEF AnswersAgree
  <2> QED
    BY <2>1, <2>2, <2>3, <2>4, SearchLocal
<1>2. ASSUME NEW x \in Place, NEW f \in Total(Place, Outcome)
      PROVE  Body(f, x) \in Outcome
  <2>1. x.seen \in Nat /\ x.node \in Node /\ mine(x) \in Boxes /\ NoBox \in Boxes
    BY <1>0, PlaceAt DEF Boxes
  <2>2. x.node \in DOMAIN kids => FirstIn(f, x.seen, mine(x), kids[x.node]) \in Outcome
    BY <1>1
  <2>3. /\ At(x.seen, Nobody, NoBox) \in Outcome
        /\ At(x.seen + 1, x.node, mine(x)) \in Outcome
        /\ At(x.seen + 1, Nobody, NoBox) \in Outcome
    BY <2>1 DEF At, Outcome
  <2>4. x.node \in DOMAIN kids => At(x.seen + c[x.node], Nobody, NoBox) \in Outcome
    BY <2>1 DEF At, Outcome
  <2> QED
    BY <2>2, <2>3, <2>4 DEF FoundBody, mine
<1>3. ASSUME NEW x \in Place, NEW f \in Total(Place, Outcome), NEW h,
             x.node \in DOMAIN kids =>
               \A i \in 1 .. Len(kids[x.node]) : \A s \in Nat :
                 h[At(s, kids[x.node][i], mine(x))] = f[At(s, kids[x.node][i], mine(x))]
      PROVE  Body(f, x) = Body(h, x)
  <2>1. x.node \in DOMAIN kids =>
          FirstIn(f, x.seen, mine(x), kids[x.node]) = FirstIn(h, x.seen, mine(x), kids[x.node])
    BY <1>1, <1>3
  <2> QED
    BY <2>1 DEF FoundBody, mine
<1> HIDE DEF Body
<1>4. B \in Bodies(Place, Outcome)
  BY <1>2 DEF Bodies
<1>5. \A x \in Place : \A f \in Total(Place, Outcome) : B[x][f] = Body(f, x)
  OBVIOUS
<1>6. Local(B, R, Place, Outcome)
  <2> SUFFICES ASSUME NEW x \in Place, NEW f \in Total(Place, Outcome), NEW h \in Total(Place, Outcome),
                      \A y \in Place : <<y, x>> \in R => f[y] = h[y]
               PROVE  B[x][f] = B[x][h]
    BY DEF Local
  <2>1. ASSUME x.node \in DOMAIN kids, NEW i \in 1 .. Len(kids[x.node]), NEW s \in Nat
        PROVE  h[At(s, kids[x.node][i], mine(x))] = f[At(s, kids[x.node][i], mine(x))]
    <3>1. kids[x.node][i] \in Node /\ <<kids[x.node][i], x.node>> \in Lower(kids)
      BY <2>1, TreeKids
    <3>2. /\ At(s, kids[x.node][i], mine(x)) \in Place
          /\ At(s, kids[x.node][i], mine(x)).node = kids[x.node][i]
      BY <1>0, <3>1 DEF At, Place
    <3>3. <<At(s, kids[x.node][i], mine(x)), x>> \in R
      BY <3>1, <3>2
    <3> QED
      BY <3>2, <3>3
  <2>2. Body(f, x) = Body(h, x)
    BY <1>3, <2>1
  <2> HIDE DEF B
  <2> QED
    BY <1>5, <2>2
<1>7. Founded(R, Place)
  <2> SUFFICES ASSUME NEW S \in SUBSET Place, S # {} PROVE \E x \in S : Before(R, S, x)
    BY DEF Founded
  <2> DEFINE T == {x.node : x \in S}
  <2>1. T \in SUBSET Node /\ T # {}
    BY PlaceAt
  <2>2. PICK n \in T : Before(Lower(kids), T, n)
    <3> HIDE DEF T
    <3> QED
      BY <2>1, TreeFounded DEF Founded
  <2>3. PICK x \in S : n = x.node
    BY <2>2
  <2>4. \A y \in S : <<y, x>> \notin R
    BY <2>2, <2>3 DEF Before
  <2> QED
    BY <2>4 DEF Before
<1>8. At(0, Nobody, NoBox) \in Outcome
  BY AtOutcome DEF Boxes
<1> HIDE DEF B, R
<1>9. PICK f \in Total(Place, Outcome) : \A x \in Place : f[x] = B[x][f]
  BY <1>4, <1>6, <1>7, <1>8, Solution
<1>10. \A x \in Place : f[x] = Body(f, x)
  BY <1>5, <1>9
<1>11. Eq(f)
  BY <1>10 DEF Total
<1>12. Eq(g)
  <2> HIDE DEF Eq
  <2> QED
    BY <1>11
<1>13. \A x \in Place : g[x] = Body(g, x)
  <2> HIDE DEF g
  <2> QED
    BY <1>12
<1>14. Found(no, c, o) = g[At(0, Root, NoBox)]
  BY DEF Found, FoundBody, Body
<1> HIDE DEF g, Eq
<1>15. \A x \in Place : g[x] = f[x]
  <2> DEFINE S == {n \in Node : \A s \in Nat : \A b \in Boxes : g[At(s, n, b)] = f[At(s, n, b)]}
  <2>1. ASSUME NEW n \in Node, n \in DOMAIN kids => \A i \in 1 .. Len(kids[n]) : kids[n][i] \in S
        PROVE  n \in S
    <3> SUFFICES ASSUME NEW s \in Nat, NEW b \in Boxes
                 PROVE  g[At(s, n, b)] = f[At(s, n, b)]
      OBVIOUS
    <3>0. PICK x : x = At(s, n, b)
      OBVIOUS
    <3>1. x \in Place /\ x.node = n /\ mine(x) \in Boxes
      BY <1>0, <3>0, AtPlace
    <3>2. x.node \in DOMAIN kids =>
            \A i \in 1 .. Len(kids[x.node]) : \A z \in Nat :
              g[At(z, kids[x.node][i], mine(x))] = f[At(z, kids[x.node][i], mine(x))]
      BY <2>1, <3>1
    <3>3. Body(f, x) = Body(g, x)
      BY <1>3, <3>1, <3>2
    <3> QED
      BY <1>10, <1>13, <3>0, <3>1, <3>3
  <2>2. \A n \in Node : n \in S
    <3> HIDE DEF S
    <3> QED
      BY <2>1, Upwards
  <2> SUFFICES ASSUME NEW x \in Place PROVE g[x] = f[x]
    OBVIOUS
  <2>3. x.seen \in Nat /\ x.node \in Node /\ x.box \in Boxes /\ x = At(x.seen, x.node, x.box)
    BY PlaceAt
  <2>4. x.node \in S
    BY <2>2, <2>3
  <2> QED
    BY <2>3, <2>4
<1>16. \A x \in Place : f[x] = FoundBody(no, c, o, f, x)
  BY <1>10 DEF Body
<1>17. At(0, Root, NoBox) \in Place
  BY AtPlace, NodeAssumption DEF Boxes
<1> QED
  BY <1>14, <1>15, <1>16, <1>17
-----------------------------------------------------------------------------
(* The box a node has or inherits.                                           *)
Upper(t) == {e \in Node \X Node : e[1] \in Above(t, e[2])}
Parent(t, n) == CHOOSE a \in Above(t, n) : TRUE
BoxBody(t, given, b, m) ==
  IF given[m] # NoBox \/ Above(t, m) = {} THEN given[m] ELSE b[Parent(t, m)]

(* The node a box is inherited from.                                         *)
LEMMA ParentNode ==
  ASSUME NEW t \in Tree, NEW n \in Node, Above(t, n) # {}
  PROVE  Parent(t, n) \in Above(t, n) /\ Parent(t, n) \in Node /\ <<Parent(t, n), n>> \in Upper(t)
<1>1. Parent(t, n) \in Above(t, n)
  BY DEF Parent
<1>2. Parent(t, n) \in Node
  BY <1>1, TreeKids DEF Above
<1> QED
  BY <1>1, <1>2 DEF Upper

(* Upwards a tree ends.                                                      *)
LEMMA UpperFounded ==
  ASSUME NEW t \in Tree
  PROVE  Founded(Upper(t), Node)
<1> SUFFICES ASSUME NEW S \in SUBSET Node, S # {} PROVE \E n \in S : Before(Upper(t), S, n)
  BY DEF Founded
<1>1. Acyclic(t)
  BY TreeAssumption
<1>2. PICK n \in S : \A m \in S \cap DOMAIN t : n \notin ToSet(t[m])
  BY <1>1 DEF Acyclic
<1>3. ASSUME NEW m \in S, <<m, n>> \in Upper(t)
      PROVE  FALSE
  <2>1. m \in DOMAIN t /\ n \in ToSet(t[m])
    BY <1>3 DEF Upper, Above
  <2> QED
    BY <1>2, <2>1
<1> QED
  BY <1>3 DEF Before

(* The nearest box is the own one or the one of the node above.              *)
LEMMA Inheriting ==
  ASSUME NEW t \in Tree, NEW given \in Total(Node, Boxes)
  PROVE  /\ Nearest(t, given) \in Total(Node, Boxes)
         /\ \A n \in Node : Nearest(t, given)[n] = BoxBody(t, given, Nearest(t, given), n)
<1> DEFINE Body(f, n) == BoxBody(t, given, f, n)
           R == Upper(t)
           B == [n \in Node |-> [f \in Total(Node, Boxes) |-> Body(f, n)]]
           Eq(y) == y = [n \in Node |-> Body(y, n)]
<1>1. \A n \in Node : \A f \in Total(Node, Boxes) : Body(f, n) \in Boxes
  BY ParentNode DEF BoxBody, Total
<1>2. ASSUME NEW n \in Node, NEW f, NEW h, \A m \in Node : <<m, n>> \in R => f[m] = h[m]
      PROVE  Body(f, n) = Body(h, n)
  BY <1>2, ParentNode DEF BoxBody
<1>3. B \in Bodies(Node, Boxes)
  <2> HIDE DEF Body
  <2> QED
    BY <1>1 DEF Bodies
<1>4. \A n \in Node : \A f \in Total(Node, Boxes) : B[n][f] = Body(f, n)
  OBVIOUS
<1>5. Local(B, R, Node, Boxes)
  <2> HIDE DEF Body, R
  <2> SUFFICES ASSUME NEW n \in Node, NEW f \in Total(Node, Boxes), NEW h \in Total(Node, Boxes),
                      \A m \in Node : <<m, n>> \in R => f[m] = h[m]
               PROVE  B[n][f] = B[n][h]
    BY DEF Local
  <2>1. Body(f, n) = Body(h, n)
    BY <1>2
  <2> HIDE DEF B
  <2> QED
    BY <1>4, <2>1
<1>6. Founded(R, Node) /\ NoBox \in Boxes
  BY UpperFounded DEF Boxes
<1> HIDE DEF B, R
<1>7. PICK f \in Total(Node, Boxes) : \A n \in Node : f[n] = B[n][f]
  BY <1>3, <1>5, <1>6, Solution
<1>8. \A n \in Node : f[n] = Body(f, n)
  <2> HIDE DEF Body
  <2> QED
    BY <1>4, <1>7
<1>9. Eq(f)
  <2> HIDE DEF Body
  <2> QED
    BY <1>8 DEF Total
<1>10. Nearest(t, given) = CHOOSE y : Eq(y)
  BY DEF Nearest, BoxBody, Parent
<1>11. Eq(Nearest(t, given))
  <2> HIDE DEF Eq
  <2> QED
    BY <1>9, <1>10
<1> DEFINE b == Nearest(t, given)
<1> HIDE DEF b
<1>12. b = [n \in Node |-> Body(b, n)]
  BY <1>11 DEF b
<1>13. \A n \in Node : b[n] = Body(b, n)
  <2> HIDE DEF Body
  <2> QED
    BY <1>12
<1>14. \A n \in Node : b[n] = f[n]
  <2> DEFINE Out == {n \in Node : b[n] # f[n]}
  <2> SUFFICES ASSUME Out # {} PROVE FALSE
    OBVIOUS
  <2>1. PICK n \in Out : Before(R, Out, n)
    BY <1>6 DEF Founded
  <2>2. \A m \in Node : <<m, n>> \in R => b[m] = f[m]
    BY <2>1 DEF Before
  <2>3. Body(b, n) = Body(f, n)
    <3> HIDE DEF Body
    <3> QED
      BY <1>2, <2>2
  <2> HIDE DEF Body
  <2> QED
    BY <1>8, <1>13, <2>1, <2>3
<1>15. b \in Total(Node, Boxes)
  <2>1. b = f
    <3> HIDE DEF Body
    <3> QED
      BY <1>12, <1>14 DEF Total
  <2> QED
    BY <2>1
<1> QED
  BY <1>13, <1>15 DEF b, Body
-----------------------------------------------------------------------------
(* A subtree is counted as long as its list of pages is.                     *)
LEMMA CountIsLength ==
  ASSUME NEW t \in Tree
  PROVE  \A n \in Node : /\ Counted(t, n) \in Nat /\ PagesUnder(t, n) \in Seq(Node)
                         /\ Counted(t, n) = Len(PagesUnder(t, n))
<1>1. PICK c : /\ c \in Total(Node, Nat) /\ \A n \in Node : c[n] = CountBody(t, c, n)
               /\ \A n \in Node : Counted(t, n) = c[n]
  BY Counting
<1>2. PICK p : /\ p \in Total(Node, Seq(Node)) /\ \A n \in Node : p[n] = PageBody(t, p, n)
               /\ \A n \in Node : PagesUnder(t, n) = p[n]
  BY Reading
<1> DEFINE S == {n \in Node : c[n] = Len(p[n])}
<1>3. ASSUME NEW n \in Node, n \in DOMAIN t => \A i \in 1 .. Len(t[n]) : t[n][i] \in S
      PROVE  n \in S
  <2>1. CASE n \in Missing
    BY <1>1, <1>2, <2>1 DEF CountBody, PageBody
  <2>2. CASE n \notin Missing /\ n \notin DOMAIN t
    BY <1>1, <1>2, <2>2 DEF CountBody, PageBody
  <2>3. CASE n \in DOMAIN t
    <3> DEFINE k == t[n]
               m == Len(k)
               Rows == [i \in DOMAIN k |-> p[k[i]]]
    <3>1. /\ n \notin Missing /\ k \in Seq(Node) /\ DOMAIN k = 1 .. m /\ m \in Nat
          /\ \A i \in 1 .. m : k[i] \in Node
      BY <2>3, TreeKids
    <3>2. \A i \in 1 .. m : c[k[i]] \in Nat /\ p[k[i]] \in Seq(Node) /\ c[k[i]] = Len(p[k[i]])
      BY <1>1, <1>2, <1>3, <2>3, <3>1 DEF Total
    <3>3. PICK a \in [0 .. m -> Nat] : /\ a[0] = 0 /\ SumOver(c, k) = a[m]
                                       /\ \A i \in 1 .. m : a[i] = a[i - 1] + c[k[i]]
      <4>1. \A i \in 1 .. m : c[k[i]] \in Nat
        BY <3>2
      <4> HIDE DEF k
      <4> QED
        BY <3>1, <4>1, SumSteps
    <3>4. Rows \in Seq(Seq(Node)) /\ Len(Rows) = m /\ \A i \in 1 .. m : Rows[i] = p[k[i]]
      <4> HIDE DEF k
      <4> QED
        BY <3>1, <3>2
    <3>5. PICK q \in [0 .. m -> Seq(Node)] : /\ q[0] = <<>> /\ FlattenSeq(Rows) = q[m]
                                             /\ \A i \in 1 .. m : q[i] = q[i - 1] \o p[k[i]]
      <4>1. PICK q \in [0 .. Len(Rows) -> Seq(Node)] :
              /\ q[0] = <<>> /\ FlattenSeq(Rows) = q[Len(Rows)]
              /\ \A i \in 1 .. Len(Rows) : q[i] = q[i - 1] \o Rows[i]
        <5> HIDE DEF Rows
        <5> QED
          BY <3>4, FlattenSteps
      <4> HIDE DEF Rows, m, k
      <4> QED
        BY <3>4, <4>1
    <3>6. c[n] = a[m] /\ p[n] = q[m]
      BY <1>1, <1>2, <2>3, <3>1, <3>3, <3>5 DEF CountBody, PageBody
    <3> DEFINE T == {i \in 0 .. m : a[i] = Len(q[i])}
    <3>7. 0 \in T
      BY <3>1, <3>3, <3>5
    <3>8. ASSUME NEW i \in 1 .. m, i - 1 \in T
          PROVE  i \in T
      <4>1. i \in 0 .. m /\ i - 1 \in 0 .. m /\ a[i - 1] = Len(q[i - 1])
        BY <3>1, <3>8
      <4>2. q[i - 1] \in Seq(Node) /\ p[k[i]] \in Seq(Node)
        BY <3>2, <3>5, <4>1
      <4>3. Len(q[i - 1] \o p[k[i]]) = Len(q[i - 1]) + Len(p[k[i]])
        BY <4>2
      <4>4. a[i] = a[i - 1] + c[k[i]] /\ q[i] = q[i - 1] \o p[k[i]] /\ c[k[i]] = Len(p[k[i]])
        BY <3>2, <3>3, <3>5
      <4> QED
        BY <4>1, <4>3, <4>4
    <3>9. 0 .. m \subseteq T
      <4> HIDE DEF T, m
      <4> QED
        BY <3>1, <3>7, <3>8, UpTo
    <3> QED
      BY <3>1, <3>6, <3>9
  <2> QED
    BY <2>1, <2>2, <2>3
<1>4. \A n \in Node : n \in S
  <2> HIDE DEF S
  <2> QED
    BY <1>3, Upwards
<1> QED
  BY <1>1, <1>2, <1>4 DEF Total
-----------------------------------------------------------------------------
(* The search answers with the page in reading order, or none.               *)
Reads(no, p, x, r) ==
  IF no <= x.seen + Len(p[x.node])
  THEN r.node = p[x.node][no - x.seen]
  ELSE r.node = Nobody /\ r.seen = x.seen + Len(p[x.node])

LEMMA SearchReads ==
  ASSUME kids \in Tree, NEW no \in Nat, NEW c, NEW p \in Total(Node, Seq(Node)),
         \A n \in Node : p[n] = PageBody(kids, p, n),
         \A n \in DOMAIN kids : c[n] = Len(p[n]),
         NEW o \in Total(Node, Boxes),
         NEW g \in Total(Place, Outcome), \A x \in Place : g[x] = FoundBody(no, c, o, g, x)
  PROVE  \A x \in Place : x.seen < no => Reads(no, p, x, g[x])
<1>0. \A n \in Node : p[n] \in Seq(Node) /\ Len(p[n]) \in Nat
  BY DEF Total
<1> DEFINE S == {n \in Node : \A s \in Nat : \A b \in Boxes :
                    s < no => Reads(no, p, At(s, n, b), g[At(s, n, b)])}
<1>1. ASSUME NEW n \in Node, n \in DOMAIN kids => \A i \in 1 .. Len(kids[n]) : kids[n][i] \in S
      PROVE  n \in S
  <2> SUFFICES ASSUME NEW s \in Nat, NEW b \in Boxes, s < no
               PROVE  Reads(no, p, At(s, n, b), g[At(s, n, b)])
    OBVIOUS
  <2>0. PICK x : x = At(s, n, b)
    OBVIOUS
  <2>1. x \in Place /\ x.seen = s /\ x.node = n /\ x.box = b
    BY <2>0, AtPlace
  <2> DEFINE mine == Nearer(o[n], b)
  <2>2. mine \in Boxes /\ g[x] = FoundBody(no, c, o, g, x)
    BY <2>1 DEF Nearer, Total
  <2>3. CASE n \in Missing
    <3>1. p[n] = <<>> /\ g[x] = At(s, Nobody, NoBox)
      BY <2>1, <2>2, <2>3 DEF PageBody, FoundBody
    <3>2. g[x].node = Nobody /\ g[x].seen = s
      BY <3>1 DEF At
    <3> QED
      BY <2>0, <2>1, <3>1, <3>2 DEF Reads
  <2>4. CASE n \notin Missing /\ n \notin DOMAIN kids
    <3>1. p[n] = <<n>>
      BY <2>4 DEF PageBody
    <3>2. g[x] = IF s + 1 = no THEN At(s + 1, n, mine) ELSE At(s + 1, Nobody, NoBox)
      BY <2>1, <2>2, <2>4 DEF FoundBody
    <3>3. IF s + 1 = no THEN g[x].node = n ELSE g[x].node = Nobody /\ g[x].seen = s + 1
      BY <3>2 DEF At
    <3>4. Len(p[n]) = 1 /\ p[n][1] = n
      BY <3>1
    <3>5. CASE s + 1 = no
      <4>1. no <= s + Len(p[n]) /\ no - s = 1
        BY <3>4, <3>5
      <4> QED
        BY <2>0, <2>1, <3>3, <3>4, <3>5, <4>1 DEF Reads
    <3>6. CASE s + 1 # no
      <4>1. ~(no <= s + Len(p[n]))
        BY <3>4, <3>6
      <4> QED
        BY <2>0, <2>1, <3>3, <3>4, <3>6, <4>1 DEF Reads
    <3> QED
      BY <3>5, <3>6
  <2>5. CASE n \in DOMAIN kids /\ Skips(s, c[n], no)
    <3>1. g[x] = At(s + c[n], Nobody, NoBox) /\ c[n] = Len(p[n]) /\ s + c[n] < no
      BY <2>1, <2>2, <2>5, TreeKids DEF FoundBody, Skips
    <3>2. g[x].node = Nobody /\ g[x].seen = s + Len(p[n])
      BY <3>1 DEF At
    <3>3. ~(no <= s + Len(p[n]))
      BY <1>0, <3>1
    <3> QED
      BY <2>0, <2>1, <3>2, <3>3 DEF Reads
  <2>6. CASE n \in DOMAIN kids /\ ~Skips(s, c[n], no)
    <3> DEFINE k == kids[n]
               m == Len(k)
               Rows == [i \in DOMAIN k |-> p[k[i]]]
    <3>1. /\ n \notin Missing /\ k \in Seq(Node) /\ DOMAIN k = 1 .. m /\ m \in Nat
          /\ \A i \in 1 .. m : k[i] \in Node
      BY <2>6, TreeKids
    <3>2. g[x] = FirstIn(g, s, mine, k)
      BY <2>1, <2>2, <2>6, <3>1 DEF FoundBody
    <3>3. Answers(g, mine, k)
      BY <2>2, <3>1, AtPlace DEF Total, Answers
    <3>4. PICK r : Search(g, s, mine, k, r)
      <4> HIDE DEF k, mine
      <4> QED
        BY <3>1, <3>3, SearchSteps
    <3>5. PICK q \in [0 .. m -> Seq(Node)] : /\ q[0] = <<>> /\ FlattenSeq(Rows) = q[m]
                                             /\ \A i \in 1 .. m : q[i] = q[i - 1] \o p[k[i]]
      <4>0. Rows \in Seq(Seq(Node)) /\ Len(Rows) = m /\ \A i \in 1 .. m : Rows[i] = p[k[i]]
        <5> HIDE DEF k
        <5> QED
          BY <1>0, <3>1
      <4>1. PICK q \in [0 .. Len(Rows) -> Seq(Node)] :
              /\ q[0] = <<>> /\ FlattenSeq(Rows) = q[Len(Rows)]
              /\ \A i \in 1 .. Len(Rows) : q[i] = q[i - 1] \o Rows[i]
        <5> HIDE DEF Rows
        <5> QED
          BY <4>0, FlattenSteps
      <4> HIDE DEF Rows, m, k
      <4> QED
        BY <4>0, <4>1
    <3>6. p[n] = q[m]
      BY <2>6, <3>1, <3>5 DEF PageBody
    <3>7. r \in [0 .. m -> Outcome] /\ r[0] = At(s, Nobody, NoBox) /\ g[x] = r[m]
          /\ \A i \in 1 .. m : r[i] = Then(g, mine, r[i - 1], k[i])
      BY <3>2, <3>4 DEF Search
    <3> DEFINE Right(i) == IF no <= s + Len(q[i]) THEN r[i].node = q[i][no - s]
                           ELSE r[i].node = Nobody /\ r[i].seen = s + Len(q[i])
               T == {i \in 0 .. m : Right(i)}
    <3>8. 0 \in T
      <4>1. Len(q[0]) = 0 /\ r[0].node = Nobody /\ r[0].seen = s
        BY <3>5, <3>7 DEF At
      <4>2. ~(no <= s + Len(q[0])) /\ s = s + Len(q[0])
        BY <4>1
      <4> QED
        BY <3>1, <4>1, <4>2
    <3>9. ASSUME NEW i \in 1 .. m, i - 1 \in T
          PROVE  i \in T
      <4>1. i \in 0 .. m /\ i - 1 \in 0 .. m /\ Right(i - 1)
        BY <3>1, <3>9
      <4>2. PICK q0 : q0 = q[i - 1]
        OBVIOUS
      <4>3. PICK q1 : q1 = q[i]
        OBVIOUS
      <4>4. PICK pk : pk = p[k[i]]
        OBVIOUS
      <4>5. q0 \in Seq(Node) /\ pk \in Seq(Node) /\ q1 = q0 \o pk
        BY <1>0, <3>1, <3>5, <4>1, <4>2, <4>3, <4>4
      <4>6. PICK a : a = Len(q0)
        OBVIOUS
      <4>7. PICK z : z = Len(pk)
        OBVIOUS
      <4>8. /\ a \in Nat /\ z \in Nat /\ Len(q1) = a + z
            /\ \A j \in 1 .. a : q1[j] = q0[j] /\ q0[j] \in Node
            /\ \A j \in 1 .. z : q1[a + j] = pk[j]
        BY <4>5, <4>6, <4>7
      <4>9. PICK r0 : r0 = r[i - 1]
        OBVIOUS
      <4>10. PICK r1 : r1 = r[i]
        OBVIOUS
      <4>11. r0 \in Outcome /\ r1 = Then(g, mine, r0, k[i])
        BY <3>7, <4>1, <4>9, <4>10
      <4>12. IF no <= s + a THEN r0.node = q0[no - s] ELSE r0.node = Nobody /\ r0.seen = s + a
        BY <4>1, <4>2, <4>6, <4>9
      <4>13. CASE no <= s + a
        <5>1. no - s \in 1 .. a
          BY <4>8, <4>13
        <5>2. r0.node = q1[no - s] /\ r0.node \in Node
          BY <4>8, <4>12, <4>13, <5>1
        <5>3. r1 = r0
          BY <4>11, <5>2, NodeAssumption DEF Then
        <5>4. no <= s + Len(q1)
          BY <4>8, <4>13
        <5> QED
          BY <4>1, <4>3, <4>10, <5>2, <5>3, <5>4
      <4>14. CASE ~(no <= s + a)
        <5>1. r0.node = Nobody /\ r0.seen = s + a
          BY <4>12, <4>14
        <5>2. PICK y : y = At(r0.seen, k[i], mine)
          OBVIOUS
        <5>3. r1 = g[y]
          BY <4>11, <5>1, <5>2 DEF Then
        <5>4. s + a \in Nat /\ s + a < no
          BY <4>8, <4>14
        <5>5. PICK s1 \in Nat : s1 = s + a
          BY <5>4
        <5>6. k[i] \in S /\ k[i] \in Node
          BY <1>1, <2>6, <3>1
        <5>7. Reads(no, p, y, g[y])
          <6>1. s1 < no /\ y = At(s1, k[i], mine)
            BY <5>1, <5>2, <5>4, <5>5
          <6> HIDE DEF k, mine
          <6> QED
            BY <2>2, <5>6, <6>1
        <5>8. y.seen = s1 /\ y.node = k[i]
          BY <5>1, <5>2, <5>5 DEF At
        <5>9. IF no <= s1 + z THEN r1.node = pk[no - s1] ELSE r1.node = Nobody /\ r1.seen = s1 + z
          BY <4>4, <4>7, <5>3, <5>7, <5>8 DEF Reads
        <5>10. CASE no <= s1 + z
          <6>0. a \in Nat /\ z \in Nat /\ Len(q1) = a + z
            BY <4>8
          <6>1. no - s1 \in 1 .. z /\ a + (no - s1) = no - s
            <7>1. s1 < no
              BY <5>4, <5>5
            <7> QED
              BY <5>5, <5>10, <6>0, <7>1
          <6>3. no <= s + Len(q1)
            <7>1. s + (a + z) = s1 + z
              BY <5>5, <6>0
            <7> QED
              BY <5>10, <6>0, <7>1
          <6>2. r1.node = q1[no - s]
            BY <4>8, <5>9, <5>10, <6>1
          <6> QED
            BY <4>1, <4>3, <4>10, <6>2, <6>3
        <5>11. CASE ~(no <= s1 + z)
          <6>1. ~(no <= s + Len(q1)) /\ s1 + z = s + Len(q1)
            BY <4>8, <5>5, <5>11
          <6> QED
            BY <4>1, <4>3, <4>10, <5>9, <5>11, <6>1
        <5> QED
          BY <5>10, <5>11
      <4> QED
        BY <4>13, <4>14
    <3>10. 0 .. m \subseteq T
      <4> HIDE DEF T, m
      <4> QED
        BY <3>1, <3>8, <3>9, UpTo
    <3>11. Right(m)
      <4>1. m \in 0 .. m
        BY <3>1
      <4>2. m \in T
        <5> HIDE DEF T, m
        <5> QED
          BY <3>10, <4>1
      <4> HIDE DEF m, Right
      <4> QED
        BY <4>2
    <3> QED
      BY <2>0, <2>1, <3>6, <3>7, <3>11 DEF Reads
  <2> QED
    BY <2>3, <2>4, <2>5, <2>6
<1>2. \A n \in Node : n \in S
  <2> HIDE DEF S
  <2> QED
    BY <1>1, Upwards
<1> SUFFICES ASSUME NEW x \in Place, x.seen < no PROVE Reads(no, p, x, g[x])
  OBVIOUS
<1>3. x.seen \in Nat /\ x.node \in Node /\ x.box \in Boxes /\ x = At(x.seen, x.node, x.box)
  BY PlaceAt
<1>4. x.node \in S
  BY <1>2, <1>3
<1> QED
  BY <1>3, <1>4
-----------------------------------------------------------------------------
(* The search hands down the nearest box.                                    *)
Passed(t, b, n) == IF Above(t, n) = {} THEN NoBox ELSE b[Parent(t, n)]
Owned(t, given, o) ==
  \A n \in Node : o[n] = given[n] \/ (n \notin DOMAIN t /\ o[n] = Nearest(t, given)[n])
Fits(t, b, r) == r.node # Nobody => r.node \notin DOMAIN t /\ r.box = b[r.node]

(* What a node has of its own, or was given when it was opened, or inherits. *)
LEMMA OwnOrPassed ==
  ASSUME NEW t \in Tree, NEW given \in Total(Node, Boxes), NEW o, Owned(t, given, o),
         NEW n \in Node
  PROVE  Nearer(o[n], Passed(t, Nearest(t, given), n)) = Nearest(t, given)[n]
<1>1. PICK b : b = Nearest(t, given)
  OBVIOUS
<1>2. b[n] = IF given[n] # NoBox \/ Above(t, n) = {} THEN given[n] ELSE b[Parent(t, n)]
  BY <1>1, Inheriting DEF BoxBody
<1>3. o[n] = given[n] \/ o[n] = b[n]
  BY <1>1 DEF Owned
<1>4. Nearer(o[n], Passed(t, b, n)) = b[n]
  BY <1>2, <1>3 DEF Nearer, Passed
<1> QED
  BY <1>1, <1>4

(* Only the node above hands a kid its box.                                  *)
LEMMA KidPassed ==
  ASSUME NEW t \in Tree, OneParent(t), NEW b, NEW n \in DOMAIN t,
         NEW i \in 1 .. Len(t[n]), t[n][i] \notin Missing
  PROVE  Passed(t, b, t[n][i]) = b[n]
<1>1. PICK k : k = t[n][i]
  OBVIOUS
<1>2. k \in ToSet(t[n])
  BY <1>1, TreeKids DEF ToSet
<1>3. \A m \in DOMAIN t : k \in ToSet(t[m]) => m = n
  BY <1>1, <1>2 DEF OneParent
<1>4. Above(t, k) = {n}
  BY <1>2, <1>3 DEF Above
<1>5. Parent(t, k) = n
  BY <1>4 DEF Parent
<1> QED
  BY <1>1, <1>4, <1>5 DEF Passed

(* Whatever is found is a page, and has the nearest box.                     *)
LEMMA SearchFits ==
  ASSUME kids \in Tree, OneParent(kids), NEW no \in Nat, NEW c, NEW given \in Total(Node, Boxes),
         NEW o \in Total(Node, Boxes), Owned(kids, given, o),
         NEW g \in Total(Place, Outcome), \A x \in Place : g[x] = FoundBody(no, c, o, g, x)
  PROVE  \A s \in Nat : \A n \in Node :
           Fits(kids, Nearest(kids, given),
                g[At(s, n, Passed(kids, Nearest(kids, given), n))])
<1>1. PICK b : b = Nearest(kids, given)
  OBVIOUS
<1>2. b \in Total(Node, Boxes)
  BY <1>1, Inheriting
<1> DEFINE S == {n \in Node : \A s \in Nat : \A y \in Boxes :
                    n \in Missing \/ y = Passed(kids, b, n) => Fits(kids, b, g[At(s, n, y)])}
<1>3. ASSUME NEW n \in Node, n \in DOMAIN kids => \A i \in 1 .. Len(kids[n]) : kids[n][i] \in S
      PROVE  n \in S
  <2> SUFFICES ASSUME NEW s \in Nat, NEW y \in Boxes, n \in Missing \/ y = Passed(kids, b, n)
               PROVE  Fits(kids, b, g[At(s, n, y)])
    OBVIOUS
  <2>0. PICK x : x = At(s, n, y)
    OBVIOUS
  <2>1. x \in Place /\ x.seen = s /\ x.node = n /\ x.box = y
    BY <2>0, AtPlace
  <2>2. g[x] = FoundBody(no, c, o, g, x)
    BY <2>1
  <2>3. CASE n \in Missing
    <3>1. g[x] = At(s, Nobody, NoBox)
      BY <2>1, <2>2, <2>3 DEF FoundBody
    <3> QED
      BY <2>0, <3>1 DEF At, Fits
  <2>4. n \notin Missing => Nearer(o[n], y) = b[n]
    BY <1>1, OwnOrPassed
  <2>5. CASE n \notin Missing /\ n \notin DOMAIN kids
    <3>1. g[x] = At(s + 1, n, b[n]) \/ g[x] = At(s + 1, Nobody, NoBox)
      BY <2>1, <2>2, <2>4, <2>5 DEF FoundBody
    <3> QED
      BY <2>0, <2>5, <3>1 DEF At, Fits
  <2>6. CASE n \notin Missing /\ n \in DOMAIN kids /\ Skips(s, c[n], no)
    <3>1. g[x] = At(s + c[n], Nobody, NoBox)
      BY <2>1, <2>2, <2>6 DEF FoundBody
    <3> QED
      BY <2>0, <3>1 DEF At, Fits
  <2>7. CASE n \notin Missing /\ n \in DOMAIN kids /\ ~Skips(s, c[n], no)
    <3> DEFINE k == kids[n]
               m == Len(k)
               mine == b[n]
    <3>1. k \in Seq(Node) /\ m \in Nat /\ (\A i \in 1 .. m : k[i] \in Node) /\ mine \in Boxes
      BY <1>2, <2>7, TreeKids DEF Total
    <3>2. g[x] = FirstIn(g, s, mine, k)
      BY <2>1, <2>2, <2>4, <2>7 DEF FoundBody
    <3>3. Answers(g, mine, k)
      BY <3>1, AtPlace DEF Total, Answers
    <3>4. PICK r : Search(g, s, mine, k, r)
      <4> HIDE DEF k, mine
      <4> QED
        BY <3>1, <3>3, SearchSteps
    <3>5. /\ r \in [0 .. m -> Outcome] /\ r[0] = At(s, Nobody, NoBox) /\ g[x] = r[m]
          /\ \A i \in 1 .. m : r[i] = Then(g, mine, r[i - 1], k[i])
      BY <3>2, <3>4 DEF Search
    <3>6. \A i \in 1 .. m : k[i] \in S /\ (k[i] \notin Missing => Passed(kids, b, k[i]) = mine)
      BY <1>3, <2>7, KidPassed
    <3> HIDE DEF k, mine
    <3> DEFINE T == {i \in 0 .. m : Fits(kids, b, r[i])}
    <3>7. 0 \in T
      BY <3>1, <3>5 DEF Fits, At
    <3>8. ASSUME NEW i \in 1 .. m, i - 1 \in T
          PROVE  i \in T
      <4>1. i \in 0 .. m /\ i - 1 \in 0 .. m /\ Fits(kids, b, r[i - 1])
        BY <3>1, <3>8
      <4>2. r[i - 1].seen \in Nat
        BY <3>5, <4>1 DEF Outcome
      <4>3. Fits(kids, b, g[At(r[i - 1].seen, k[i], mine)])
        BY <3>1, <3>6, <4>2
      <4>4. Fits(kids, b, r[i])
        BY <3>5, <4>1, <4>3 DEF Then
      <4> QED
        BY <4>1, <4>4
    <3>9. 0 .. m \subseteq T
      <4> HIDE DEF T, m
      <4> QED
        BY <3>1, <3>7, <3>8, UpTo
    <3>10. Fits(kids, b, r[m])
      <4>1. m \in 0 .. m
        BY <3>1
      <4> QED
        BY <3>9, <4>1
    <3> QED
      BY <2>0, <3>5, <3>10
  <2> QED
    BY <2>3, <2>5, <2>6, <2>7
<1>4. \A n \in Node : n \in S
  <2> HIDE DEF S
  <2> QED
    BY <1>3, Upwards
<1> SUFFICES ASSUME NEW s \in Nat, NEW n \in Node
             PROVE  Fits(kids, b, g[At(s, n, Passed(kids, b, n))])
  BY <1>1
<1>5. Passed(kids, b, n) \in Boxes
  BY <1>2, ParentNode DEF Passed, Total, Boxes
<1> QED
  BY <1>4, <1>5
-----------------------------------------------------------------------------
(* What opening a page finds, once the counts are corrected.                 *)
LEMMA FoundIs ==
  ASSUME kids \in Tree, NEW no \in Nat, 0 < no, NEW given \in Total(Node, Boxes),
         NEW o \in Total(Node, Boxes), NEW c, \A n \in DOMAIN kids : c[n] = Counted(kids, n),
         OneParent(kids) => Owned(kids, given, o),
         NEW f, f = Found(no, c, o)
  PROVE  /\ f \in Outcome
         /\ IF no <= Len(PagesUnder(kids, Root)) THEN f.node = PagesUnder(kids, Root)[no]
                                                 ELSE f.node = Nobody
         /\ OneParent(kids) => Fits(kids, Nearest(kids, given), f)
<1>1. PICK p : /\ p \in Total(Node, Seq(Node)) /\ \A n \in Node : p[n] = PageBody(kids, p, n)
               /\ \A n \in Node : PagesUnder(kids, n) = p[n]
  BY Reading
<1>2. \A n \in DOMAIN kids : c[n] \in Nat /\ c[n] = Len(p[n])
  BY <1>1, TreeKids, CountIsLength
<1>3. PICK g : /\ g \in Total(Place, Outcome) /\ \A x \in Place : g[x] = FoundBody(no, c, o, g, x)
               /\ f = g[At(0, Root, NoBox)]
  BY <1>2, Searching
<1>4. Root \in Node /\ NoBox \in Boxes
  BY NodeAssumption DEF Boxes
<1>5. PICK x : x = At(0, Root, NoBox)
  OBVIOUS
<1>6. x \in Place /\ x.seen = 0 /\ x.node = Root /\ x.box = NoBox
  BY <1>4, <1>5, AtPlace
<1>7. f \in Outcome
  BY <1>3, <1>5, <1>6 DEF Total
<1>8. IF no <= Len(p[Root]) THEN f.node = p[Root][no] ELSE f.node = Nobody
  <2>1. \A n \in DOMAIN kids : c[n] = Len(p[n])
    BY <1>2
  <2>2. \A y \in Place : y.seen < no => Reads(no, p, y, g[y])
    BY <1>1, <1>3, <2>1, SearchReads
  <2>3. Reads(no, p, x, f)
    BY <1>3, <1>5, <1>6, <2>2
  <2>4. PICK z \in Nat : z = Len(p[Root])
    BY <1>1, <1>4 DEF Total
  <2>5. 0 + z = z /\ no - 0 = no
    BY <2>4
  <2> QED
    BY <1>6, <2>3, <2>4, <2>5 DEF Reads
<1>9. ASSUME OneParent(kids)
      PROVE  Fits(kids, Nearest(kids, given), f)
  <2>1. \A s \in Nat : \A n \in Node :
          Fits(kids, Nearest(kids, given), g[At(s, n, Passed(kids, Nearest(kids, given), n))])
    BY <1>3, <1>9, SearchFits
  <2>2. Passed(kids, Nearest(kids, given), Root) = NoBox
    BY <1>9 DEF OneParent, Above, Passed
  <2> QED
    BY <1>3, <1>4, <2>1, <2>2
<1> QED
  BY <1>1, <1>4, <1>7, <1>8, <1>9
-----------------------------------------------------------------------------
(* An open document keeps every object, counts what it counted, and gave to  *)
(* each page it opened the box the page already had or inherits; the last    *)
(* page opened is the one asked for.                                         *)
OpenInv ==
  /\ kept = Node /\ total = Counted(kids, Root)
  /\ count = [n \in DOMAIN kids |-> Counted(kids, n)]
  /\ OneParent(kids) => Owned(kids, box, own)
ClosedInv ==
  /\ total = 0 /\ count = stated /\ own = box /\ answer = Asked(0, Nobody, NoBox)

Loadable(n, boxes) == Loads(n, boxes[n])
PageGiven(t, given, a) ==
  /\ a.node # Nobody => /\ a.no <= Len(PagesUnder(t, Root))
                        /\ a.node = PagesUnder(t, Root)[a.no]
                        /\ OneParent(t) => a.box = Nearest(t, given)[a.node]
  /\ OneParent(t) =>
       (a.no \in 1 .. Counted(t, Root)
          => (a.node = Nobody <=> ~Loadable(PagesUnder(t, Root)[a.no], Nearest(t, given))))

IInv ==
  /\ TypeOK
  /\ open => OpenInv
  /\ ~open => ClosedInv
  /\ PageGiven(kids, box, answer)

(* Counts are numbers, and before a page is asked for nothing is claimed.    *)
LEMMA Counts0 ==
  ASSUME NEW t \in Tree, NEW given
  PROVE  /\ Counted(t, Root) \in Nat /\ \A n \in DOMAIN t : Counted(t, n) \in Nat
         /\ PageGiven(t, given, Asked(0, Nobody, NoBox))
<1>1. Counted(t, Root) \in Nat /\ \A n \in DOMAIN t : Counted(t, n) \in Nat
  BY CountIsLength, TreeKids, NodeAssumption
<1>2. PageGiven(t, given, Asked(0, Nobody, NoBox))
  <2>1. 0 \notin 1 .. Counted(t, Root)
    BY <1>1
  <2> QED
    BY <2>1 DEF Asked, PageGiven
<1> QED
  BY <1>1, <1>2

(* The answer before the first.                                              *)
LEMMA NoAnswer == Asked(0, Nobody, NoBox) \in
                    [no : 0 .. MaxPages, node : Node \cup {Nobody}, box : Boxes]
BY CountsAssumption DEF Asked, Boxes

(* Init establishes the invariant: no document is open.                      *)
LEMMA InitKept == Init => IInv
<1> SUFFICES ASSUME Init PROVE IInv
  OBVIOUS
<1>1. kids \in Tree /\ stated \in [DOMAIN kids -> Counts] /\ open = FALSE /\ ClosedInv /\ kept = {}
  BY DEF Init, ClosedInv
<1>2. box \in [Node -> Boxes]
  BY DEF Init, Boxes
<1>3. TypeOK
  BY <1>1, <1>2, CountsAssumption, NoAnswer DEF TypeOK, ClosedInv
<1>4. PageGiven(kids, box, answer)
  BY <1>1, Counts0 DEF ClosedInv
<1> QED
  BY <1>1, <1>3, <1>4 DEF IInv

(* What pdf_getpagecount leaves behind in a document that is open or opens.  *)
LEMMA CountingCorrects ==
  ASSUME IInv, CountPages, UNCHANGED <<kids, stated, box, own, answer>>, open'
  PROVE  IInv'
<1>1. kids \in Tree /\ DOMAIN count = DOMAIN kids /\ kept \subseteq Node
  BY DEF IInv, TypeOK
<1>2. kept' = Node
  BY <1>1 DEF CountPages, Resolved
<1>3. count' = [n \in DOMAIN kids |-> Counted(kids, n)]
  <2>1. count' = [n \in DOMAIN count |->
                    IF count[n] # Counted(kids, n) THEN Counted(kids, n) ELSE count[n]]
    BY DEF CountPages, Corrected
  <2>2. \A n \in DOMAIN kids : count'[n] = Counted(kids, n)
    BY <1>1, <2>1
  <2> QED
    BY <1>1, <2>1, <2>2
<1>4. total' = Counted(kids, Root)
  BY DEF CountPages
<1>5. OneParent(kids) => Owned(kids, box, own)
  BY DEF IInv, OpenInv, ClosedInv, Owned
<1>6. OpenInv'
  BY <1>2, <1>3, <1>4, <1>5 DEF OpenInv
<1>7. TypeOK'
  BY <1>1, <1>2, <1>3, <1>4, Counts0 DEF IInv, TypeOK
<1>8. PageGiven(kids, box, answer)'
  BY DEF IInv
<1> QED
  BY <1>6, <1>7, <1>8 DEF IInv

(* A page opened is the one asked for, and is given its nearest box.         *)
LEMMA OpeningFinds ==
  ASSUME IInv, NEW no \in 1 .. MaxPages, PageOpen(no)
  PROVE  IInv'
<1>1. /\ kids \in Tree /\ stated \in [DOMAIN kids -> Counts] /\ box \in Total(Node, Boxes)
      /\ own \in Total(Node, Boxes) /\ total \in Nat /\ open
      /\ \A n \in DOMAIN kids : n \in Node
  BY TreeKids DEF IInv, TypeOK, PageOpen, Total
<1>2. /\ kept = Node /\ total = Counted(kids, Root)
      /\ count = [n \in DOMAIN kids |-> Counted(kids, n)]
      /\ OneParent(kids) => Owned(kids, box, own)
  BY <1>1 DEF IInv, OpenInv
<1>3. Flushed(count, stated) = count /\ Flushed(own, box) = own
  BY <1>1, <1>2 DEF Flushed, Total
<1>4. PICK f : f = Found(no, count, own)
  OBVIOUS
<1>5. /\ count' = count
      /\ own' = IF f.node = Nobody THEN own ELSE [own EXCEPT ![f.node] = f.box]
      /\ answer' = Asked(no, IF Loads(f.node, f.box) THEN f.node ELSE Nobody, f.box)
      /\ kept' = Resolved(kept)
      /\ kids' = kids /\ stated' = stated /\ box' = box /\ open' = open /\ total' = total
  BY <1>3, <1>4 DEF PageOpen, file
<1>6. no \in Nat /\ 0 < no /\ no \in 0 .. MaxPages
  BY CountsAssumption
<1>7. /\ f \in Outcome
      /\ IF no <= Len(PagesUnder(kids, Root)) THEN f.node = PagesUnder(kids, Root)[no]
                                              ELSE f.node = Nobody
      /\ OneParent(kids) => Fits(kids, Nearest(kids, box), f)
  <2>1. \A n \in DOMAIN kids : count[n] = Counted(kids, n)
    BY <1>2
  <2> QED
    BY <1>1, <1>2, <1>4, <1>6, <2>1, FoundIs
<1>8. f.node \in Node \cup {Nobody} /\ f.box \in Boxes
  BY <1>7 DEF Outcome
<1>9. kept' = Node /\ own' \in Total(Node, Boxes)
  BY <1>1, <1>2, <1>5, <1>8 DEF Resolved, Total
<1>10. OneParent(kids) => Owned(kids, box, own')
  <2> SUFFICES ASSUME OneParent(kids), NEW n \in Node
               PROVE  own'[n] = box[n] \/ (n \notin DOMAIN kids /\ own'[n] = Nearest(kids, box)[n])
    BY DEF Owned
  <2>1. CASE f.node = n /\ f.node # Nobody
    <3>1. own'[n] = f.box
      BY <1>1, <1>5, <2>1 DEF Total
    <3> QED
      BY <1>7, <2>1, <3>1 DEF Fits
  <2>2. CASE ~(f.node = n /\ f.node # Nobody)
    <3>1. own'[n] = own[n]
      BY <1>1, <1>5, <2>2 DEF Total
    <3> QED
      BY <1>2, <3>1 DEF Owned
  <2> QED
    BY <2>1, <2>2
<1>11. OpenInv'
  BY <1>2, <1>5, <1>9, <1>10 DEF OpenInv
<1>12. answer' \in [no : 0 .. MaxPages, node : Node \cup {Nobody}, box : Boxes]
  BY <1>5, <1>6, <1>8 DEF Asked
<1>13. TypeOK'
  BY <1>1, <1>2, <1>5, <1>9, <1>12 DEF IInv, TypeOK, Total
<1>14. PageGiven(kids, box, answer')
  <2>1. PICK a : a = answer'
    OBVIOUS
  <2>2. /\ a.no = no /\ a.node = (IF Loads(f.node, f.box) THEN f.node ELSE Nobody) /\ a.box = f.box
    BY <1>5, <2>1 DEF Asked
  <2>3. Counted(kids, Root) = Len(PagesUnder(kids, Root)) /\ Counted(kids, Root) \in Nat
    BY <1>1, CountIsLength, NodeAssumption
  <2>4. ASSUME a.node # Nobody
        PROVE  /\ a.no <= Len(PagesUnder(kids, Root)) /\ a.node = PagesUnder(kids, Root)[a.no]
               /\ OneParent(kids) => a.box = Nearest(kids, box)[a.node]
    BY <1>7, <2>2, <2>4 DEF Fits
  <2>5. ASSUME OneParent(kids), a.no \in 1 .. Counted(kids, Root)
        PROVE  a.node = Nobody <=> ~Loadable(PagesUnder(kids, Root)[a.no], Nearest(kids, box))
    <3>1. no <= Len(PagesUnder(kids, Root)) /\ no \in 1 .. Len(PagesUnder(kids, Root))
      BY <2>2, <2>3, <2>5
    <3>2. PagesUnder(kids, Root) \in Seq(Node)
      BY <1>1, CountIsLength, NodeAssumption
    <3>3. f.node = PagesUnder(kids, Root)[no] /\ f.node \in Node
      BY <1>7, <3>1, <3>2
    <3>4. f.node # Nobody /\ f.box = Nearest(kids, box)[f.node]
      BY <1>7, <2>5, <3>3, NodeAssumption DEF Fits
    <3> QED
      BY <2>2, <3>3, <3>4 DEF Loadable
  <2>6. PageGiven(kids, box, a)
    BY <2>4, <2>5 DEF PageGiven
  <2> QED
    BY <2>1, <2>6
<1>15. PageGiven(kids, box, answer)'
  BY <1>5, <1>14
<1> QED
  BY <1>1, <1>5, <1>11, <1>13, <1>15 DEF IInv

(* Every step keeps it.                                                      *)
LEMMA NextKept == IInv /\ [Next]_vars => IInv'
<1> SUFFICES ASSUME IInv, [Next]_vars
             PROVE  IInv'
  OBVIOUS
<1>1. CASE Open
  BY <1>1, CountingCorrects DEF Open, file
<1>2. CASE getPageCount
  BY <1>2, CountingCorrects DEF getPageCount, file
<1>3. CASE Close
  <2>1. /\ kids' = kids /\ stated' = stated /\ box' = box /\ open' = FALSE
        /\ count' = stated /\ own' = box /\ kept' = {} /\ total' = 0
        /\ answer' = Asked(0, Nobody, NoBox)
    BY <1>3 DEF Close, file
  <2>2. kids \in Tree /\ stated \in [DOMAIN kids -> Counts] /\ box \in [Node -> Boxes]
    BY DEF IInv, TypeOK
  <2>3. ClosedInv'
    BY <2>1 DEF ClosedInv
  <2>4. TypeOK'
    BY <2>1, <2>2, CountsAssumption, NoAnswer DEF TypeOK
  <2>5. PageGiven(kids, box, answer)'
    BY <2>1, <2>2, Counts0
  <2> QED
    BY <2>1, <2>3, <2>4, <2>5 DEF IInv
<1>4. ASSUME NEW no \in 1 .. MaxPages, PageOpen(no)
      PROVE  IInv'
  BY <1>4, OpeningFinds
<1>5. CASE UNCHANGED vars
  BY <1>5 DEF vars, file, IInv, TypeOK, OpenInv, ClosedInv
<1> QED
  BY <1>1, <1>2, <1>3, <1>4, <1>5 DEF Next

(* It always holds.                                                          *)
LEMMA Kept == Spec => []IInv
BY InitKept, NextKept, PTL DEF Spec

(* Every variable keeps its type; the counts stay numbers whatever the file  *)
(* states.                                                                   *)
THEOREM PageTreeType == Spec => []TypeOK
<1>1. IInv => TypeOK
  BY DEF IInv
<1> QED
  BY <1>1, Kept, PTL

(* While the document is open the counts in memory are the corrected ones,   *)
(* for every tree and every stated count (pdf_pagetree.c 75-81 and           *)
(* pdf_flushxref).                                                           *)
THEOREM PageTreeCorrectionsStay == Spec => []CorrectionsStay
<1>1. IInv => CorrectionsStay
  BY DEF IInv, OpenInv, CorrectionsStay
<1> QED
  BY <1>1, Kept, PTL

(* The page opened is the page asked for in reading order, for every tree    *)
(* without a cycle and every count stated in it: no subtree is skipped by a  *)
(* count that still is the file's (pdf_getpageobject).                       *)
THEOREM OpensTheNth == Spec => []PageIsTheNth
<1>1. IInv => PageIsTheNth
  BY DEF IInv, PageGiven, PageIsTheNth, PagesOf
<1> QED
  BY <1>1, Kept, PTL

(* Where no node is listed under two, a page is opened with its own box or   *)
(* the nearest one above it, whichever pages were opened and written into    *)
(* before (the inherited keys pdf_getpageobject hands down).                 *)
THEOREM InheritsNearest ==
  ASSUME \A t \in Tree : OneParent(t)
  PROVE  Spec => []BoxIsNearest
<1>1. IInv => BoxIsNearest
  BY DEF IInv, TypeOK, PageGiven, BoxIsNearest, BoxOf
<1> QED
  BY <1>1, Kept, PTL

(* In the same trees, and for every choice of unfit boxes and of spoiled     *)
(* contents, a page the count promises opens exactly when its own or nearest *)
(* inherited box is fit and its contents are not spoiled: neither a page     *)
(* skipped nor a box lost makes pdf_loadpage throw.                          *)
THEOREM PromisesKept ==
  ASSUME \A t \in Tree : OneParent(t)
  PROVE  Spec => []PromisedPagesOpen
<1>1. IInv => PromisedPagesOpen
  <2> SUFFICES ASSUME IInv, answer.no \in 1 .. total
               PROVE  answer.node = Nobody <=> ~Opens(PagesOf[answer.no])
    BY DEF PromisedPagesOpen
  <2>1. open
    BY DEF IInv, ClosedInv, TypeOK
  <2>2. total = Counted(kids, Root) /\ kids \in Tree
    BY <2>1 DEF IInv, OpenInv, TypeOK
  <2>3. answer.no \in 1 .. Counted(kids, Root) /\ OneParent(kids) /\ PageGiven(kids, box, answer)
    BY <2>2 DEF IInv
  <2> QED
    BY <2>3 DEF PageGiven, Loadable, Opens, BoxOf, PagesOf
<1> QED
  BY <1>1, Kept, PTL
=============================================================================
