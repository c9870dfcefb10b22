---------------------------- MODULE SumTheorems ----------------------------
(***************************************************************************)
(* What the proofs need of totals over finite sets: the sums that tracker  *)
(* queries and book walks are modelled by (MapThenSumSet).  The library's  *)
(* induction theorems take an operator, so induction is stated here over a *)
(* set: the numbers, or the subsets, that have a property.                 *)
(***************************************************************************)
EXTENDS Integers, FiniteSetsExt, FiniteSetTheorems, WellFoundedInduction, TLAPS

-----------------------------------------------------------------------------
(* Induction over the numbers and over the subsets of a finite set.        *)

\* A set of numbers without gaps from zero on holds every number (sums are built by the
\* number of members counted).
LEMMA CountingUp ==
  ASSUME NEW S, 0 \in S, \A n \in Nat : n \in S => n + 1 \in S
  PROVE  \A n \in Nat : n \in S
<1> DEFINE T == Nat \ S
           R == OpToRel(<, Nat)
<1> SUFFICES ASSUME T # {} PROVE FALSE
  OBVIOUS
<1>1. IsWellFoundedOn(R, Nat)
  BY NatLessThanWellFounded
<1>2. \A x, y \in Nat : y < x => <<y, x>> \in R
  BY DEF OpToRel
<1>3. T \in SUBSET Nat
  OBVIOUS
<1> HIDE DEF R, T
<1>4. PICK x \in T : \A y \in T : ~ (<<y, x>> \in R)
  BY <1>1, <1>3, WFMin
<1> USE DEF T
<1>5. x \in Nat /\ x # 0 /\ x \notin S
  OBVIOUS
<1>6. x - 1 \in Nat /\ x - 1 < x /\ (x - 1) + 1 = x
  BY <1>5
<1>7. x - 1 \in S
  BY <1>2, <1>4, <1>5, <1>6
<1> QED
  BY <1>5, <1>6, <1>7

\* What holds of a set when it holds of the set without any of its members holds of every
\* subset of a finite one.
LEMMA SetBySet ==
  ASSUME NEW S, IsFiniteSet(S), NEW T,
         \A s \in SUBSET S : (\A x \in s : s \ {x} \in T) => s \in T
  PROVE  \A s \in SUBSET S : s \in T
<1> DEFINE C == {n \in Nat : \A s \in SUBSET S : Cardinality(s) = n => s \in T}
<1>1. \A s \in SUBSET S : IsFiniteSet(s) /\ Cardinality(s) \in Nat
  BY FS_Subset, FS_CardinalityType
<1>2. 0 \in C
  BY <1>1, FS_EmptySet
<1>3. ASSUME NEW n \in Nat, n \in C PROVE n + 1 \in C
  <2> SUFFICES ASSUME NEW s \in SUBSET S, Cardinality(s) = n + 1 PROVE s \in T
    OBVIOUS
  <2>1. ASSUME NEW x \in s PROVE s \ {x} \in SUBSET S /\ Cardinality(s \ {x}) = n
    <3>1. Cardinality(s \ {x}) = Cardinality(s) - 1
      BY <1>1, FS_RemoveElement
    <3> QED
      BY <3>1
  <2> QED
    BY <1>3, <2>1
<1>4. \A n \in Nat : n \in C
  <2> HIDE DEF C
  <2> QED
    BY <1>2, <1>3, CountingUp
<1> QED
  BY <1>1, <1>4

-----------------------------------------------------------------------------
(* Sums.                                                                   *)

Tally(w, S) == MapThenSumSet(LAMBDA x : w[x], S)

Pick(s) == CHOOSE x \in s : TRUE

\* g adds up the weights w over the sets of D, member by member.
AddsUp(g, w, D) ==
  g = [s \in D |-> IF s = {} THEN 0 ELSE w[Pick(s)] + g[s \ {Pick(s)}]]

Sum(w, D) == CHOOSE g : AddsUp(g, w, SUBSET D)

\* The sum over every subset exists: it is built by their number.
LEMMA SumExists == ASSUME NEW A, IsFiniteSet(A), NEW w PROVE AddsUp(Sum(w, A), w, SUBSET A)
<1> DEFINE D(n) == {s \in SUBSET A : Cardinality(s) <= n}
           C == {n \in Nat : \E g : AddsUp(g, w, D(n))}
<1>1. \A s \in SUBSET A : IsFiniteSet(s) /\ Cardinality(s) \in Nat
  BY FS_Subset, FS_CardinalityType
<1>2. \A s \in SUBSET A : s # {} => /\ Pick(s) \in s /\ s \ {Pick(s)} \in SUBSET A
                                         /\ Cardinality(s \ {Pick(s)}) = Cardinality(s) - 1
  <2> SUFFICES ASSUME NEW s \in SUBSET A, s # {}
               PROVE  /\ Pick(s) \in s /\ s \ {Pick(s)} \in SUBSET A
                      /\ Cardinality(s \ {Pick(s)}) = Cardinality(s) - 1
    OBVIOUS
  <2>1. Pick(s) \in s
    BY DEF Pick
  <2> QED
    BY <1>1, <2>1, FS_RemoveElement
<1>3. 0 \in C
  <2> DEFINE g == [s \in D(0) |-> 0]
  <2>1. \A s \in D(0) : s = {}
    BY <1>1, FS_EmptySet
  <2>2. AddsUp(g, w, D(0))
    BY <2>1 DEF AddsUp
  <2> HIDE DEF g, D
  <2> QED
    BY <2>2
<1>4. ASSUME NEW n \in Nat, n \in C PROVE n + 1 \in C
  <2>1. PICK g : AddsUp(g, w, D(n))
    BY <1>4
  <2> DEFINE h == [s \in D(n + 1) |-> IF s = {} THEN 0 ELSE w[Pick(s)] + g[s \ {Pick(s)}]]
  <2>2. \A s \in D(n) : s \in D(n + 1) /\ h[s] = g[s]
    <3>1. \A s \in D(n) : s \in D(n + 1)
      BY <1>1
    <3>2. \A s \in D(n) : g[s] = IF s = {} THEN 0 ELSE w[Pick(s)] + g[s \ {Pick(s)}]
      BY <2>1 DEF AddsUp
    <3> HIDE DEF D
    <3> QED
      BY <3>1, <3>2
  <2>3. \A s \in D(n + 1) : s # {} => s \ {Pick(s)} \in D(n)
    BY <1>1, <1>2
  <2>4. \A s \in D(n + 1) : h[s] = IF s = {} THEN 0 ELSE w[Pick(s)] + h[s \ {Pick(s)}]
    <3> HIDE DEF D
    <3> QED
      BY <2>2, <2>3
  <2>5. h = [s \in D(n + 1) |-> h[s]]
    OBVIOUS
  <2> HIDE DEF D, h
  <2>6. AddsUp(h, w, D(n + 1))
    BY <2>4, <2>5 DEF AddsUp
  <2> QED
    BY <2>6
<1>5. Cardinality(A) \in C
  <2> HIDE DEF C
  <2> QED
    BY <1>1, <1>3, <1>4, CountingUp
<1>6. D(Cardinality(A)) = SUBSET A
  BY <1>1, FS_Subset
<1> HIDE DEF D
<1> QED
  BY <1>5, <1>6 DEF Sum

\* Any way to add up the weights of a set gives the same, in any order.
LEMMA SumIs ==
  ASSUME NEW A, IsFiniteSet(A), NEW w \in [A -> Int]
  PROVE  /\ Sum(w, A) \in [SUBSET A -> Int] /\ Sum(w, A)[{}] = 0
         /\ \A s \in SUBSET A : \A x \in s : Sum(w, A)[s] = w[x] + Sum(w, A)[s \ {x}]
<1> DEFINE f == Sum(w, A)
<1>1. f = [s \in SUBSET A |-> IF s = {} THEN 0 ELSE w[Pick(s)] + f[s \ {Pick(s)}]]
  BY SumExists DEF AddsUp
<1>2. \A s \in SUBSET A : s # {} => Pick(s) \in s
  BY DEF Pick
<1> HIDE DEF f
<1>3. f[{}] = 0 /\ \A s \in SUBSET A : s # {} => f[s] = w[Pick(s)] + f[s \ {Pick(s)}]
  BY <1>1
<1>4. \A s \in SUBSET A : f[s] \in Int
  <2> DEFINE T == {s \in SUBSET A : f[s] \in Int}
  <2>1. ASSUME NEW s \in SUBSET A, \A x \in s : s \ {x} \in T PROVE s \in T
    <3>1. CASE s = {}
      BY <1>3, <3>1
    <3>2. CASE s # {}
      <4>1. Pick(s) \in s /\ f[s] = w[Pick(s)] + f[s \ {Pick(s)}]
        BY <1>2, <1>3, <3>2
      <4>2. w[Pick(s)] \in Int /\ f[s \ {Pick(s)}] \in Int
        BY <2>1, <4>1
      <4> QED
        BY <4>1, <4>2
    <3> QED
      BY <3>1, <3>2
  <2>2. \A s \in SUBSET A : s \in T
    <3> HIDE DEF T
    <3> QED
      BY <2>1, SetBySet
  <2> QED
    BY <2>2
<1> DEFINE T == {s \in SUBSET A : \A x \in s : f[s] = w[x] + f[s \ {x}]}
<1>5. ASSUME NEW s \in SUBSET A, \A x \in s : s \ {x} \in T PROVE s \in T
  <2> SUFFICES ASSUME s # {} PROVE s \in T
    OBVIOUS
  <2> DEFINE p == Pick(s)
  <2>1. p \in s /\ f[s] = w[p] + f[s \ {p}] /\ w[p] \in Int
    BY <1>2, <1>3
  <2> HIDE DEF p
  <2>2. ASSUME NEW x \in s, x # p PROVE f[s] = w[x] + f[s \ {x}]
    <3> DEFINE u == s \ {p, x}
    <3>1. u = (s \ {x}) \ {p} /\ u = (s \ {p}) \ {x} /\ u \in SUBSET A
      OBVIOUS
    <3> HIDE DEF u
    <3>2. f[s \ {x}] = w[p] + f[u] /\ f[s \ {p}] = w[x] + f[u]
      BY <1>5, <2>1, <2>2, <3>1
    <3>3. f[u] \in Int /\ w[x] \in Int
      BY <1>4, <3>1
    <3> QED
      BY <2>1, <3>2, <3>3
  <2> QED
    BY <2>1, <2>2
<1>6. \A s \in SUBSET A : s \in T
  <2> HIDE DEF T
  <2> QED
    BY <1>5, SetBySet
<1>7. f \in [SUBSET A -> Int]
  BY <1>1, <1>4
<1> QED
  BY <1>3, <1>6, <1>7 DEF f
\* The folds of the community modules (MapThenSumSet, which totals the trades table and walks the book) are these sums.
LEMMA TallyIs ==
  ASSUME NEW A, IsFiniteSet(A), NEW w \in [A -> Int], NEW S \in SUBSET A
  PROVE  Tally(w, S) = Sum(w, A)[S]
<1> DEFINE f == Sum(w, A)
           step(g, s) == IF s = {} THEN 0
                         ELSE w[CHOOSE x \in s : TRUE] + g[s \ {CHOOSE x \in s : TRUE}]
           Sums(g) == g = [s \in SUBSET S |-> step(g, s)]
           it == CHOOSE g : Sums(g)
           g0 == [s \in SUBSET S |-> f[s]]
<1>1. Tally(w, S) = it[S]
  BY DEF Tally, MapThenSumSet, MapThenFoldSet
<1>3. f = [s \in SUBSET A |-> IF s = {} THEN 0 ELSE w[Pick(s)] + f[s \ {Pick(s)}]]
  BY SumExists DEF AddsUp
<1>4. \A s \in SUBSET A : s # {} => Pick(s) \in s
  BY DEF Pick
<1> HIDE DEF f
<1>5. \A s \in SUBSET S : f[s] = IF s = {} THEN 0 ELSE w[Pick(s)] + f[s \ {Pick(s)}]
  BY <1>3
<1>6. \A s \in SUBSET S : g0[s] = step(g0, s)
  <2> SUFFICES ASSUME NEW s \in SUBSET S, s # {} PROVE g0[s] = step(g0, s)
    BY <1>5
  <2>1. Pick(s) \in s /\ s \ {Pick(s)} \in SUBSET S
    BY <1>4
  <2>2. step(g0, s) = w[Pick(s)] + g0[s \ {Pick(s)}]
    BY DEF Pick
  <2> QED
    BY <1>5, <2>1, <2>2
<1>7. Sums(g0)
  BY <1>6
<1>8. Sums(it)
  <2> HIDE DEF Sums
  <2> QED
    BY <1>7
<1>9. \A s \in SUBSET S : it[s] = step(it, s)
  BY <1>8
<1> HIDE DEF it, Sums
<1> DEFINE T == {s \in SUBSET S : it[s] = f[s]}
<1>10. ASSUME NEW s \in SUBSET S, \A x \in s : s \ {x} \in T PROVE s \in T
  <2>1. CASE s = {}
    BY <1>5, <1>9, <2>1
  <2>2. CASE s # {}
    <3>1. Pick(s) \in s
      BY <1>4, <2>2
    <3>2. it[s \ {Pick(s)}] = f[s \ {Pick(s)}]
      BY <1>10, <3>1
    <3>3. it[s] = w[Pick(s)] + it[s \ {Pick(s)}]
      BY <1>9, <2>2 DEF Pick
    <3>4. f[s] = w[Pick(s)] + f[s \ {Pick(s)}]
      BY <1>5, <2>2
    <3> QED
      BY <3>1, <3>2, <3>3, <3>4
  <2> QED
    BY <2>1, <2>2
<1>11. S \in T
  <2>1. IsFiniteSet(S)
    BY FS_Subset
  <2> HIDE DEF T
  <2> QED
    BY <1>10, <2>1, SetBySet
<1> QED
  BY <1>1, <1>11 DEF f

\* A total is a number, nothing adds up to zero, and any member may be taken out first.
LEMMA Tallies ==
  ASSUME NEW A, IsFiniteSet(A), NEW w \in [A -> Int]
  PROVE  /\ Tally(w, {}) = 0
         /\ \A S \in SUBSET A :
              Tally(w, S) \in Int /\ \A x \in S : Tally(w, S) = w[x] + Tally(w, S \ {x})
<1>1. \A S \in SUBSET A : Tally(w, S) = Sum(w, A)[S]
  BY TallyIs
<1> DEFINE f == Sum(w, A)
<1>2. /\ f \in [SUBSET A -> Int] /\ f[{}] = 0
      /\ \A s \in SUBSET A : \A x \in s : f[s] = w[x] + f[s \ {x}]
  BY SumIs
<1>3. \A S \in SUBSET A : Tally(w, S) = f[S]
  BY <1>1
<1> HIDE DEF f
<1>4. {} \in SUBSET A /\ \A S \in SUBSET A : \A x \in S : S \ {x} \in SUBSET A
  OBVIOUS
<1> QED
  BY <1>2, <1>3, <1>4

\* Weights that agree on a set have the same total over it (a level of a book that a walk
\* reaches next leaves what it took before).
LEMMA SameTally ==
  ASSUME NEW A, IsFiniteSet(A), NEW v \in [A -> Int], NEW w \in [A -> Int],
         NEW S \in SUBSET A, \A x \in S : v[x] = w[x]
  PROVE  Tally(v, S) = Tally(w, S)
<1> DEFINE T == {s \in SUBSET S : Tally(v, s) = Tally(w, s)}
<1>1. ASSUME NEW s \in SUBSET S, \A x \in s : s \ {x} \in T PROVE s \in T
  <2>1. CASE s = {}
    BY <2>1, Tallies
  <2>2. CASE s # {}
    <3>1. PICK x \in s : TRUE
      BY <2>2
    <3>2. s \in SUBSET A /\ x \in s
      BY <3>1
    <3>3. Tally(v, s) = v[x] + Tally(v, s \ {x}) /\ Tally(w, s) = w[x] + Tally(w, s \ {x})
      BY <3>2, Tallies
    <3>4. Tally(v, s \ {x}) = Tally(w, s \ {x})
      BY <1>1, <3>1
    <3> QED
      BY <3>1, <3>3, <3>4
  <2> QED
    BY <2>1, <2>2
<1>2. IsFiniteSet(S)
  BY FS_Subset
<1> HIDE DEF T
<1>3. S \in T
  BY <1>1, <1>2, SetBySet
<1> QED
  BY <1>3 DEF T

\* No member of weights that are not negative weighs more than all of them.
LEMMA MemberTally ==
  ASSUME NEW A, IsFiniteSet(A), NEW w \in [A -> Nat], NEW S \in SUBSET A
  PROVE  Tally(w, S) \in Nat /\ \A x \in S : w[x] <= Tally(w, S)
<1> DEFINE T == {s \in SUBSET A : Tally(w, s) \in Nat}
<1>1. w \in [A -> Int]
  OBVIOUS
<1>2. ASSUME NEW s \in SUBSET A, \A x \in s : s \ {x} \in T PROVE s \in T
  <2>1. CASE s = {}
    BY <1>1, <2>1, Tallies
  <2>2. CASE s # {}
    <3>1. PICK x \in s : TRUE
      BY <2>2
    <3>2. Tally(w, s) = w[x] + Tally(w, s \ {x})
      BY <1>1, <3>1, Tallies
    <3>3. Tally(w, s \ {x}) \in Nat /\ w[x] \in Nat
      BY <1>2, <3>1
    <3> QED
      BY <3>2, <3>3
  <2> QED
    BY <2>1, <2>2
<1> HIDE DEF T
<1>3. \A s \in SUBSET A : s \in T
  BY <1>2, SetBySet
<1>4. \A s \in SUBSET A : Tally(w, s) \in Nat
  BY <1>3 DEF T
<1>5. ASSUME NEW x \in S PROVE w[x] <= Tally(w, S)
  <2>1. Tally(w, S) = w[x] + Tally(w, S \ {x})
    BY <1>1, Tallies
  <2>2. Tally(w, S \ {x}) \in Nat /\ w[x] \in Nat
    BY <1>4
  <2> QED
    BY <2>1, <2>2
<1> QED
  BY <1>4, <1>5

\* A total of negated weights is the negated total.
LEMMA TallyNegated ==
  ASSUME NEW A, IsFiniteSet(A), NEW v \in [A -> Int], NEW w \in [A -> Int], \A x \in A : v[x] = -w[x]
  PROVE  Tally(v, A) = -Tally(w, A)
<1> DEFINE T == {s \in SUBSET A : Tally(v, s) = -Tally(w, s)}
<1>1. \A f \in [A -> Int] :
        /\ Tally(f, {}) = 0
        /\ \A S \in SUBSET A : Tally(f, S) \in Int /\ \A x \in S : Tally(f, S) = f[x] + Tally(f, S \ {x})
  BY Tallies
<1>2. ASSUME NEW s \in SUBSET A, \A x \in s : s \ {x} \in T PROVE s \in T
  <2>1. CASE s = {}
    BY <1>1, <2>1
  <2>2. CASE s # {}
    <3>1. PICK x \in s : Tally(v, s \ {x}) = -Tally(w, s \ {x}) /\ s \ {x} \in SUBSET A
      BY <1>2, <2>2
    <3>2. Tally(v, s) = v[x] + Tally(v, s \ {x})
      BY <1>1, <3>1
    <3>3. Tally(w, s) = w[x] + Tally(w, s \ {x}) /\ Tally(w, s \ {x}) \in Int /\ w[x] \in Int
      BY <1>1, <3>1
    <3>4. v[x] = -w[x]
      OBVIOUS
    <3> QED
      BY <3>1, <3>2, <3>3, <3>4
  <2> QED
    BY <2>1, <2>2
<1> HIDE DEF T
<1>3. \A s \in SUBSET A : s \in T
  BY <1>2, SetBySet
<1> QED
  BY <1>3 DEF T

\* A total grows with its weights.
LEMMA TallyGrows ==
  ASSUME NEW A, IsFiniteSet(A), NEW v \in [A -> Int], NEW w \in [A -> Int], \A x \in A : v[x] <= w[x]
  PROVE  Tally(v, A) <= Tally(w, A)
<1> DEFINE T == {s \in SUBSET A : Tally(v, s) <= Tally(w, s)}
<1>1. \A f \in [A -> Int] :
        /\ Tally(f, {}) = 0
        /\ \A S \in SUBSET A : Tally(f, S) \in Int /\ \A x \in S : Tally(f, S) = f[x] + Tally(f, S \ {x})
  BY Tallies
<1>2. ASSUME NEW s \in SUBSET A, \A x \in s : s \ {x} \in T PROVE s \in T
  <2>1. CASE s = {}
    BY <1>1, <2>1
  <2>2. CASE s # {}
    <3>1. PICK x \in s : Tally(v, s \ {x}) <= Tally(w, s \ {x}) /\ s \ {x} \in SUBSET A
      BY <1>2, <2>2
    <3>2. Tally(v, s) = v[x] + Tally(v, s \ {x}) /\ Tally(v, s \ {x}) \in Int /\ v[x] \in Int
      BY <1>1, <3>1
    <3>3. Tally(w, s) = w[x] + Tally(w, s \ {x}) /\ Tally(w, s \ {x}) \in Int /\ w[x] \in Int
      BY <1>1, <3>1
    <3>4. v[x] <= w[x]
      OBVIOUS
    <3> QED
      BY <3>1, <3>2, <3>3, <3>4
  <2> QED
    BY <2>1, <2>2
<1> HIDE DEF T
<1>3. \A s \in SUBSET A : s \in T
  BY <1>2, SetBySet
<1> QED
  BY <1>3 DEF T

\* Two functions that agree on a set have the same total over it, whatever else they are of.
LEMMA SharedTally ==
  ASSUME NEW A, IsFiniteSet(A), NEW v \in [A -> Int], NEW B, IsFiniteSet(B), NEW w \in [B -> Int],
         NEW S \in SUBSET A, S \subseteq B, \A x \in S : v[x] = w[x]
  PROVE  Tally(v, S) = Tally(w, S)
<1> DEFINE T == {s \in SUBSET S : Tally(v, s) = Tally(w, s)}
<1>1. /\ Tally(v, {}) = 0
      /\ \A s \in SUBSET A : Tally(v, s) \in Int /\ \A x \in s : Tally(v, s) = v[x] + Tally(v, s \ {x})
  BY Tallies
<1>2. /\ Tally(w, {}) = 0
      /\ \A s \in SUBSET B : Tally(w, s) \in Int /\ \A x \in s : Tally(w, s) = w[x] + Tally(w, s \ {x})
  BY Tallies
<1>3. ASSUME NEW s \in SUBSET S, \A x \in s : s \ {x} \in T PROVE s \in T
  <2>1. CASE s = {}
    BY <1>1, <1>2, <2>1
  <2>2. CASE s # {}
    <3>1. PICK x \in s : Tally(v, s \ {x}) = Tally(w, s \ {x})
      BY <1>3, <2>2
    <3>2. Tally(v, s) = v[x] + Tally(v, s \ {x})
      BY <1>1, <3>1
    <3>3. Tally(w, s) = w[x] + Tally(w, s \ {x})
      BY <1>2, <3>1
    <3>4. v[x] = w[x]
      BY <3>1
    <3> QED
      BY <3>1, <3>2, <3>3, <3>4
  <2> QED
    BY <2>1, <2>2
<1>4. S \in T
  <2>1. IsFiniteSet(S)
    BY FS_Subset
  <2> HIDE DEF T
  <2> QED
    BY <1>3, <2>1, SetBySet
<1> QED
  BY <1>4

=============================================================================
