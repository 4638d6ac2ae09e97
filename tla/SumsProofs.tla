----------------------------- MODULE SumsProofs -----------------------------
(***************************************************************************)
(* What the library's MapThenSumSet computes of a finite set, and the      *)
(* lemmas on sums that the proofs about quotas need (HoldingsProofs,       *)
(* UploadsProofs).  A fold is a table over the subsets, so induction is    *)
(* over a set of subsets.                                                  *)
(***************************************************************************)
EXTENDS Sums, Integers, FiniteSetTheorems, WellFoundedInduction, TLAPS

\* A set of subsets that has every one of which it has those with one element less has them all.
LEMMA ByOneLess ==
    ASSUME NEW S, IsFiniteSet(S), NEW G,
           \A T \in SUBSET S : (\A x \in T : T \ {x} \in G) => T \in G
    PROVE  \A T \in SUBSET S : T \in G
<1> DEFINE Lacking == {n \in Nat : \E T \in SUBSET S : T \notin G /\ Cardinality(T) = n}
<1>f. \A T \in SUBSET S : IsFiniteSet(T) /\ Cardinality(T) \in Nat
  BY FS_Subset, FS_CardinalityType
<1>1. SUFFICES ASSUME Lacking # {} PROVE FALSE
  <2>1. \A T \in SUBSET S : T \notin G => Cardinality(T) \in Lacking
    BY <1>f
  <2> QED
    BY <2>1
<1>0. \A x, y \in Nat : <<x, y>> \in OpToRel(<, Nat) <=> x < y
  BY DEF OpToRel
<1>2. PICK n \in Lacking : \A y \in Lacking : ~ (<<y, n>> \in OpToRel(<, Nat))
  BY <1>1, NatLessThanWellFounded, WFMin
<1>3. PICK T \in SUBSET S : T \notin G /\ Cardinality(T) = n
  OBVIOUS
<1>4. ASSUME NEW x \in T PROVE T \ {x} \in G
  <2> DEFINE k == Cardinality(T \ {x})
  <2>1. T \ {x} \in SUBSET S /\ k = n - 1 /\ k \in Nat
    BY <1>3, <1>4, <1>f, FS_RemoveElement
  <2>2. k \in Lacking => ~ (<<k, n>> \in OpToRel(<, Nat))
    BY <1>2
  <2>3. n \in Nat
    OBVIOUS
  <2>4. T \ {x} \notin G => k \in Lacking
    BY <2>1
  <2> HIDE DEF k, Lacking
  <2>5. k < n
    BY <2>1, <2>3
  <2>6. <<k, n>> \in OpToRel(<, Nat)
    BY <1>0, <2>1, <2>3, <2>5
  <2> QED
    BY <2>2, <2>4, <2>6
<1> QED
  BY <1>3, <1>4

\* What a table of the sums of subsets has of one of them, as FiniteSetsExt folds it.
AnyOf(s) == CHOOSE x \in s : TRUE
Folded(f, s, h) == IF s = {} THEN 0 ELSE f[AnyOf(s)] + h[s \ {AnyOf(s)}]
Folds(f, S, h) == h = [s \in SUBSET S |-> Folded(f, s, h)]
TableOf(f, S) == CHOOSE h : Folds(f, S, h)

LEMMA SumIsFolded == \A f, S : Sum(f, S) = TableOf(f, S)[S]
BY DEF Sum, MapThenSumSet, MapThenFoldSet, TableOf, Folds, Folded, AnyOf

LEMMA AnyOfIn == \A s : s # {} => AnyOf(s) \in s
BY DEF AnyOf

\* Two tables agree where both fold.
LEMMA TablesAgree ==
    ASSUME NEW f, NEW S, IsFiniteSet(S), NEW g, NEW h,
           \A T \in SUBSET S : g[T] = Folded(f, T, g) /\ h[T] = Folded(f, T, h)
    PROVE  g[S] = h[S]
<1> DEFINE G == {T \in SUBSET S : g[T] = h[T]}
<1>1. ASSUME NEW T \in SUBSET S, \A x \in T : T \ {x} \in G PROVE T \in G
  BY <1>1, AnyOfIn DEF Folded
<1>2. \A T \in SUBSET S : T \in G
  <2> HIDE DEF G
  <2> QED
    BY <1>1, ByOneLess
<1> QED
  BY <1>2

LEMMA TableExists ==
    ASSUME NEW f, NEW S, IsFiniteSet(S)
    PROVE  \A T \in SUBSET S : Folds(f, T, TableOf(f, T))
<1> DEFINE G == {T \in SUBSET S : Folds(f, T, TableOf(f, T))}
<1>1. ASSUME NEW T \in SUBSET S, \A x \in T : T \ {x} \in G PROVE T \in G
  <2> DEFINE out(s) == CHOOSE y \in T : y \notin s
             part(s) == IF s = T THEN Folded(f, T, TableOf(f, T \ {AnyOf(T)})) ELSE TableOf(f, T \ {out(s)})[s]
             h == [s \in SUBSET T |-> part(s)]
  <2>1. ASSUME NEW x \in T, NEW s \in SUBSET (T \ {x})
        PROVE  TableOf(f, T \ {x})[s] = Folded(f, s, TableOf(f, T \ {x}))
    BY <1>1 DEF Folds
  <2>2. ASSUME NEW s \in SUBSET T, s # T PROVE out(s) \in T /\ s \in SUBSET (T \ {out(s)})
    BY <2>2
  <2>f. \A s \in SUBSET T : IsFiniteSet(s)
    BY FS_Subset
  <2>3. ASSUME NEW x \in T, NEW s \in SUBSET (T \ {x}) PROVE h[s] = TableOf(f, T \ {x})[s]
    <3>1. s \in SUBSET T /\ s # T
      OBVIOUS
    <3>2. h[s] = TableOf(f, T \ {out(s)})[s] /\ out(s) \in T /\ s \in SUBSET (T \ {out(s)})
      BY <3>1, <2>2
    <3> DEFINE y == out(s)
    <3>3. \A t \in SUBSET s : /\ TableOf(f, T \ {y})[t] = Folded(f, t, TableOf(f, T \ {y}))
                              /\ TableOf(f, T \ {x})[t] = Folded(f, t, TableOf(f, T \ {x}))
      BY <2>1, <3>2
    <3> HIDE DEF h, y
    <3>4. TableOf(f, T \ {y})[s] = TableOf(f, T \ {x})[s]
      <4> DEFINE u == TableOf(f, T \ {y})
                 v == TableOf(f, T \ {x})
      <4>1. IsFiniteSet(s) /\ \A t \in SUBSET s : u[t] = Folded(f, t, u) /\ v[t] = Folded(f, t, v)
        BY <3>1, <3>3, <2>f
      <4> HIDE DEF u, v
      <4>2. u[s] = v[s]
        BY <4>1, TablesAgree
      <4> QED
        BY <4>2 DEF u, v
    <3> QED
      BY <3>2, <3>4 DEF y
  <2>4. ASSUME NEW s \in SUBSET T PROVE h[s] = Folded(f, s, h)
    <3>1. CASE s = {}
      <4>1. CASE T = {}
        BY <3>1, <4>1 DEF Folded
      <4>2. CASE T # {}
        <5>1. out(s) \in T /\ s \in SUBSET (T \ {out(s)}) /\ s # T
          BY <2>2, <3>1, <4>2
        <5>2. h[s] = TableOf(f, T \ {out(s)})[s]
          BY <5>1
        <5> QED
          BY <3>1, <5>1, <5>2, <2>1 DEF Folded
      <4> QED
        BY <4>1, <4>2
    <3>2. CASE s # {}
      <4> DEFINE c == AnyOf(s)
      <4>1. c \in s /\ s \ {c} \in SUBSET (T \ {c}) /\ c \in T
        BY <3>2, AnyOfIn
      <4>2. h[s \ {c}] = TableOf(f, T \ {c})[s \ {c}]
        BY <4>1, <2>3
      <4>3. CASE s = T
        <5>1. h[s] = f[c] + TableOf(f, T \ {c})[s \ {c}]
          BY <3>2, <4>3 DEF Folded
        <5> HIDE DEF h
        <5> QED
          BY <3>2, <4>2, <5>1 DEF Folded
      <4>4. CASE s # T
        <5>1. out(s) \in T /\ s \in SUBSET (T \ {out(s)})
          BY <2>2, <4>4
        <5>2. h[s] = TableOf(f, T \ {out(s)})[s]
          BY <4>4
        <5>3. h[s \ {c}] = TableOf(f, T \ {out(s)})[s \ {c}]
          BY <5>1, <2>3
        <5> HIDE DEF h, out
        <5> QED
          BY <3>2, <5>1, <5>2, <5>3, <2>1 DEF Folded
      <4> QED
        BY <4>3, <4>4
    <3> QED
      BY <3>1, <3>2
  <2>5. Folds(f, T, h)
    <3>1. h = [s \in SUBSET T |-> h[s]]
      OBVIOUS
    <3> HIDE DEF h
    <3> QED
      BY <2>4, <3>1 DEF Folds
  <2> HIDE DEF h
  <2>6. Folds(f, T, TableOf(f, T))
    BY <2>5 DEF TableOf
  <2> QED
    BY <2>6
<1> HIDE DEF G
<1>2. \A T \in SUBSET S : T \in G
  BY <1>1, ByOneLess
<1> QED
  BY <1>2 DEF G

LEMMA TableFolds ==
    ASSUME NEW f, NEW S, IsFiniteSet(S), NEW T \in SUBSET S
    PROVE  TableOf(f, S)[T] = Folded(f, T, TableOf(f, S))
<1> DEFINE h == TableOf(f, S)
<1>1. S \in SUBSET S
  OBVIOUS
<1>2. Folds(f, S, h)
  BY <1>1, TableExists
<1> HIDE DEF h
<1>3. h[T] = Folded(f, T, h)
  BY <1>2 DEF Folds
<1> QED
  BY <1>3 DEF h

\* What MapThenSumSet computes: nothing of nothing, and one summand at a time.
LEMMA SumSteps ==
    ASSUME NEW f, NEW S, IsFiniteSet(S)
    PROVE  IF S = {} THEN Sum(f, S) = 0 ELSE AnyOf(S) \in S /\ Sum(f, S) = f[AnyOf(S)] + Sum(f, S \ {AnyOf(S)})
<1>1. \A T \in SUBSET S : TableOf(f, S)[T] = Folded(f, T, TableOf(f, S))
  BY TableFolds
<1>2. CASE S = {}
  BY <1>1, <1>2, SumIsFolded DEF Folded
<1>3. CASE S # {}
  <2> DEFINE R == S \ {AnyOf(S)}
  <2>1. R \in SUBSET S /\ IsFiniteSet(R)
    BY FS_Subset
  <2>2. \A T \in SUBSET R : TableOf(f, R)[T] = Folded(f, T, TableOf(f, R))
    BY <2>1, TableFolds
  <2>3. Sum(f, S) = f[AnyOf(S)] + TableOf(f, S)[R]
    BY <1>1, <1>3, SumIsFolded DEF Folded
  <2> HIDE DEF R
  <2>4. TableOf(f, S)[R] = TableOf(f, R)[R]
    BY SMTT(30), <1>1, <2>1, <2>2, TablesAgree
  <2>5. Sum(f, S) = f[AnyOf(S)] + Sum(f, R)
    BY <2>3, <2>4, SumIsFolded
  <2> QED
    BY <1>3, <2>5, AnyOfIn DEF R
<1> QED
  BY <1>2, <1>3

LEMMA SumInNat ==
    ASSUME NEW f, NEW S, IsFiniteSet(S), \A x \in S : f[x] \in Nat
    PROVE  \A T \in SUBSET S : IsFiniteSet(T) /\ Sum(f, T) \in Nat
<1> DEFINE G == {T \in SUBSET S : Sum(f, T) \in Nat}
<1>f. \A T \in SUBSET S : IsFiniteSet(T)
  BY FS_Subset
<1>1. ASSUME NEW T \in SUBSET S, \A x \in T : T \ {x} \in G PROVE T \in G
  <2>1. CASE T = {}
    <3>1. Sum(f, T) = 0
      BY <2>1, <1>f, SumSteps
    <3> QED
      BY <3>1
  <2>2. CASE T # {}
    <3>1. AnyOf(T) \in T /\ Sum(f, T) = f[AnyOf(T)] + Sum(f, T \ {AnyOf(T)})
      BY <2>2, <1>f, SumSteps
    <3> QED
      BY <1>1, <3>1
  <2> QED
    BY <2>1, <2>2
<1> HIDE DEF G
<1>2. \A T \in SUBSET S : T \in G
  BY <1>1, ByOneLess
<1> QED
  BY <1>2, <1>f DEF G

\* Whichever summand is taken out.
LEMMA SumSplits ==
    ASSUME NEW f, NEW S, IsFiniteSet(S), \A x \in S : f[x] \in Nat, NEW a \in S
    PROVE  Sum(f, S) = f[a] + Sum(f, S \ {a})
<1> DEFINE G == {T \in SUBSET S : \A x \in T : Sum(f, T) = f[x] + Sum(f, T \ {x})}
<1>f. \A T \in SUBSET S : IsFiniteSet(T) /\ Sum(f, T) \in Nat
  BY SumInNat
<1>1. ASSUME NEW T \in SUBSET S, \A x \in T : T \ {x} \in G PROVE T \in G
  <2> SUFFICES ASSUME NEW x \in T PROVE Sum(f, T) = f[x] + Sum(f, T \ {x})
    OBVIOUS
  <2> DEFINE c == AnyOf(T)
  <2>1. c \in T /\ Sum(f, T) = f[c] + Sum(f, T \ {c})
    BY <1>f, SumSteps
  <2>2. CASE x # c
    <3>1. Sum(f, T \ {c}) = f[x] + Sum(f, (T \ {c}) \ {x})
      BY <1>1, <2>1, <2>2
    <3>2. Sum(f, T \ {x}) = f[c] + Sum(f, (T \ {x}) \ {c})
      BY <1>1, <2>1, <2>2
    <3>3. (T \ {x}) \ {c} = (T \ {c}) \ {x}
      OBVIOUS
    <3>4. f[x] \in Nat /\ f[c] \in Nat /\ Sum(f, (T \ {c}) \ {x}) \in Nat
      BY <1>f, <2>1
    <3> HIDE DEF c, G
    <3> QED
      BY <2>1, <3>1, <3>2, <3>3, <3>4
  <2> QED
    BY <2>1, <2>2
<1> HIDE DEF G
<1>2. \A T \in SUBSET S : T \in G
  BY <1>1, ByOneLess
<1> QED
  BY <1>2 DEF G

LEMMA SumAgrees ==
    ASSUME NEW f, NEW g, NEW S, IsFiniteSet(S), \A x \in S : f[x] = g[x]
    PROVE  Sum(f, S) = Sum(g, S)
<1> DEFINE G == {T \in SUBSET S : Sum(f, T) = Sum(g, T)}
<1>f. \A T \in SUBSET S : IsFiniteSet(T)
  BY FS_Subset
<1>1. ASSUME NEW T \in SUBSET S, \A x \in T : T \ {x} \in G PROVE T \in G
  <2>1. CASE T = {}
    BY <2>1, <1>f, SumSteps
  <2>2. CASE T # {}
    <3>1. /\ AnyOf(T) \in T /\ Sum(f, T) = f[AnyOf(T)] + Sum(f, T \ {AnyOf(T)})
          /\ Sum(g, T) = g[AnyOf(T)] + Sum(g, T \ {AnyOf(T)})
      BY <2>2, <1>f, SumSteps
    <3> QED
      BY <1>1, <3>1
  <2> QED
    BY <2>1, <2>2
<1> HIDE DEF G
<1>2. \A T \in SUBSET S : T \in G
  BY <1>1, ByOneLess
<1> QED
  BY <1>2 DEF G

LEMMA SumOfNothing ==
    ASSUME NEW f, NEW S, IsFiniteSet(S), \A x \in S : f[x] = 0
    PROVE  Sum(f, S) = 0
<1> DEFINE G == {T \in SUBSET S : Sum(f, T) = 0}
<1>f. \A T \in SUBSET S : IsFiniteSet(T)
  BY FS_Subset
<1>1. ASSUME NEW T \in SUBSET S, \A x \in T : T \ {x} \in G PROVE T \in G
  <2>1. CASE T = {}
    <3>1. Sum(f, T) = 0
      BY <2>1, <1>f, SumSteps
    <3> QED
      BY <3>1
  <2>2. CASE T # {}
    <3>1. AnyOf(T) \in T /\ Sum(f, T) = f[AnyOf(T)] + Sum(f, T \ {AnyOf(T)})
      BY <2>2, <1>f, SumSteps
    <3> QED
      BY <1>1, <3>1
  <2> QED
    BY <2>1, <2>2
<1> HIDE DEF G
<1>2. \A T \in SUBSET S : T \in G
  BY <1>1, ByOneLess
<1> QED
  BY <1>2 DEF G

\* One summand changes.
LEMMA SumChanges ==
    ASSUME NEW f, NEW g, NEW S, IsFiniteSet(S), \A x \in S : f[x] \in Nat /\ g[x] \in Nat,
           NEW a \in S, \A x \in S \ {a} : f[x] = g[x]
    PROVE  Sum(f, S) + g[a] = Sum(g, S) + f[a]
<1>1. Sum(f, S) = f[a] + Sum(f, S \ {a}) /\ Sum(g, S) = g[a] + Sum(g, S \ {a})
  BY SumSplits
<1>2. IsFiniteSet(S \ {a}) /\ Sum(f, S \ {a}) \in Nat /\ S \ {a} \in SUBSET S
  BY SumInNat
<1>3. Sum(f, S \ {a}) = Sum(g, S \ {a})
  BY <1>2, SumAgrees
<1> QED
  BY <1>1, <1>2, <1>3

\* The sum of some of the summands, none of them larger, is no larger.
LEMMA SumShrinks ==
    ASSUME NEW f, NEW g, NEW S, IsFiniteSet(S), \A x \in S : f[x] \in Nat,
           NEW T \in SUBSET S, \A x \in T : g[x] \in Nat /\ g[x] <= f[x]
    PROVE  Sum(g, T) \in Nat /\ Sum(g, T) <= Sum(f, S)
<1> DEFINE G == {V \in SUBSET S : Sum(g, V \cap T) \in Nat /\ Sum(g, V \cap T) <= Sum(f, V)}
<1>f. \A V \in SUBSET S : IsFiniteSet(V) /\ Sum(f, V) \in Nat
  BY SumInNat
<1>g. \A V \in SUBSET T : IsFiniteSet(V) /\ Sum(g, V) \in Nat
  <2>1. IsFiniteSet(T) /\ \A x \in T : g[x] \in Nat
    BY <1>f
  <2> QED
    BY <2>1, SumInNat
<1>1. ASSUME NEW V \in SUBSET S, \A x \in V : V \ {x} \in G PROVE V \in G
  <2>0. V \cap T \in SUBSET T /\ Sum(g, V \cap T) \in Nat /\ IsFiniteSet(V)
    BY <1>f, <1>g
  <2>1. CASE V = {}
    <3>1. Sum(f, V) = 0 /\ Sum(g, V \cap T) = 0
      <4>1. V \cap T = {} /\ IsFiniteSet(V \cap T)
        BY <2>1, <1>g
      <4> QED
        BY <2>1, <4>1, <2>0, SumSteps
    <3> QED
      BY <2>0, <3>1
  <2>2. CASE V # {}
    <3> DEFINE a == AnyOf(V)
               R == V \ {a}
    <3>1. a \in V /\ Sum(f, V) = f[a] + Sum(f, R) /\ f[a] \in Nat
      BY <2>2, <2>0, SumSteps
    <3>2. R \in G /\ R \in SUBSET S
      BY <1>1, <3>1
    <3>3. Sum(g, R \cap T) \in Nat /\ Sum(g, R \cap T) <= Sum(f, R) /\ Sum(f, R) \in Nat
      BY <3>2, <1>f
    <3>4. CASE a \in T
      <4>1. (V \cap T) \ {a} = R \cap T /\ a \in V \cap T
        BY <3>1, <3>4
      <4>2. \A x \in V \cap T : g[x] \in Nat
        OBVIOUS
      <4>3. IsFiniteSet(V \cap T)
        BY <1>g, <2>0
      <4>4. Sum(g, V \cap T) = g[a] + Sum(g, (V \cap T) \ {a})
        BY <4>1, <4>2, <4>3, SumSplits
      <4>5. g[a] \in Nat /\ g[a] <= f[a]
        BY <3>4
      <4>6. \A i, j, m, n \in Nat : i <= j /\ m <= n => m + i <= n + j
        OBVIOUS
      <4>7. Sum(g, V \cap T) = g[a] + Sum(g, R \cap T) /\ Sum(f, V) = f[a] + Sum(f, R)
        BY <3>1, <4>1, <4>4
      <4>8. g[a] + Sum(g, R \cap T) <= f[a] + Sum(f, R)
        <5>1. g[a] \in Nat /\ f[a] \in Nat /\ g[a] <= f[a]
          BY <3>1, <4>5
        <5> HIDE DEF a, R
        <5> QED
          BY <5>1, <3>3, <4>6
      <4> QED
        BY <2>0, <4>7, <4>8
    <3>5. CASE a \notin T
      <4>1. V \cap T = R \cap T
        BY <3>5
      <4> HIDE DEF a, R
      <4>2. Sum(g, V \cap T) <= Sum(f, V)
        BY <3>1, <3>3, <4>1
      <4> QED
        BY <2>0, <4>2
    <3> QED
      BY <3>4, <3>5
  <2> QED
    BY <2>1, <2>2
<1> HIDE DEF G
<1>2. S \in G
  BY <1>1, ByOneLess
<1> QED
  <2>1. S \cap T = T
    OBVIOUS
  <2> QED
    BY <1>2, <2>1 DEF G

\* With one summand more, the others no larger.
LEMMA SumGrows ==
    ASSUME NEW f, NEW g, NEW S, IsFiniteSet(S), \A x \in S : f[x] \in Nat,
           NEW a, g[a] \in Nat, NEW T \in SUBSET (S \cup {a}),
           \A x \in T \ {a} : g[x] \in Nat /\ g[x] <= f[x]
    PROVE  Sum(g, T) \in Nat /\ Sum(g, T) <= Sum(f, S \ {a}) + g[a]
<1>1. S \ {a} \in SUBSET S /\ IsFiniteSet(S \ {a}) /\ T \ {a} \in SUBSET (S \ {a})
  BY FS_Subset
<1>2. Sum(g, T \ {a}) \in Nat /\ Sum(g, T \ {a}) <= Sum(f, S \ {a})
  BY <1>1, SumShrinks
<1>3. Sum(f, S \ {a}) \in Nat
  BY <1>1, SumInNat
<1>4. CASE a \in T
  <2>1. IsFiniteSet(T) /\ \A x \in T : g[x] \in Nat
    <3>1. IsFiniteSet(S \cup {a})
      BY FS_AddElement
    <3> QED
      BY <3>1, FS_Subset
  <2>2. Sum(g, T) = g[a] + Sum(g, T \ {a})
    BY <1>4, <2>1, SumSplits
  <2> QED
    BY <1>2, <1>3, <2>2
<1>5. CASE a \notin T
  <2>1. T \ {a} = T
    BY <1>5
  <2>2. Sum(g, T) \in Nat /\ Sum(g, T) <= Sum(f, S \ {a})
    BY <1>2, <2>1
  <2>3. \A i, j, m \in Nat : i <= j => i <= j + m
    OBVIOUS
  <2> QED
    BY <1>3, <2>2, <2>3
<1> QED
  BY <1>4, <1>5
=============================================================================
