------------------------------- MODULE Sums --------------------------------
(***************************************************************************)
(* Facts about the sums of the community modules over finite sets: that    *)
(* they exist and are integers, what adding or removing an element, a      *)
(* smaller term, a renaming of the terms or a grouping of them does, and   *)
(* that a sum of terms capped in turn is capped.                           *)
(*                                                                         *)
(* The induction is one over the subsets of the given set, in the form of  *)
(* a family of subsets closed under adding an element (SubsetInduction),   *)
(* so that no operator is passed to a theorem.                             *)
(***************************************************************************)
EXTENDS FiniteSetTheorems, FiniteSetsExt, TLAPS

\* A family of subsets of a finite set has a minimal one, if any: induction over finite sets.
LEMMA MinimalSubset ==
  ASSUME NEW S, IsFiniteSet(S), NEW F \in SUBSET SUBSET S, F # {}
  PROVE  \E T \in F : \A U \in F : U \subseteq T => U = T
<1>1. F \subseteq FiniteSubsetsOf(S)
  BY FS_FiniteSubsetsOfFinite
<1>2. PICK T \in F : \A U \in F : ~(<<U, T>> \in StrictSubsetOrdering(S))
  BY <1>1, FS_StrictSubsetOrderingWellFounded, WFMin
<1>3. ASSUME NEW U \in F, U \subseteq T, U # T
      PROVE  FALSE
  BY <1>2, <1>3 DEF StrictSubsetOrdering
<1>. QED
  BY <1>3

\* A family of subsets of S that has the empty one and, with T \ {x}, also T for some x in T.
LEMMA SubsetInduction ==
  ASSUME NEW S, IsFiniteSet(S), NEW F \in SUBSET SUBSET S,
         {} \in F,
         \A T \in SUBSET S : T # {} /\ (\A x \in T : T \ {x} \in F) => T \in F
  PROVE  F = SUBSET S
<1>. DEFINE Rest == (SUBSET S) \ F
<1>. SUFFICES ASSUME Rest # {} PROVE FALSE
  OBVIOUS
<1>1. PICK T \in Rest : \A U \in Rest : U \subseteq T => U = T
  <2>1. Rest \in SUBSET SUBSET S
    OBVIOUS
  <2>. HIDE DEF Rest
  <2>. QED
    BY <2>1, MinimalSubset
<1>2. PICK x \in T : T \ {x} \notin F
  BY <1>1
<1>3. T \ {x} \in Rest /\ T \ {x} \subseteq T /\ T \ {x} # T
  BY <1>1, <1>2
<1>. QED
  BY <1>1, <1>3

LEMMA Counting ==
  ASSUME NEW T \in SUBSET Nat, 0 \in T, \A n \in T : n + 1 \in T
  PROVE  T = Nat
<1>. DEFINE Less == {ss \in Nat \X Nat : ss[1] < ss[2]}
<1>. SUFFICES ASSUME Nat \ T # {} PROVE FALSE
  OBVIOUS
<1>1. IsWellFoundedOn(Less, Nat)
  BY NatLessThanWellFounded DEF OpToRel
<1>. HIDE DEF Less
<1>2. PICK m \in Nat \ T : \A n \in Nat \ T : ~(<<n, m>> \in Less)
  BY <1>1, WFMin
<1>3. m # 0
  OBVIOUS
<1>4. m - 1 \in Nat /\ m = (m - 1) + 1
  BY <1>3
<1>5. m - 1 \notin T
  BY <1>4
<1>6. <<m - 1, m>> \in Less
  BY <1>4 DEF Less
<1>. QED
  BY <1>2, <1>4, <1>5, <1>6

Pick(s) == CHOOSE x \in s : TRUE

\* What the sum over each subset of S is by the definition of a fold, given h for smaller ones.
Equation(h, g, S) == [s \in SUBSET S |-> IF s = {} THEN 0 ELSE g[Pick(s)] + h[s \ {Pick(s)}]]

\* The equation has a solution: one for subsets of up to n elements, for each n.
LEMMA SolutionExists ==
  ASSUME NEW S, IsFiniteSet(S), NEW g
  PROVE  \E h : h = Equation(h, g, S)
<1>. DEFINE Solves(h, n) == \A s \in SUBSET S : Cardinality(s) <= n => h[s] = Equation(h, g, S)[s]
            Solved == {n \in Nat : \E h : h = [s \in SUBSET S |-> h[s]] /\ Solves(h, n)}
<1>1. \A s \in SUBSET S : Cardinality(s) \in Nat /\ (Cardinality(s) = 0 <=> s = {})
  BY FS_Subset, FS_CardinalityType, FS_EmptySet
<1>2. \A s \in SUBSET S : s # {} => Pick(s) \in s
  BY DEF Pick
<1>3. \A s \in SUBSET S : s # {} => Cardinality(s \ {Pick(s)}) = Cardinality(s) - 1
  BY <1>2, FS_Subset, FS_RemoveElement
<1>4. 0 \in Solved
  <2>. DEFINE h == [s \in SUBSET S |-> 0]
  <2>1. Solves(h, 0)
    BY <1>1 DEF Equation
  <2>2. h = [s \in SUBSET S |-> h[s]]
    OBVIOUS
  <2>. QED
    BY <2>1, <2>2
<1>5. ASSUME NEW n \in Solved
      PROVE  n + 1 \in Solved
  <2>1. PICK h : h = [s \in SUBSET S |-> h[s]] /\ Solves(h, n)
    BY <1>5
  <2>. DEFINE k == Equation(h, g, S)
  <2>2. k = [s \in SUBSET S |-> k[s]]
    BY DEF Equation
  <2>3. ASSUME NEW s \in SUBSET S, Cardinality(s) <= n + 1
        PROVE  k[s] = Equation(k, g, S)[s]
    <3>1. CASE s = {}
      BY <3>1 DEF Equation
    <3>2. CASE s # {}
      <4>. DEFINE t == s \ {Pick(s)}
      <4>1. t \in SUBSET S /\ Cardinality(t) <= n
        BY <1>1, <1>3, <2>3, <3>2
      <4>2. h[t] = k[t]
        BY <2>1, <4>1
      <4>3. Equation(k, g, S)[s] = g[Pick(s)] + k[t] /\ k[s] = g[Pick(s)] + h[t]
        BY <3>2 DEF Equation
      <4>. QED
        BY <4>2, <4>3
    <3>. QED
      BY <3>1, <3>2
  <2>4. Solves(k, n + 1)
    BY <2>3
  <2>. HIDE DEF k
  <2>5. n + 1 \in Nat
    BY <1>5
  <2>. QED
    BY <2>2, <2>4, <2>5
<1>6. Cardinality(S) \in Solved
  <2>. HIDE DEF Solved
  <2>1. Solved \subseteq Nat
    BY DEF Solved
  <2>2. Solved = Nat
    BY <1>4, <1>5, <2>1, Counting
  <2>. QED
    BY <2>2, FS_CardinalityType
<1>7. PICK h : h = [s \in SUBSET S |-> h[s]] /\ Solves(h, Cardinality(S))
  BY <1>6
<1>8. \A s \in SUBSET S : h[s] = Equation(h, g, S)[s]
  BY <1>7, FS_Subset
<1>9. h = Equation(h, g, S)
  BY <1>7, <1>8 DEF Equation
<1>. QED
  BY <1>9

LEMMA SumIsSolution ==
  ASSUME NEW S, IsFiniteSet(S), NEW g
  PROVE  \E h : h = Equation(h, g, S) /\ SumFunctionOnSet(g, S) = h[S]
<1>1. \E h : h = Equation(h, g, S)
  BY SolutionExists
<1>2. SumFunctionOnSet(g, S) = (CHOOSE h : h = Equation(h, g, S))[S]
  BY DEF SumFunctionOnSet, FoldFunctionOnSet, MapThenFoldSet, Equation, Pick
<1>. QED
  BY <1>1, <1>2

\* Two solutions agree, also where they solve the equation of different sets.
LEMMA SolutionsAgree ==
  ASSUME NEW S, IsFiniteSet(S), NEW T \in SUBSET S, NEW g, NEW h, NEW k,
         h = Equation(h, g, S), k = Equation(k, g, T)
  PROVE  h[T] = k[T]
<1>. DEFINE F == {s \in SUBSET T : h[s] = k[s]}
<1>1. {} \in F
  BY DEF Equation
<1>2. ASSUME NEW s \in SUBSET T, s # {}, \A x \in s : s \ {x} \in F
      PROVE  s \in F
  <2>1. Pick(s) \in s
    BY <1>2 DEF Pick
  <2>2. h[s] = g[Pick(s)] + h[s \ {Pick(s)}] /\ k[s] = g[Pick(s)] + k[s \ {Pick(s)}]
    BY <1>2 DEF Equation
  <2>3. h[s \ {Pick(s)}] = k[s \ {Pick(s)}]
    BY <1>2, <2>1
  <2>. QED
    BY <2>2, <2>3
<1>3. IsFiniteSet(T)
  BY FS_Subset
<1>4. F = SUBSET T
  <2>. HIDE DEF F
  <2>1. F \in SUBSET SUBSET T
    BY DEF F
  <2>. QED
    BY <1>1, <1>2, <1>3, <2>1, SubsetInduction
<1>. QED
  BY <1>4

\* So one solution tells the sums over all subsets.
LEMMA SumsOfSubsets ==
  ASSUME NEW S, IsFiniteSet(S), NEW g
  PROVE  \E h : h = Equation(h, g, S) /\ \A T \in SUBSET S : SumFunctionOnSet(g, T) = h[T]
<1>1. PICK h : h = Equation(h, g, S)
  BY SolutionExists
<1>2. ASSUME NEW T \in SUBSET S
      PROVE  SumFunctionOnSet(g, T) = h[T]
  <2>1. IsFiniteSet(T)
    BY FS_Subset
  <2>2. PICK k : k = Equation(k, g, T) /\ SumFunctionOnSet(g, T) = k[T]
    BY <2>1, SumIsSolution
  <2>. QED
    BY <1>1, <2>2, SolutionsAgree
<1>. QED
  BY <1>1, <1>2

LEMMA SumEmpty == ASSUME NEW g PROVE SumFunctionOnSet(g, {}) = 0
<1>1. PICK h : h = Equation(h, g, {}) /\ SumFunctionOnSet(g, {}) = h[{}]
  BY SumIsSolution, FS_EmptySet
<1>. QED
  BY <1>1 DEF Equation

\* A sum of integers is an integer.
LEMMA SumType ==
  ASSUME NEW S, IsFiniteSet(S), NEW g, \A x \in S : g[x] \in Int
  PROVE  SumFunctionOnSet(g, S) \in Int
<1>1. PICK h : h = Equation(h, g, S) /\ \A T \in SUBSET S : SumFunctionOnSet(g, T) = h[T]
  BY SumsOfSubsets
<1>. DEFINE F == {s \in SUBSET S : h[s] \in Int}
<1>2. {} \in F
  BY <1>1 DEF Equation
<1>3. ASSUME NEW s \in SUBSET S, s # {}, \A x \in s : s \ {x} \in F
      PROVE  s \in F
  <2>1. Pick(s) \in s
    BY <1>3 DEF Pick
  <2>2. h[s] = g[Pick(s)] + h[s \ {Pick(s)}]
    BY <1>1, <1>3 DEF Equation
  <2>3. g[Pick(s)] \in Int /\ h[s \ {Pick(s)}] \in Int
    BY <1>3, <2>1
  <2>. QED
    BY <2>2, <2>3
<1>4. F = SUBSET S
  <2>. HIDE DEF F
  <2>1. F \in SUBSET SUBSET S
    BY DEF F
  <2>. QED
    BY <1>2, <1>3, <2>1, SubsetInduction
<1>. QED
  BY <1>1, <1>4

\* Any of its terms can be taken apart.
LEMMA SumTakesApart ==
  ASSUME NEW S, IsFiniteSet(S), NEW g, \A x \in S : g[x] \in Int, NEW y \in S
  PROVE  SumFunctionOnSet(g, S) = g[y] + SumFunctionOnSet(g, S \ {y})
<1>1. PICK h : h = Equation(h, g, S) /\ \A T \in SUBSET S : SumFunctionOnSet(g, T) = h[T]
  BY SumsOfSubsets
<1>2. \A s \in SUBSET S : h[s] \in Int
  <2>1. \A s \in SUBSET S : IsFiniteSet(s) /\ \A x \in s : g[x] \in Int
    BY FS_Subset
  <2>2. \A s \in SUBSET S : SumFunctionOnSet(g, s) \in Int
    BY <2>1, SumType
  <2>. QED
    BY <1>1, <2>2
<1>. DEFINE F == {s \in SUBSET S : \A x \in s : h[s] = g[x] + h[s \ {x}]}
<1>3. ASSUME NEW s \in SUBSET S, s # {}, \A x \in s : s \ {x} \in F
      PROVE  s \in F
  <2>. DEFINE c == Pick(s)
  <2>1. c \in s
    BY <1>3 DEF Pick
  <2>2. h[s] = g[c] + h[s \ {c}]
    BY <1>1, <1>3 DEF Equation
  <2>. HIDE DEF c
  <2>3. ASSUME NEW x \in s
        PROVE  h[s] = g[x] + h[s \ {x}]
    <3>1. CASE x = c
      BY <2>2, <3>1
    <3>2. CASE x # c
      <4>. DEFINE t == s \ {c, x}
      <4>1. (s \ {c}) \ {x} = t /\ (s \ {x}) \ {c} = t
        OBVIOUS
      <4>2. h[s \ {c}] = g[x] + h[t] /\ h[s \ {x}] = g[c] + h[t]
        BY <1>3, <2>1, <3>2, <4>1
      <4>3. h[t] \in Int /\ g[x] \in Int /\ g[c] \in Int
        BY <1>2, <2>1
      <4>. HIDE DEF t
      <4>. QED
        BY <2>2, <4>2, <4>3
    <3>. QED
      BY <3>1, <3>2
  <2>. QED
    BY <2>3
<1>4. F = SUBSET S
  <2>. HIDE DEF F
  <2>1. F \in SUBSET SUBSET S /\ {} \in F
    BY DEF F
  <2>. QED
    BY <1>3, <2>1, SubsetInduction
<1>5. S \in F /\ S \ {y} \in SUBSET S
  BY <1>4
<1>. QED
  BY <1>1, <1>5

LEMMA SumAdds ==
  ASSUME NEW S, IsFiniteSet(S), NEW y, y \notin S, NEW g, \A x \in S \cup {y} : g[x] \in Int
  PROVE  SumFunctionOnSet(g, S \cup {y}) = g[y] + SumFunctionOnSet(g, S)
<1>1. IsFiniteSet(S \cup {y}) /\ (S \cup {y}) \ {y} = S
  BY FS_AddElement
<1>. QED
  BY <1>1, SumTakesApart

\* Induction over the subsets of a finite set, one element more at a time.
LEMMA AddingElements ==
  ASSUME NEW S, IsFiniteSet(S), NEW F, {} \in F,
         \A T \in SUBSET S : \A x \in S \ T : T \in F => T \cup {x} \in F
  PROVE  S \in F
<1>. DEFINE G == {T \in SUBSET S : T \in F}
<1>1. ASSUME NEW T \in SUBSET S, T # {}, \A x \in T : T \ {x} \in G
      PROVE  T \in G
  <2>1. PICK x \in T : TRUE
    BY <1>1
  <2>2. T \ {x} \in F /\ (T \ {x}) \cup {x} = T /\ T \ {x} \in SUBSET S /\ x \in S \ (T \ {x})
    BY <1>1, <2>1
  <2>. QED
    BY <2>2
<1>2. G = SUBSET S
  <2>1. G \in SUBSET SUBSET S /\ {} \in G
    OBVIOUS
  <2>. HIDE DEF G
  <2>. QED
    BY <1>1, <2>1, SubsetInduction
<1>. QED
  BY <1>2

\* Terms that are less, or the same, or fewer.
LEMMA SumMonotone ==
  ASSUME NEW S, IsFiniteSet(S), NEW f, NEW g,
         \A x \in S : f[x] \in Int /\ g[x] \in Int /\ f[x] <= g[x]
  PROVE  SumFunctionOnSet(f, S) <= SumFunctionOnSet(g, S)
<1>. DEFINE F == {T \in SUBSET S : SumFunctionOnSet(f, T) <= SumFunctionOnSet(g, T)}
<1>1. {} \in F
  BY SumEmpty
<1>2. ASSUME NEW T \in SUBSET S, NEW x \in S \ T, T \in F
      PROVE  T \cup {x} \in F
  <2>1. IsFiniteSet(T)
    BY FS_Subset
  <2>2. /\ SumFunctionOnSet(f, T) \in Int /\ SumFunctionOnSet(g, T) \in Int
        /\ SumFunctionOnSet(f, T \cup {x}) = f[x] + SumFunctionOnSet(f, T)
        /\ SumFunctionOnSet(g, T \cup {x}) = g[x] + SumFunctionOnSet(g, T)
    BY <2>1, SumType, SumAdds
  <2>3. SumFunctionOnSet(f, T) <= SumFunctionOnSet(g, T) /\ f[x] \in Int /\ g[x] \in Int /\ f[x] <= g[x]
    BY <1>2
  <2>4. SumFunctionOnSet(f, T \cup {x}) <= SumFunctionOnSet(g, T \cup {x})
    BY <2>2, <2>3
  <2>. QED
    BY <2>4
<1>3. S \in F
  <2>. HIDE DEF F
  <2>. QED
    BY <1>1, <1>2, AddingElements
<1>. QED
  BY <1>3

LEMMA SumSame ==
  ASSUME NEW S, IsFiniteSet(S), NEW f, NEW g, \A x \in S : f[x] \in Int /\ f[x] = g[x]
  PROVE  SumFunctionOnSet(f, S) = SumFunctionOnSet(g, S)
<1>1. \A x \in S : g[x] \in Int
  OBVIOUS
<1>2. SumFunctionOnSet(f, S) \in Int /\ SumFunctionOnSet(g, S) \in Int
  BY <1>1, SumType
<1>3. SumFunctionOnSet(f, S) <= SumFunctionOnSet(g, S)
  BY <1>1, SumMonotone
<1>4. SumFunctionOnSet(g, S) <= SumFunctionOnSet(f, S)
  BY <1>1, SumMonotone
<1>. QED
  BY <1>2, <1>3, <1>4

LEMMA SumNatural ==
  ASSUME NEW S, IsFiniteSet(S), NEW g, \A x \in S : g[x] \in Nat
  PROVE  SumFunctionOnSet(g, S) \in Nat
<1>. DEFINE F == {T \in SUBSET S : SumFunctionOnSet(g, T) \in Nat}
<1>1. {} \in F
  BY SumEmpty
<1>2. ASSUME NEW T \in SUBSET S, NEW x \in S \ T, T \in F
      PROVE  T \cup {x} \in F
  <2>1. IsFiniteSet(T) /\ \A y \in T \cup {x} : g[y] \in Int
    BY FS_Subset
  <2>2. SumFunctionOnSet(g, T \cup {x}) = g[x] + SumFunctionOnSet(g, T)
    BY <2>1, SumAdds
  <2>. QED
    BY <1>2, <2>2
<1>3. S \in F
  <2>. HIDE DEF F
  <2>. QED
    BY <1>1, <1>2, AddingElements
<1>. QED
  BY <1>3

\* Terms may be named otherwise: b names the terms of f as terms of g.
LEMMA SumRenamed ==
  ASSUME NEW S, IsFiniteSet(S), NEW b, \A x, y \in S : b[x] = b[y] => x = y,
         NEW f, NEW g, \A x \in S : f[x] \in Int /\ g[b[x]] = f[x]
  PROVE  /\ IsFiniteSet({b[x] : x \in S})
         /\ SumFunctionOnSet(f, S) = SumFunctionOnSet(g, {b[x] : x \in S})
<1>. DEFINE Image(T) == {b[x] : x \in T}
            F == {T \in SUBSET S : /\ IsFiniteSet(Image(T))
                                   /\ SumFunctionOnSet(f, T) = SumFunctionOnSet(g, Image(T))}
<1>1. {} \in F
  <2>1. Image({}) = {}
    OBVIOUS
  <2>. QED
    BY <2>1, SumEmpty, FS_EmptySet
<1>2. ASSUME NEW T \in SUBSET S, NEW x \in S \ T, T \in F
      PROVE  T \cup {x} \in F
  <2>1. IsFiniteSet(T) /\ \A y \in T \cup {x} : f[y] \in Int
    BY FS_Subset
  <2>2. SumFunctionOnSet(f, T \cup {x}) = f[x] + SumFunctionOnSet(f, T)
    BY <2>1, SumAdds
  <2>3. Image(T \cup {x}) = Image(T) \cup {b[x]} /\ b[x] \notin Image(T)
    OBVIOUS
  <2>4. IsFiniteSet(Image(T)) /\ \A y \in Image(T) \cup {b[x]} : g[y] \in Int
    BY <1>2
  <2>5. SumFunctionOnSet(f, T) = SumFunctionOnSet(g, Image(T))
    BY <1>2
  <2>. DEFINE I == Image(T)
              y == b[x]
  <2>. HIDE DEF Image, I, y
  <2>6. /\ SumFunctionOnSet(g, I \cup {y}) = g[y] + SumFunctionOnSet(g, I)
        /\ IsFiniteSet(I \cup {y})
    <3>1. IsFiniteSet(I) /\ y \notin I /\ \A z \in I \cup {y} : g[z] \in Int
      BY <2>3, <2>4 DEF I, y
    <3>. QED
      BY <3>1, SumAdds, FS_AddElement
  <2>7. g[b[x]] = f[x]
    OBVIOUS
  <2>8. SumFunctionOnSet(f, T \cup {x}) = SumFunctionOnSet(g, Image(T \cup {x}))
    BY <2>2, <2>3, <2>5, <2>6, <2>7 DEF I, y
  <2>. QED
    BY <2>3, <2>6, <2>8 DEF I, y
<1>3. S \in F
  <2>. HIDE DEF F
  <2>. QED
    BY <1>1, <1>2, AddingElements
<1>. QED
  BY <1>3

\* The sum of the terms, class by class.
LEMMA SumByClass ==
  ASSUME NEW S, IsFiniteSet(S), NEW C, IsFiniteSet(C), NEW class, \A x \in S : class[x] \in C,
         NEW g, \A x \in S : g[x] \in Int
  PROVE  SumFunctionOnSet(g, S)
           = SumFunctionOnSet([c \in C |-> SumFunctionOnSet(g, {x \in S : class[x] = c})], C)
<1>. DEFINE Of(T, c) == {x \in T : class[x] = c}
            Totals(T) == [c \in C |-> SumFunctionOnSet(g, Of(T, c))]
            F == {T \in SUBSET S : SumFunctionOnSet(g, T) = SumFunctionOnSet(Totals(T), C)}
<1>0. \A T \in SUBSET S : \A c \in C : IsFiniteSet(Of(T, c)) /\ Totals(T)[c] \in Int
  <2>. SUFFICES ASSUME NEW T \in SUBSET S, NEW c \in C
                PROVE  IsFiniteSet(Of(T, c)) /\ Totals(T)[c] \in Int
    OBVIOUS
  <2>1. Of(T, c) \in SUBSET S
    OBVIOUS
  <2>2. IsFiniteSet(Of(T, c)) /\ \A x \in Of(T, c) : g[x] \in Int
    BY <2>1, FS_Subset
  <2>3. SumFunctionOnSet(g, Of(T, c)) \in Int
    <3>. HIDE DEF Of
    <3>. QED
      BY <2>2, SumType
  <2>. QED
    BY <2>2, <2>3
<1>1. {} \in F
  <2>1. \A D \in SUBSET C : SumFunctionOnSet([c \in C |-> 0], D) = 0
    <3>. DEFINE z == [c \in C |-> 0]
                G == {D \in SUBSET C : SumFunctionOnSet(z, D) = 0}
    <3>. SUFFICES ASSUME NEW E \in SUBSET C PROVE SumFunctionOnSet(z, E) = 0
      OBVIOUS
    <3>1. {} \in G
      BY SumEmpty
    <3>2. ASSUME NEW D \in SUBSET E, NEW c \in E \ D, D \in G
          PROVE  D \cup {c} \in G
      <4>1. IsFiniteSet(D) /\ \A y \in D \cup {c} : z[y] \in Int
        BY FS_Subset
      <4>2. z[c] = 0
        OBVIOUS
      <4>. HIDE DEF z
      <4>3. SumFunctionOnSet(z, D \cup {c}) = z[c] + SumFunctionOnSet(z, D)
        BY <4>1, SumAdds
      <4>. QED
        BY <3>2, <4>2, <4>3
    <3>3. IsFiniteSet(E)
      BY FS_Subset
    <3>4. E \in G
      <4>. HIDE DEF G
      <4>. QED
        BY <3>1, <3>2, <3>3, AddingElements
    <3>. QED
      BY <3>4
  <2>2. Totals({}) = [c \in C |-> 0]
    <3>1. \A c \in C : Of({}, c) = {}
      OBVIOUS
    <3>. QED
      BY <3>1, SumEmpty
  <2>. HIDE DEF Totals
  <2>3. SumFunctionOnSet(Totals({}), C) = 0
    BY <2>1, <2>2
  <2>. QED
    BY <2>3, SumEmpty
<1>2. ASSUME NEW T \in SUBSET S, NEW y \in S \ T, T \in F
      PROVE  T \cup {y} \in F
  <2>. DEFINE U == T \cup {y}
              d == class[y]
  <2>1. IsFiniteSet(T) /\ U \in SUBSET S /\ \A x \in U : g[x] \in Int
    BY FS_Subset
  <2>2. SumFunctionOnSet(g, U) = g[y] + SumFunctionOnSet(g, T)
    BY <2>1, SumAdds
  <2>3. /\ Of(U, d) = Of(T, d) \cup {y} /\ y \notin Of(T, d) /\ d \in C
        /\ \A c \in C : c # d => Of(U, c) = Of(T, c)
        /\ \A x \in Of(T, d) \cup {y} : g[x] \in Int
    BY <2>1
  <2>4. \A c \in C : /\ IsFiniteSet(Of(T, c))
                     /\ Totals(T)[c] \in Int /\ Totals(U)[c] \in Int
    BY <1>0, <2>1
  <2>5. SumFunctionOnSet(g, Of(U, d)) = g[y] + SumFunctionOnSet(g, Of(T, d))
    <3>. HIDE DEF Of, U, d
    <3>1. IsFiniteSet(Of(T, d)) /\ y \notin Of(T, d) /\ \A x \in Of(T, d) \cup {y} : g[x] \in Int
      BY <2>3, <2>4
    <3>. QED
      BY <2>3, <3>1, SumAdds
  <2>6. Totals(U)[d] = g[y] + Totals(T)[d]
    BY <2>3, <2>5
  <2>7. \A c \in C \ {d} : Totals(T)[c] \in Int /\ Totals(T)[c] = Totals(U)[c]
    BY <2>3, <2>4
  <2>8. d \in C /\ IsFiniteSet(C \ {d}) /\ g[y] \in Int
    BY <2>3, FS_RemoveElement
  <2>9. SumFunctionOnSet(g, T) = SumFunctionOnSet(Totals(T), C)
    BY <1>2
  <2>. HIDE DEF Totals, Of, U, d
  <2>10. /\ SumFunctionOnSet(Totals(U), C) = Totals(U)[d] + SumFunctionOnSet(Totals(U), C \ {d})
         /\ SumFunctionOnSet(Totals(T), C) = Totals(T)[d] + SumFunctionOnSet(Totals(T), C \ {d})
    BY <2>4, <2>8, SumTakesApart
  <2>11. SumFunctionOnSet(Totals(T), C \ {d}) = SumFunctionOnSet(Totals(U), C \ {d})
    BY <2>7, <2>8, SumSame
  <2>12. SumFunctionOnSet(Totals(T), C \ {d}) \in Int
    BY <2>4, <2>8, SumType
  <2>13. SumFunctionOnSet(g, U) = SumFunctionOnSet(Totals(U), C)
    BY <2>2, <2>4, <2>6, <2>8, <2>9, <2>10, <2>11, <2>12
  <2>. QED
    BY <2>1, <2>13 DEF U
<1>3. S \in F
  <2>. HIDE DEF F
  <2>. QED
    BY <1>1, <1>2, AddingElements
<1>. QED
  BY <1>3

Capped(n, limit) == IF n > limit THEN limit ELSE n

\* A sum is capped alike whether or not its terms are capped before.
LEMMA SumCapped ==
  ASSUME NEW limit \in Nat, NEW S, IsFiniteSet(S), NEW f, NEW g,
         \A x \in S : g[x] \in Nat /\ f[x] = Capped(g[x], limit)
  PROVE  Capped(SumFunctionOnSet(f, S), limit) = Capped(SumFunctionOnSet(g, S), limit)
<1>. DEFINE F == {T \in SUBSET S : Capped(SumFunctionOnSet(f, T), limit)
                                     = Capped(SumFunctionOnSet(g, T), limit)}
<1>1. {} \in F
  BY SumEmpty
<1>2. ASSUME NEW T \in SUBSET S, NEW x \in S \ T, T \in F
      PROVE  T \cup {x} \in F
  <2>1. IsFiniteSet(T) /\ \A y \in T \cup {x} : f[y] \in Nat /\ g[y] \in Nat
    BY FS_Subset DEF Capped
  <2>2. \A y \in T \cup {x} : f[y] \in Int /\ g[y] \in Int
    BY <2>1
  <2>3. /\ SumFunctionOnSet(f, T \cup {x}) = f[x] + SumFunctionOnSet(f, T)
        /\ SumFunctionOnSet(g, T \cup {x}) = g[x] + SumFunctionOnSet(g, T)
    BY <2>1, <2>2, SumAdds
  <2>4. SumFunctionOnSet(f, T) \in Nat /\ SumFunctionOnSet(g, T) \in Nat
    BY <2>1, SumNatural
  <2>5. Capped(SumFunctionOnSet(f, T), limit) = Capped(SumFunctionOnSet(g, T), limit)
    BY <1>2
  <2>6. f[x] = Capped(g[x], limit) /\ g[x] \in Nat
    OBVIOUS
  <2>7. Capped(SumFunctionOnSet(f, T \cup {x}), limit) = Capped(SumFunctionOnSet(g, T \cup {x}), limit)
    BY <2>3, <2>4, <2>5, <2>6 DEF Capped
  <2>. QED
    BY <2>7
<1>3. S \in F
  <2>. HIDE DEF F
  <2>. QED
    BY <1>1, <1>2, AddingElements
<1>. QED
  BY <1>3

\* A sum of rounded terms is off by what each of them is, at most: f counts h of what g counts one.
LEMMA SumRounded ==
  ASSUME NEW S, IsFiniteSet(S), NEW h \in Nat, NEW f, NEW g,
         \A x \in S : f[x] \in Int /\ g[x] \in Int /\ 2 * (h * f[x] - g[x]) \in -h..h
  PROVE  2 * (h * SumFunctionOnSet(f, S) - SumFunctionOnSet(g, S))
           \in -(h * Cardinality(S))..h * Cardinality(S)
<1>. DEFINE Off(T) == 2 * (h * SumFunctionOnSet(f, T) - SumFunctionOnSet(g, T))
            F == {T \in SUBSET S : Off(T) \in -(h * Cardinality(T))..h * Cardinality(T)}
<1>1. {} \in F
  BY SumEmpty, FS_EmptySet
<1>2. ASSUME NEW T \in SUBSET S, NEW x \in S \ T, T \in F
      PROVE  T \cup {x} \in F
  <2>1. IsFiniteSet(T)
    BY FS_Subset
  <2>2. \A y \in T \cup {x} : f[y] \in Int /\ g[y] \in Int
    OBVIOUS
  <2>. DEFINE m == Cardinality(T)
              a == SumFunctionOnSet(f, T)
              b == SumFunctionOnSet(g, T)
  <2>3. m \in Nat /\ Cardinality(T \cup {x}) = m + 1
    BY <2>1, FS_CardinalityType, FS_AddElement
  <2>4. /\ a \in Int /\ b \in Int
        /\ SumFunctionOnSet(f, T \cup {x}) = f[x] + a
        /\ SumFunctionOnSet(g, T \cup {x}) = g[x] + b
    BY <2>1, <2>2, SumType, SumAdds
  <2>5. 2 * (h * a - b) \in -(h * m)..h * m
    BY <1>2
  <2>. HIDE DEF m, a, b
  <2>6. f[x] \in Int /\ g[x] \in Int /\ 2 * (h * f[x] - g[x]) \in -h..h
    OBVIOUS
  <2>7. /\ h * (f[x] + a) = h * f[x] + h * a /\ h * (m + 1) = h * m + h
        /\ h * f[x] \in Int /\ h * a \in Int /\ h * m \in Int
    BY <2>3, <2>4, <2>6
  <2>8. 2 * (h * (f[x] + a) - (g[x] + b)) \in -(h * (m + 1))..h * (m + 1)
    BY <2>3, <2>4, <2>5, <2>6, <2>7
  <2>. QED
    BY <2>3, <2>4, <2>8
<1>3. S \in F
  <2>. HIDE DEF F
  <2>. QED
    BY <1>1, <1>2, AddingElements
<1>. QED
  BY <1>3
====
