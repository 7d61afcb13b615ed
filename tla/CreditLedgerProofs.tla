------------------------- MODULE CreditLedgerProofs -------------------------
(***************************************************************************)
(* Proofs about the Credits ledger, for every number of packs and          *)
(* reservations, every amount and every caller.  The first part is about   *)
(* finite sums and about handing an amount out in order, on which the      *)
(* allocation and the refund of Credits both rest; the second part about   *)
(* the rows; the third about the steps.                                    *)
(***************************************************************************)
EXTENDS CreditLedger, FiniteSetTheorems, WellFoundedInduction, TLAPS

(* The SMT solver may take up to 30 seconds over a leaf, and is called     *)
(* again when its first call fails.                                        *)
USE SMTT(30), Z3T(30)

(***************************************************************************)
(* LeastNumber. A nonempty set of numbers has a least element.             *)
(***************************************************************************)
LEMMA LeastNumber ==
  ASSUME NEW S \in SUBSET Nat, S # {}
  PROVE  \E m \in S : \A n \in S : m <= n
<1>1. PICK x \in S : \A y \in S : ~ (<<y, x>> \in OpToRel(<, Nat))
  BY WFMin, NatLessThanWellFounded, Zenon
<1>2. \A y \in S : ~ (y < x)
  BY <1>1, Zenon DEF OpToRel
<1> QED
  BY <1>2

(***************************************************************************)
(* SubsetInduction. Induction over the subsets of a finite set. The        *)
(* property is given by the set of the subsets that have it, so that no    *)
(* operator has to be passed to the lemma.                                 *)
(***************************************************************************)
LEMMA SubsetInduction ==
  ASSUME NEW U, IsFiniteSet(U), NEW Good, {} \in Good,
         \A S \in SUBSET U : S # {} /\ (\A x \in S : S \ {x} \in Good) => S \in Good
  PROVE  \A S \in SUBSET U : S \in Good
<1> SUFFICES ASSUME NEW B \in SUBSET U, B \notin Good PROVE FALSE
  OBVIOUS
<1> DEFINE C == {n \in Nat : \E S \in SUBSET U : S \notin Good /\ Cardinality(S) = n}
<1>1. \A S \in SUBSET U : IsFiniteSet(S) /\ Cardinality(S) \in Nat
  BY FS_Subset, FS_CardinalityType
<1>2. Cardinality(B) \in C
  BY <1>1
<1>3. PICK m \in C : \A n \in C : m <= n
  BY <1>2, LeastNumber, Zenon
<1>4. PICK S \in SUBSET U : S \notin Good /\ Cardinality(S) = m
  BY <1>3
<1>5. PICK x \in S : S \ {x} \notin Good
  BY <1>4, Zenon
<1>6. S \ {x} \in SUBSET U /\ Cardinality(S \ {x}) = m - 1 /\ Cardinality(S \ {x}) \in Nat
  BY <1>1, <1>4, <1>5, FS_RemoveElement
<1>7. m - 1 \in C
  BY <1>5, <1>6
<1> QED
  BY <1>3, <1>7

(***************************************************************************)
(* SumFunctionOnSet is defined by recursion on the subsets of the index    *)
(* set, taking out an arbitrary element.                                   *)
(***************************************************************************)
Sums(f, U, g) ==
  g = [s \in SUBSET U |-> IF s = {} THEN 0
                          ELSE f[CHOOSE x \in s : TRUE] + g[s \ {CHOOSE x \in s : TRUE}]]

(***************************************************************************)
(* SumIsChosen. SumFunctionOnSet is what the recursion over the subsets    *)
(* computes for the whole set.                                             *)
(***************************************************************************)
LEMMA SumIsChosen ==
  ASSUME NEW f, NEW U
  PROVE  SumFunctionOnSet(f, U) = (CHOOSE g : Sums(f, U, g))[U]
BY DEF SumFunctionOnSet, FoldFunctionOnSet, MapThenFoldSet, Sums

(***************************************************************************)
(* SumsExist. The recursion defines a function: there are partial ones up  *)
(* to every cardinality, since a least cardinality without one would have  *)
(* one.                                                                    *)
(***************************************************************************)
LEMMA SumsExist ==
  ASSUME NEW f, NEW U, IsFiniteSet(U)
  PROVE  \E g : Sums(f, U, g)
<1> DEFINE one(s) == CHOOSE x \in s : TRUE
           D(n) == {s \in SUBSET U : Cardinality(s) <= n}
           Partial(n, g) == g = [s \in D(n) |-> IF s = {} THEN 0 ELSE f[one(s)] + g[s \ {one(s)}]]
           C == {n \in Nat : ~ \E g : Partial(n, g)}
<1>1. \A s \in SUBSET U : /\ IsFiniteSet(s) /\ Cardinality(s) \in Nat /\ (Cardinality(s) = 0 <=> s = {})
                          /\ Cardinality(s) <= Cardinality(U)
  BY FS_Subset, FS_CardinalityType, FS_EmptySet
<1>2. ASSUME NEW s \in SUBSET U, s # {}
      PROVE  /\ one(s) \in s /\ s \ {one(s)} \in SUBSET U
             /\ Cardinality(s \ {one(s)}) = Cardinality(s) - 1
  <2>1. one(s) \in s
    BY <1>2
  <2> QED
    BY <1>1, <2>1, FS_RemoveElement, Zenon
<1>3. C = {}
  <2> SUFFICES ASSUME C # {} PROVE FALSE
    BY Zenon
  <2>1. PICK m \in C : \A n \in C : m <= n
    BY LeastNumber, Zenon
  <2>2. CASE m = 0
    <3> DEFINE g == [s \in D(0) |-> 0]
    <3>1. \A s \in D(0) : s = {}
      BY <1>1
    <3>2. Partial(0, g)
      BY <3>1
    <3> QED
      BY <2>1, <2>2, <3>2, Zenon
  <2>3. CASE m # 0
    <3>1. m \in Nat /\ m - 1 \in Nat /\ m - 1 \notin C
      <4>1. m \in Nat /\ m - 1 \in Nat
        BY <2>3
      <4> HIDE DEF C
      <4> QED
        BY <2>1, <4>1
    <3>2. PICK g : Partial(m - 1, g)
      BY <3>1, Zenon
    <3> DEFINE h == [s \in D(m) |-> IF s = {} THEN 0 ELSE f[one(s)] + g[s \ {one(s)}]]
    <3>3. ASSUME NEW s \in D(m), s # {} PROVE h[s \ {one(s)}] = g[s \ {one(s)}]
      <4> DEFINE t == s \ {one(s)}
      <4>1. t \in D(m - 1) /\ t \in D(m)
        BY <1>1, <1>2, <3>1, <3>3
      <4>2. h[t] = IF t = {} THEN 0 ELSE f[one(t)] + g[t \ {one(t)}]
        BY <4>1
      <4>3. g[t] = IF t = {} THEN 0 ELSE f[one(t)] + g[t \ {one(t)}]
        BY <3>2, <4>1
      <4> QED
        BY <4>2, <4>3
    <3>4. Partial(m, h)
      <4> HIDE DEF D, one
      <4>1. h = [s \in D(m) |-> IF s = {} THEN 0 ELSE f[one(s)] + h[s \ {one(s)}]]
        BY <3>3, Zenon
      <4> QED
        BY <4>1, Zenon
    <3> QED
      BY <2>1, <3>4, Zenon
  <2> QED
    BY <2>2, <2>3
<1>4. Cardinality(U) \in Nat /\ Cardinality(U) \notin C
  BY <1>3, FS_CardinalityType, Zenon
<1>5. PICK g : Partial(Cardinality(U), g)
  BY <1>4, Zenon
<1>6. D(Cardinality(U)) = SUBSET U
  BY <1>1
<1>7. Sums(f, U, g)
  BY <1>5, <1>6 DEF Sums
<1> QED
  BY <1>7

(***************************************************************************)
(* SumsAgree. The recursion over a larger set computes the same for a      *)
(* subset.                                                                 *)
(***************************************************************************)
LEMMA SumsAgree ==
  ASSUME NEW f, NEW U, IsFiniteSet(U), NEW T \in SUBSET U, NEW g, NEW h, Sums(f, U, g), Sums(f, T, h)
  PROVE  g[T] = h[T]
<1> DEFINE Good == {s \in SUBSET T : g[s] = h[s]}
<1>1. IsFiniteSet(T)
  BY FS_Subset
<1>2. \A s \in SUBSET T :
        /\ g[s] = IF s = {} THEN 0 ELSE f[CHOOSE x \in s : TRUE] + g[s \ {CHOOSE x \in s : TRUE}]
        /\ h[s] = IF s = {} THEN 0 ELSE f[CHOOSE x \in s : TRUE] + h[s \ {CHOOSE x \in s : TRUE}]
  BY DEF Sums
<1>3. {} \in Good
  BY <1>2
<1>4. ASSUME NEW s \in SUBSET T, s # {}, \A x \in s : s \ {x} \in Good PROVE s \in Good
  <2>1. (CHOOSE x \in s : TRUE) \in s
    BY <1>4
  <2>2. g[s \ {CHOOSE x \in s : TRUE}] = h[s \ {CHOOSE x \in s : TRUE}]
    BY <1>4, <2>1, Zenon
  <2> QED
    BY <1>2, <1>4, <2>2, Zenon
<1> HIDE DEF Good
<1>5. T \in Good
  BY <1>1, <1>3, <1>4, SubsetInduction, Zenon
<1> QED
  BY <1>5 DEF Good

(***************************************************************************)
(* SumEmpty. Nothing adds up to zero.                                      *)
(***************************************************************************)
LEMMA SumEmpty ==
  ASSUME NEW f
  PROVE  SumFunctionOnSet(f, {}) = 0
<1>1. PICK g : Sums(f, {}, g)
  BY SumsExist, FS_EmptySet
<1>2. Sums(f, {}, CHOOSE h : Sums(f, {}, h))
  BY <1>1
<1>3. (CHOOSE h : Sums(f, {}, h))[{}] = 0
  BY <1>2, Zenon DEF Sums
<1> QED
  BY <1>3, SumIsChosen

(***************************************************************************)
(* SumStep. The sum over a nonempty set is one term and the sum of the     *)
(* others.                                                                 *)
(***************************************************************************)
LEMMA SumStep ==
  ASSUME NEW f, NEW S, IsFiniteSet(S), S # {}
  PROVE  \E x \in S : SumFunctionOnSet(f, S) = f[x] + SumFunctionOnSet(f, S \ {x})
<1> DEFINE x == CHOOSE x \in S : TRUE
           T == S \ {x}
           g == CHOOSE g : Sums(f, S, g)
           h == CHOOSE h : Sums(f, T, h)
<1>1. x \in S
  OBVIOUS
<1>2. IsFiniteSet(T) /\ T \in SUBSET S
  BY FS_Subset
<1>3. Sums(f, S, g) /\ Sums(f, T, h)
  BY <1>2, SumsExist
<1>4. g[S] = f[x] + g[T]
  BY <1>3, Zenon DEF Sums
<1>5. g[T] = h[T]
  BY <1>2, <1>3, SumsAgree
<1>6. SumFunctionOnSet(f, S) = g[S] /\ SumFunctionOnSet(f, T) = h[T]
  BY SumIsChosen, Zenon
<1> QED
  BY <1>1, <1>4, <1>5, <1>6, Zenon

(***************************************************************************)
(* SumType. A sum of integers is an integer.                               *)
(***************************************************************************)
LEMMA SumType ==
  ASSUME NEW f, NEW S, IsFiniteSet(S), \A x \in S : f[x] \in Int
  PROVE  SumFunctionOnSet(f, S) \in Int
<1> DEFINE Good == {T \in SUBSET S : SumFunctionOnSet(f, T) \in Int}
<1>1. {} \in Good
  BY SumEmpty
<1>2. ASSUME NEW T \in SUBSET S, T # {}, \A x \in T : T \ {x} \in Good PROVE T \in Good
  <2>1. PICK x \in T : SumFunctionOnSet(f, T) = f[x] + SumFunctionOnSet(f, T \ {x})
    BY <1>2, FS_Subset, SumStep
  <2>2. f[x] \in Int /\ SumFunctionOnSet(f, T \ {x}) \in Int
    BY <1>2, <2>1
  <2> QED
    BY <2>1, <2>2
<1> HIDE DEF Good
<1>3. \A T \in SUBSET S : T # {} /\ (\A x \in T : T \ {x} \in Good) => T \in Good
  BY <1>2
<1>4. \A T \in SUBSET S : T \in Good
  BY ONLY IsFiniteSet(S), <1>1, <1>3, SubsetInduction, Zenon
<1> QED
  BY <1>4 DEF Good

(***************************************************************************)
(* SumTakeOut. It does not matter which term is taken out.                 *)
(***************************************************************************)
LEMMA SumTakeOut ==
  ASSUME NEW f, NEW S, IsFiniteSet(S), \A x \in S : f[x] \in Int, NEW y \in S
  PROVE  SumFunctionOnSet(f, S) = f[y] + SumFunctionOnSet(f, S \ {y})
<1> DEFINE Sum(T) == SumFunctionOnSet(f, T)
           Good == {T \in SUBSET S : \A z \in T : Sum(T) = f[z] + Sum(T \ {z})}
<1>1. {} \in Good
  OBVIOUS
<1>2. ASSUME NEW T \in SUBSET S, T # {}, \A x \in T : T \ {x} \in Good PROVE T \in Good
  <2>1. PICK x \in T : Sum(T) = f[x] + Sum(T \ {x})
    BY <1>2, FS_Subset, SumStep
  <2>2. ASSUME NEW z \in T, z # x PROVE Sum(T) = f[z] + Sum(T \ {z})
    <3>1. Sum(T \ {x}) = f[z] + Sum((T \ {x}) \ {z})
      BY <1>2, <2>2
    <3>2. Sum(T \ {z}) = f[x] + Sum((T \ {z}) \ {x})
      BY <1>2, <2>2
    <3>3. (T \ {x}) \ {z} = (T \ {z}) \ {x}
      OBVIOUS
    <3>4. IsFiniteSet((T \ {x}) \ {z})
      BY FS_Subset
    <3>5. f[x] \in Int /\ f[z] \in Int /\ Sum((T \ {x}) \ {z}) \in Int
      BY <3>4, SumType
    <3> DEFINE rest == Sum((T \ {x}) \ {z})
    <3>6. Sum(T) = f[x] + (f[z] + rest) /\ Sum(T \ {z}) = f[x] + rest /\ rest \in Int
      BY <2>1, <3>1, <3>2, <3>3, <3>5, Zenon
    <3> HIDE DEF Sum, rest
    <3> QED
      BY <3>5, <3>6
  <2> QED
    BY <2>1, <2>2, Zenon
<1> HIDE DEF Good
<1>3. \A T \in SUBSET S : T # {} /\ (\A x \in T : T \ {x} \in Good) => T \in Good
  BY <1>2
<1>4. \A T \in SUBSET S : T \in Good
  BY ONLY IsFiniteSet(S), <1>1, <1>3, SubsetInduction, Zenon
<1> QED
  BY <1>4 DEF Good

(***************************************************************************)
(* SumSame. Equal terms have equal sums.                                   *)
(***************************************************************************)
LEMMA SumSame ==
  ASSUME NEW f, NEW g, NEW S, IsFiniteSet(S), \A x \in S : f[x] \in Int /\ f[x] = g[x]
  PROVE  SumFunctionOnSet(f, S) = SumFunctionOnSet(g, S)
<1> DEFINE Good == {T \in SUBSET S : SumFunctionOnSet(f, T) = SumFunctionOnSet(g, T)}
<1>1. {} \in Good
  BY SumEmpty
<1>2. ASSUME NEW T \in SUBSET S, T # {}, \A x \in T : T \ {x} \in Good PROVE T \in Good
  <2>1. PICK x \in T : SumFunctionOnSet(f, T) = f[x] + SumFunctionOnSet(f, T \ {x})
    BY <1>2, FS_Subset, SumStep
  <2>2. SumFunctionOnSet(g, T) = g[x] + SumFunctionOnSet(g, T \ {x})
    BY FS_Subset, SumTakeOut
  <2> QED
    BY <1>2, <2>1, <2>2
<1> HIDE DEF Good
<1>3. \A T \in SUBSET S : T # {} /\ (\A x \in T : T \ {x} \in Good) => T \in Good
  BY <1>2
<1>4. \A T \in SUBSET S : T \in Good
  BY ONLY IsFiniteSet(S), <1>1, <1>3, SubsetInduction, Zenon
<1> QED
  BY <1>4 DEF Good

(***************************************************************************)
(* SumNat. A sum of naturals is a natural.                                 *)
(***************************************************************************)
LEMMA SumNat ==
  ASSUME NEW f, NEW S, IsFiniteSet(S), \A x \in S : f[x] \in Nat
  PROVE  SumFunctionOnSet(f, S) \in Nat
<1> DEFINE Good == {T \in SUBSET S : SumFunctionOnSet(f, T) \in Nat}
<1>1. {} \in Good
  BY SumEmpty
<1>2. ASSUME NEW T \in SUBSET S, T # {}, \A x \in T : T \ {x} \in Good PROVE T \in Good
  <2>1. PICK x \in T : SumFunctionOnSet(f, T) = f[x] + SumFunctionOnSet(f, T \ {x})
    BY <1>2, FS_Subset, SumStep
  <2>2. f[x] \in Nat /\ SumFunctionOnSet(f, T \ {x}) \in Nat
    BY <1>2, <2>1
  <2> QED
    BY <2>1, <2>2
<1> HIDE DEF Good
<1>3. \A T \in SUBSET S : T # {} /\ (\A x \in T : T \ {x} \in Good) => T \in Good
  BY <1>2
<1>4. \A T \in SUBSET S : T \in Good
  BY ONLY IsFiniteSet(S), <1>1, <1>3, SubsetInduction, Zenon
<1> QED
  BY <1>4 DEF Good

(***************************************************************************)
(* SumPlus. The sum of term-wise sums.                                     *)
(***************************************************************************)
LEMMA SumPlus ==
  ASSUME NEW f, NEW g, NEW h, NEW S, IsFiniteSet(S),
         \A x \in S : f[x] \in Int /\ g[x] \in Int /\ h[x] = f[x] + g[x]
  PROVE  SumFunctionOnSet(h, S) = SumFunctionOnSet(f, S) + SumFunctionOnSet(g, S)
<1> DEFINE Good == {T \in SUBSET S : SumFunctionOnSet(h, T) = SumFunctionOnSet(f, T) + SumFunctionOnSet(g, T)}
<1>1. {} \in Good
  BY SumEmpty
<1>2. ASSUME NEW T \in SUBSET S, T # {}, \A x \in T : T \ {x} \in Good PROVE T \in Good
  <2>1. PICK x \in T : TRUE
    BY <1>2
  <2>2. IsFiniteSet(T) /\ IsFiniteSet(T \ {x})
    BY FS_Subset
  <2>3. /\ SumFunctionOnSet(f, T) = f[x] + SumFunctionOnSet(f, T \ {x})
        /\ SumFunctionOnSet(g, T) = g[x] + SumFunctionOnSet(g, T \ {x})
    BY <2>1, <2>2, SumTakeOut
  <2>4. \A y \in S : h[y] \in Int
    OBVIOUS
  <2>5. SumFunctionOnSet(h, T) = h[x] + SumFunctionOnSet(h, T \ {x})
    BY <2>1, <2>2, <2>4, SumTakeOut
  <2>6. SumFunctionOnSet(f, T \ {x}) \in Int /\ SumFunctionOnSet(g, T \ {x}) \in Int
    BY <2>2, SumType
  <2>7. SumFunctionOnSet(h, T \ {x}) = SumFunctionOnSet(f, T \ {x}) + SumFunctionOnSet(g, T \ {x})
    BY <1>2, <2>1
  <2>8. f[x] \in Int /\ g[x] \in Int /\ h[x] = f[x] + g[x]
    BY <2>1
  <2>9. SumFunctionOnSet(h, T) = SumFunctionOnSet(f, T) + SumFunctionOnSet(g, T)
    BY <2>3, <2>5, <2>6, <2>7, <2>8
  <2> QED
    BY <2>9
<1> HIDE DEF Good
<1>3. \A T \in SUBSET S : T # {} /\ (\A x \in T : T \ {x} \in Good) => T \in Good
  BY <1>2
<1>4. \A T \in SUBSET S : T \in Good
  BY ONLY IsFiniteSet(S), <1>1, <1>3, SubsetInduction, Zenon
<1> QED
  BY <1>4 DEF Good

(***************************************************************************)
(* SumChange. What a sum becomes when one of its terms changes.            *)
(***************************************************************************)
LEMMA SumChange ==
  ASSUME NEW f, NEW g, NEW S, IsFiniteSet(S), NEW y \in S,
         \A x \in S : f[x] \in Int /\ g[x] \in Int, \A x \in S \ {y} : f[x] = g[x]
  PROVE  SumFunctionOnSet(g, S) = SumFunctionOnSet(f, S) - f[y] + g[y]
<1>1. IsFiniteSet(S \ {y})
  BY FS_Subset
<1>2. SumFunctionOnSet(f, S) = f[y] + SumFunctionOnSet(f, S \ {y})
  BY SumTakeOut
<1>3. SumFunctionOnSet(g, S) = g[y] + SumFunctionOnSet(g, S \ {y})
  BY SumTakeOut
<1>4. SumFunctionOnSet(f, S \ {y}) = SumFunctionOnSet(g, S \ {y})
  BY <1>1, SumSame
<1>5. SumFunctionOnSet(f, S \ {y}) \in Int /\ f[y] \in Int /\ g[y] \in Int
  BY <1>1, SumType
<1> QED
  BY <1>2, <1>3, <1>4, <1>5

(***************************************************************************)
(* SumOfSupport. Zeros add nothing.                                        *)
(***************************************************************************)
LEMMA SumOfSupport ==
  ASSUME NEW f, NEW S, IsFiniteSet(S), NEW T \in SUBSET S,
         \A x \in S : f[x] \in Int, \A x \in S \ T : f[x] = 0
  PROVE  SumFunctionOnSet(f, S) = SumFunctionOnSet(f, T)
<1> DEFINE Good == {R \in SUBSET S : SumFunctionOnSet(f, R) = SumFunctionOnSet(f, R \cap T)}
<1>1. {} \in Good
  <2>1. {} \cap T = {}
    OBVIOUS
  <2> QED
    BY <2>1
<1>2. ASSUME NEW R \in SUBSET S, R # {}, \A x \in R : R \ {x} \in Good PROVE R \in Good
  <2>1. PICK x \in R : TRUE
    BY <1>2
  <2>2. IsFiniteSet(R) /\ IsFiniteSet(R \cap T) /\ IsFiniteSet(R \ {x})
    BY FS_Subset
  <2>3. SumFunctionOnSet(f, R) = f[x] + SumFunctionOnSet(f, R \ {x})
    BY <2>1, <2>2, SumTakeOut
  <2>4. SumFunctionOnSet(f, R \ {x}) = SumFunctionOnSet(f, (R \ {x}) \cap T)
    BY <1>2, <2>1
  <2>5. CASE x \in T
    <3>1. (R \ {x}) \cap T = (R \cap T) \ {x} /\ x \in R \cap T
      BY <2>1, <2>5
    <3>2. SumFunctionOnSet(f, R \cap T) = f[x] + SumFunctionOnSet(f, (R \cap T) \ {x})
      BY <2>2, <3>1, SumTakeOut
    <3> QED
      BY <2>3, <2>4, <3>1, <3>2, Zenon
  <2>6. CASE x \notin T
    <3>1. (R \ {x}) \cap T = R \cap T /\ f[x] = 0
      BY <2>1, <2>6
    <3>2. SumFunctionOnSet(f, R \ {x}) \in Int
      BY <2>2, SumType
    <3>3. SumFunctionOnSet(f, R) = SumFunctionOnSet(f, R \ {x})
      BY <2>3, <3>1, <3>2
    <3>4. SumFunctionOnSet(f, R) = SumFunctionOnSet(f, R \cap T)
      BY <2>4, <3>1, <3>3
    <3> QED
      BY <3>4
  <2> QED
    BY <2>5, <2>6
<1> HIDE DEF Good
<1>3. \A R \in SUBSET S : R # {} /\ (\A x \in R : R \ {x} \in Good) => R \in Good
  BY <1>2
<1>4. \A R \in SUBSET S : R \in Good
  BY ONLY IsFiniteSet(S), <1>1, <1>3, SubsetInduction, Zenon
<1>5. S \cap T = T
  OBVIOUS
<1> QED
  BY <1>4, <1>5 DEF Good

(***************************************************************************)
(* MinOfTwo. The smaller of two integers.                                  *)
(***************************************************************************)
LEMMA MinOfTwo ==
  ASSUME NEW a \in Int, NEW b \in Int
  PROVE  Min({a, b}) = IF a <= b THEN a ELSE b
<1>1. \E x \in {a, b} : \A y \in {a, b} : x <= y
  OBVIOUS
<1>2. Min({a, b}) \in {a, b} /\ \A y \in {a, b} : Min({a, b}) <= y
  BY <1>1 DEF Min
<1> QED
  BY <1>2

(***************************************************************************)
(* MaxOfTwo. The larger of two integers.                                   *)
(***************************************************************************)
LEMMA MaxOfTwo ==
  ASSUME NEW a \in Int, NEW b \in Int
  PROVE  Max({a, b}) = IF a >= b THEN a ELSE b
<1>1. \E x \in {a, b} : \A y \in {a, b} : x >= y
  OBVIOUS
<1>2. Max({a, b}) \in {a, b} /\ \A y \in {a, b} : Max({a, b}) >= y
  BY <1>1 DEF Max
<1> QED
  BY <1>2

(***************************************************************************)
(* before gives for each element of S those that come before it: a strict  *)
(* total order.                                                            *)
(***************************************************************************)
Orders(S, before) ==
  /\ before \in [S -> SUBSET S]
  /\ \A x \in S : x \notin before[x]
  /\ \A x, y \in S : y \in before[x] => before[y] \subseteq before[x]
  /\ \A x, y \in S : x = y \/ x \in before[y] \/ y \in before[x]

(***************************************************************************)
(* LastOne. Of finitely many ordered elements one comes last.              *)
(***************************************************************************)
LEMMA LastOne ==
  ASSUME NEW S, IsFiniteSet(S), NEW before, Orders(S, before)
  PROVE  \A T \in SUBSET S : T # {} => \E z \in T : \A y \in T \ {z} : y \in before[z]
<1> DEFINE Good == {R \in SUBSET S : R # {} => \E z \in R : \A y \in R \ {z} : y \in before[z]}
<1>1. {} \in Good
  OBVIOUS
<1>2. ASSUME NEW R \in SUBSET S, R # {}, \A x \in R : R \ {x} \in Good PROVE R \in Good
  <2>1. PICK x \in R : TRUE
    BY <1>2
  <2>2. CASE R \ {x} = {}
    BY <2>1, <2>2
  <2>3. CASE R \ {x} # {}
    <3>1. PICK z \in R \ {x} : \A y \in (R \ {x}) \ {z} : y \in before[z]
      BY <1>2, <2>1, <2>3
    <3>2. CASE x \in before[z]
      BY <3>1, <3>2
    <3>3. CASE z \in before[x]
      <4>1. \A y \in R \ {x} : y \in before[x]
        BY <2>1, <3>1, <3>3 DEF Orders
      <4> QED
        BY <2>1, <4>1
    <3> QED
      BY <2>1, <3>1, <3>2, <3>3 DEF Orders
  <2> QED
    BY <2>2, <2>3
<1> HIDE DEF Good
<1>3. \A R \in SUBSET S : R # {} /\ (\A x \in R : R \ {x} \in Good) => R \in Good
  BY <1>2
<1>4. \A R \in SUBSET S : R \in Good
  BY ONLY IsFiniteSet(S), <1>1, <1>3, SubsetInduction, Zenon
<1> QED
  BY <1>4 DEF Good

(***************************************************************************)
(* SharesAddUp. Handing n out in order, each taking what is left up to its *)
(* capacity, hands out n or all there is. Both the allocation of a         *)
(* reservation over the packs and the refund over its allocations are of   *)
(* this form.                                                              *)
(***************************************************************************)
LEMMA SharesAddUp ==
  ASSUME NEW S, IsFiniteSet(S), NEW f, \A x \in S : f[x] \in Nat, NEW before, Orders(S, before),
         NEW n \in Nat, NEW g, \A x \in S : g[x] = Share(f, before[x], n, x)
  PROVE  SumFunctionOnSet(g, S) = Min({n, SumFunctionOnSet(f, S)})
<1> DEFINE Closed(T) == \A x \in T : before[x] \subseteq T
           Good == {T \in SUBSET S : Closed(T) => SumFunctionOnSet(g, T) = Min({n, SumFunctionOnSet(f, T)})}
<1>a. \A T \in SUBSET S : IsFiniteSet(T) /\ SumFunctionOnSet(f, T) \in Nat
  BY FS_Subset, SumNat
<1>b. ASSUME NEW x \in S
      PROVE  g[x] \in Nat /\ g[x] <= f[x]
  <2>1. before[x] \in SUBSET S
    BY DEF Orders
  <2>2. SumFunctionOnSet(f, before[x]) \in Nat /\ f[x] \in Nat
    BY <1>a, <2>1
  <2>3. n - SumFunctionOnSet(f, before[x]) \in Int
    BY <2>2
  <2> DEFINE m == Min({f[x], n - SumFunctionOnSet(f, before[x])})
  <2>4. m \in Int /\ m <= f[x]
    BY <2>2, <2>3, MinOfTwo
  <2>5. g[x] = Max({0, m})
    BY DEF Share
  <2> HIDE DEF m
  <2> QED
    BY <2>2, <2>4, <2>5, MaxOfTwo
<1>1. {} \in Good
  <2>1. Min({n, 0}) = 0
    BY MinOfTwo
  <2>2. SumFunctionOnSet(g, {}) = 0 /\ SumFunctionOnSet(f, {}) = 0
    BY SumEmpty
  <2> QED
    BY <2>1, <2>2
<1>2. ASSUME NEW T \in SUBSET S, T # {}, \A x \in T : T \ {x} \in Good PROVE T \in Good
  <2> SUFFICES ASSUME Closed(T) PROVE SumFunctionOnSet(g, T) = Min({n, SumFunctionOnSet(f, T)})
    OBVIOUS
  <2>1. PICK z \in T : \A y \in T \ {z} : y \in before[z]
    BY <1>2, LastOne
  <2>2. before[z] = T \ {z}
    <3>1. before[z] \subseteq T /\ z \notin before[z]
      BY <2>1 DEF Orders
    <3> QED
      BY <2>1, <3>1
  <2>3. Closed(T \ {z})
    <3>1. \A x \in T \ {z} : before[x] \subseteq before[z]
      BY <2>1 DEF Orders
    <3> QED
      BY <2>2, <3>1
  <2> DEFINE R == T \ {z}
             s == SumFunctionOnSet(f, R)
  <2>4. SumFunctionOnSet(g, R) = Min({n, s})
    BY <1>2, <2>1, <2>3
  <2>5. IsFiniteSet(T) /\ s \in Nat /\ f[z] \in Nat
    BY <1>a, <2>1
  <2>6. SumFunctionOnSet(f, T) = f[z] + s
    BY <2>1, <2>5, SumTakeOut
  <2>7. \A x \in T : g[x] \in Int
    BY <1>b
  <2>8. SumFunctionOnSet(g, T) = g[z] + SumFunctionOnSet(g, R)
    BY <2>1, <2>5, <2>7, SumTakeOut
  <2>9. g[z] = Max({0, Min({f[z], n - s})})
    BY <2>2, Zenon DEF Share
  <2> HIDE DEF s, R
  <2>10. n - s \in Int /\ f[z] + s \in Nat
    BY <2>5
  <2>11. Min({n, s}) = (IF n <= s THEN n ELSE s) /\ Min({n, f[z] + s}) = IF n <= f[z] + s THEN n ELSE f[z] + s
    BY <2>5, <2>10, MinOfTwo
  <2>12. g[z] = IF n <= s THEN 0 ELSE IF n <= f[z] + s THEN n - s ELSE f[z]
    <3> DEFINE m == IF f[z] <= n - s THEN f[z] ELSE n - s
    <3>1. Min({f[z], n - s}) = m
      BY <2>5, <2>10, MinOfTwo
    <3>2. m \in Int
      BY <2>5, <2>10
    <3>3. g[z] = IF 0 >= m THEN 0 ELSE m
      BY <2>9, <3>1, <3>2, MaxOfTwo
    <3> QED
      BY <2>5, <2>10, <3>3
  <2> QED
    BY <2>4, <2>5, <2>6, <2>8, <2>11, <2>12
<1> HIDE DEF Good
<1>3. \A T \in SUBSET S : T # {} /\ (\A x \in T : T \ {x} \in Good) => T \in Good
  BY <1>2
<1>4. \A T \in SUBSET S : T \in Good
  BY ONLY IsFiniteSet(S), <1>1, <1>3, SubsetInduction
<1>5. Closed(S)
  BY DEF Orders
<1> QED
  BY <1>4, <1>5 DEF Good

(***************************************************************************)
(* SumMonotone.  A part of a sum of naturals is no larger than the whole.  *)
(***************************************************************************)
LEMMA SumMonotone ==
  ASSUME NEW f, NEW S, IsFiniteSet(S), \A x \in S : f[x] \in Nat, NEW T \in SUBSET S
  PROVE  SumFunctionOnSet(f, T) <= SumFunctionOnSet(f, S)
<1> DEFINE g == [x \in S |-> IF x \in T THEN f[x] ELSE 0]
           h == [x \in S |-> IF x \in T THEN 0 ELSE f[x]]
<1>1. \A x \in S : g[x] \in Nat /\ h[x] \in Nat /\ f[x] = g[x] + h[x]
  OBVIOUS
<1>2. SumFunctionOnSet(f, S) = SumFunctionOnSet(g, S) + SumFunctionOnSet(h, S)
  BY <1>1, SumPlus
<1>3. IsFiniteSet(T)
  BY FS_Subset
<1>4. SumFunctionOnSet(g, S) = SumFunctionOnSet(g, T)
  BY <1>1, SumOfSupport
<1>5. SumFunctionOnSet(g, T) = SumFunctionOnSet(f, T)
  BY <1>1, <1>3, SumSame
<1>6. SumFunctionOnSet(h, S) \in Nat /\ SumFunctionOnSet(f, T) \in Nat
  BY <1>1, <1>3, SumNat
<1> QED
  BY <1>2, <1>4, <1>5, <1>6

(***************************************************************************)
(* ShareBounds.  A share is a natural number within the capacity; nothing  *)
(* is handed out of nothing.                                               *)
(***************************************************************************)
LEMMA ShareBounds ==
  ASSUME NEW f, NEW before, SumFunctionOnSet(f, before) \in Nat, NEW x, f[x] \in Nat, NEW n \in Nat
  PROVE  /\ Share(f, before, n, x) \in 0..f[x]
         /\ n <= SumFunctionOnSet(f, before) => Share(f, before, n, x) = 0
         /\ Share(f, before, n, x) < f[x] => n < SumFunctionOnSet(f, before) + f[x]
<1> DEFINE s == SumFunctionOnSet(f, before)
           m == IF f[x] <= n - s THEN f[x] ELSE n - s
<1>1. s \in Nat /\ f[x] \in Nat /\ n - s \in Int
  OBVIOUS
<1>2. Min({f[x], n - s}) = m
  BY <1>1, MinOfTwo
<1>3. m \in Int
  BY <1>1
<1>4. Share(f, before, n, x) = IF 0 >= m THEN 0 ELSE m
  BY <1>2, <1>3, MaxOfTwo DEF Share
<1> HIDE DEF s
<1> QED
  BY <1>1, <1>4 DEF s

(***************************************************************************)
(* FilledInOrder.  When something falls to y, everything before y has had  *)
(* all that it can take.                                                   *)
(***************************************************************************)
LEMMA FilledInOrder ==
  ASSUME NEW f, NEW S, IsFiniteSet(S), \A z \in S : f[z] \in Nat, NEW n \in Nat,
         NEW x \in S, NEW y \in S, NEW beforeX \in SUBSET S, NEW beforeY \in SUBSET S,
         x \in beforeY, beforeX \subseteq beforeY, x \notin beforeX,
         Share(f, beforeY, n, y) > 0
  PROVE  Share(f, beforeX, n, x) = f[x]
<1> DEFINE T == beforeX \cup {x}
<1>1. T \in SUBSET beforeY /\ T \in SUBSET S /\ T \ {x} = beforeX /\ x \in T
  OBVIOUS
<1>2. /\ IsFiniteSet(T) /\ IsFiniteSet(beforeX) /\ IsFiniteSet(beforeY)
      /\ \A z \in T : f[z] \in Int
      /\ \A z \in beforeX : f[z] \in Nat
      /\ \A z \in beforeY : f[z] \in Nat
  BY <1>1, FS_Subset
<1> HIDE DEF T
<1>3. SumFunctionOnSet(f, beforeX) \in Nat /\ SumFunctionOnSet(f, beforeY) \in Nat
  BY <1>2, SumNat
<1>4. SumFunctionOnSet(f, T) = f[x] + SumFunctionOnSet(f, beforeX)
  <2>1. SumFunctionOnSet(f, T) = f[x] + SumFunctionOnSet(f, T \ {x})
    BY ONLY <1>1, <1>2, SumTakeOut
  <2> QED
    BY <1>1, <2>1
<1>5. SumFunctionOnSet(f, T) <= SumFunctionOnSet(f, beforeY)
  BY ONLY <1>1, <1>2, SumMonotone
<1>6. f[x] \in Nat /\ f[y] \in Nat
  OBVIOUS
<1>7. /\ Share(f, beforeX, n, x) \in 0..f[x]
      /\ Share(f, beforeX, n, x) < f[x] => n < SumFunctionOnSet(f, beforeX) + f[x]
  BY <1>3, <1>6, ShareBounds
<1>8. n <= SumFunctionOnSet(f, beforeY) => Share(f, beforeY, n, y) = 0
  BY <1>3, <1>6, ShareBounds
<1>9. ~(n <= SumFunctionOnSet(f, beforeY))
  BY <1>8
<1> QED
  BY <1>3, <1>4, <1>5, <1>6, <1>7, <1>9

(***************************************************************************)
(* GreatestNumber.  A nonempty finite set of integers has a maximum.       *)
(***************************************************************************)
LEMMA GreatestNumber ==
  ASSUME NEW S, S \subseteq Int, IsFiniteSet(S), S # {}
  PROVE  Max(S) \in S /\ \A x \in S : x <= Max(S)
<1> DEFINE before == [x \in S |-> {y \in S : y < x}]
<1>1. Orders(S, before)
  <2>1. before \in [S -> SUBSET S] /\ \A x, y \in S : y \in before[x] <=> y < x
    OBVIOUS
  <2>2. S \subseteq Int
    OBVIOUS
  <2> HIDE DEF before
  <2>3. \A x \in S : x \notin before[x]
    BY <2>1, <2>2
  <2>4. ASSUME NEW x \in S, NEW y \in S, y \in before[x], NEW z \in before[y] PROVE z \in before[x]
    <3>1. z \in S /\ z < y /\ y < x
      BY <2>1, <2>4
    <3>2. z \in Int /\ y \in Int /\ x \in Int
      BY <2>2, <3>1
    <3>3. z < x
      BY <3>1, <3>2
    <3> QED
      BY <2>1, <3>1, <3>3
  <2>5. \A x, y \in S : x = y \/ x \in before[y] \/ y \in before[x]
    BY <2>1, <2>2
  <2> QED
    BY <2>1, <2>3, <2>4, <2>5, Zenon DEF Orders
<1> HIDE DEF before
<1>2. PICK z \in S : \A y \in S \ {z} : y \in before[z]
  <2>1. S \in SUBSET S
    OBVIOUS
  <2>2. \A T \in SUBSET S : T # {} => \E z \in T : \A y \in T \ {z} : y \in before[z]
    BY ONLY IsFiniteSet(S), <1>1, LastOne
  <2> QED
    BY ONLY <2>1, <2>2, S # {}
<1> USE DEF before
<1>3. \A y \in S : z >= y
  <2> SUFFICES ASSUME NEW y \in S PROVE z >= y
    OBVIOUS
  <2>1. CASE y = z
    BY <2>1
  <2>2. CASE y # z
    BY <1>2, <2>2
  <2> QED
    BY <2>1, <2>2
<1> DEFINE P(x) == x \in S /\ \A y \in S : x >= y
<1>4. Max(S) = CHOOSE x : P(x)
  BY DEF Max
<1>5. P(CHOOSE x : P(x))
  BY <1>3, Zenon
<1>6. P(Max(S))
  BY <1>4, <1>5
<1> QED
  BY <1>6

-----------------------------------------------------------------------------
(***************************************************************************)
(* The rows of the ledger.                                                 *)
(***************************************************************************)
Alloc == [credits : [Pack -> Nat], priority : [Pack -> Nat]]

Row ==
  [status : {"absent", "reserved", "review_hold", "refund_pending"} \cup Terminal,
   reserved : Nat, used : Nat, ttl : Int, held : BOOLEAN, project : BOOLEAN,
   target : {NoTarget} \cup Terminal, targetUsed : Nat, wait : Nat, tries : Nat,
   alloc : Alloc]

PackRow == [total : Nat, used : Nat, life : Nat]

(***************************************************************************)
(* No two allocations of a reservation have the same priority.             *)
(***************************************************************************)
Ranked(alloc) ==
  \A p, q \in Drawn(alloc) : alloc.priority[p] = alloc.priority[q] => p = q

(***************************************************************************)
(* PacksFinite.  There are finitely many packs.                            *)
(***************************************************************************)
LEMMA PacksFinite == IsFiniteSet(Pack)
BY LedgerAssumption, FS_Interval DEF Pack

(***************************************************************************)
(* RefundBounds.  A pack never gets back more than the reservation drew    *)
(* from it, and all of its draw stays when nothing is due.                 *)
(***************************************************************************)
LEMMA RefundBounds ==
  ASSUME NEW alloc \in Alloc, NEW due \in Nat, NEW p \in Pack
  PROVE  /\ RefundTo(alloc, due, p) \in 0..alloc.credits[p]
         /\ due = 0 => RefundTo(alloc, due, p) = 0
<1> DEFINE before == {q \in Drawn(alloc) : alloc.priority[q] > alloc.priority[p]}
           f == alloc.credits
<1>1. before \in SUBSET Pack /\ f \in [Pack -> Nat]
  BY DEF Drawn, Alloc
<1>2. IsFiniteSet(before) /\ \A x \in before : f[x] \in Nat
  BY <1>1, PacksFinite, FS_Subset
<1> HIDE DEF before, f
<1>3. SumFunctionOnSet(f, before) \in Nat
  BY <1>2, SumNat
<1>4. /\ Share(f, before, due, p) \in 0..f[p]
      /\ due <= SumFunctionOnSet(f, before) => Share(f, before, due, p) = 0
  BY <1>1, <1>3, ShareBounds
<1>5. RefundTo(alloc, due, p) = Share(f, before, due, p)
  BY DEF RefundTo, before, f
<1> QED
  BY <1>3, <1>4, <1>5 DEF f

(***************************************************************************)
(* RefundAddsUp.  What goes back to the packs is exactly what is due, as   *)
(* long as the allocations cover it.                                       *)
(***************************************************************************)
LEMMA RefundAddsUp ==
  ASSUME NEW alloc \in Alloc, Ranked(alloc), NEW due \in Nat, due <= SumFunction(alloc.credits)
  PROVE  SumFunction([p \in Pack |-> RefundTo(alloc, due, p)]) = due
<1> DEFINE f == alloc.credits
           D == Drawn(alloc)
           before == [p \in D |-> {q \in D : alloc.priority[q] > alloc.priority[p]}]
           g == [p \in Pack |-> RefundTo(alloc, due, p)]
<1>1. f \in [Pack -> Nat] /\ D \in SUBSET Pack /\ alloc.priority \in [Pack -> Nat]
  BY DEF Alloc, Drawn
<1>2. IsFiniteSet(D)
  BY <1>1, PacksFinite, FS_Subset
<1>3. Orders(D, before)
  <2>1. before \in [D -> SUBSET D]
    OBVIOUS
  <2>2. \A x, y \in D : y \in before[x] <=> alloc.priority[y] > alloc.priority[x]
    OBVIOUS
  <2>3. \A x \in D : alloc.priority[x] \in Nat
    BY <1>1
  <2>4. \A x, y \in D : alloc.priority[x] = alloc.priority[y] => x = y
    BY DEF Ranked
  <2> HIDE DEF before, D
  <2>5. \A x \in D : x \notin before[x]
    BY <2>2, <2>3
  <2>6. ASSUME NEW x \in D, NEW y \in D, y \in before[x], NEW z \in before[y] PROVE z \in before[x]
    <3>1. z \in D
      BY <2>1
    <3>2. alloc.priority[z] > alloc.priority[y] /\ alloc.priority[y] > alloc.priority[x]
      BY <2>2, <2>6, <3>1
    <3>3. alloc.priority[z] > alloc.priority[x]
      BY <2>3, <3>1, <3>2
    <3> QED
      BY <2>2, <3>1, <3>3
  <2>7. ASSUME NEW x \in D, NEW y \in D PROVE x = y \/ x \in before[y] \/ y \in before[x]
    BY <2>2, <2>3, <2>4
  <2>8. \A x, y \in D : y \in before[x] => before[y] \subseteq before[x]
    BY <2>6
  <2> QED
    BY <2>1, <2>5, <2>7, <2>8 DEF Orders
<1>4. \A x \in D : g[x] = Share(f, before[x], due, x)
  BY <1>1 DEF RefundTo
<1>5. \A x \in Pack : g[x] \in 0..f[x]
  BY RefundBounds
<1>6. \A x \in Pack \ D : f[x] = 0
  BY <1>1 DEF Drawn
<1> HIDE DEF f, D, before, g
<1>7. SumFunctionOnSet(g, D) = Min({due, SumFunctionOnSet(f, D)})
  <2>1. \A x \in D : f[x] \in Nat
    BY <1>1
  <2> QED
    BY ONLY <1>2, <1>3, <1>4, <2>1, due \in Nat, SharesAddUp
<1>8. SumFunctionOnSet(f, Pack) = SumFunctionOnSet(f, D)
  <2>1. \A x \in Pack : f[x] \in Int
    BY <1>1
  <2> QED
    BY <1>1, <1>6, <2>1, PacksFinite, SumOfSupport
<1>9. SumFunctionOnSet(g, Pack) = SumFunctionOnSet(g, D)
  <2>1. \A x \in Pack : g[x] \in Int
    BY <1>1, <1>5
  <2>2. \A x \in Pack \ D : g[x] = 0
    BY <1>1, <1>5, <1>6
  <2> QED
    BY <1>1, <2>1, <2>2, PacksFinite, SumOfSupport
<1>10. SumFunctionOnSet(f, D) \in Nat
  BY <1>1, <1>2, SumNat
<1>11. SumFunction(f) = SumFunctionOnSet(f, Pack) /\ SumFunction(g) = SumFunctionOnSet(g, Pack)
  BY <1>1 DEF SumFunction, g
<1>12. due <= SumFunctionOnSet(f, D)
  BY <1>8, <1>11 DEF f
<1>13. SumFunction(g) = due
  BY <1>7, <1>9, <1>10, <1>11, <1>12, MinOfTwo
<1> QED
  BY <1>13 DEF g

(***************************************************************************)
(* What a row says of itself: its allocations make up what it reserved, an *)
(* ended row charges, and a queued refund leaves, no more than that.       *)
(***************************************************************************)
RowSound(row) ==
  /\ Ranked(row.alloc)
  /\ SumFunction(row.alloc.credits) = row.reserved
  /\ row.status = "absent" => row.reserved = 0 /\ ~row.project
  /\ row.status = "refund_pending" => row.target \in Terminal /\ row.targetUsed <= row.reserved
  /\ row.status \in Terminal => row.used <= row.reserved

InProject(row) == IF row.project THEN Outstanding(row) ELSE 0

(***************************************************************************)
(* ChargeBounds.  A row's charge on a pack is a natural number, at most    *)
(* what the reservation drew from it.                                      *)
(***************************************************************************)
LEMMA ChargeBounds ==
  ASSUME NEW row \in Row, RowSound(row), NEW p \in Pack
  PROVE  Charged(row, p) \in 0..row.alloc.credits[p]
<1>1. row.alloc.credits[p] \in Nat /\ row.alloc \in Alloc
  BY DEF Row, Alloc
<1>2. CASE row.status \in Terminal
  <2>1. row.reserved - row.used \in Nat
    BY <1>2 DEF RowSound, Row
  <2>2. RefundTo(row.alloc, row.reserved - row.used, p) \in 0..row.alloc.credits[p]
    BY <1>1, <2>1, RefundBounds
  <2>3. Charged(row, p) = row.alloc.credits[p] - RefundTo(row.alloc, row.reserved - row.used, p)
    BY <1>2 DEF Charged, Terminal
  <2> QED
    BY <1>1, <2>2, <2>3
<1>3. CASE row.status \in {"reserved", "review_hold", "refund_pending"}
  BY <1>1, <1>3 DEF Charged, Terminal
<1>4. CASE row.status = "absent"
  BY <1>1, <1>4 DEF Charged, Terminal
<1> QED
  BY <1>2, <1>3, <1>4 DEF Row

(***************************************************************************)
(* ChargeAddsUp.  What a reservation has outstanding is what its packs are *)
(* charged for it, before and after every kind of settlement.              *)
(***************************************************************************)
LEMMA ChargeAddsUp ==
  ASSUME NEW row \in Row, RowSound(row)
  PROVE  Outstanding(row) = SumFunction([p \in Pack |-> Charged(row, p)])
<1> DEFINE f == row.alloc.credits
           g == [p \in Pack |-> Charged(row, p)]
<1>1. f \in [Pack -> Nat] /\ row.alloc \in Alloc /\ SumFunction(f) = SumFunctionOnSet(f, Pack)
  BY DEF Row, Alloc, SumFunction
<1>2. SumFunction(g) = SumFunctionOnSet(g, Pack)
  BY DEF SumFunction
<1>3. CASE row.status \in Terminal
  <2> DEFINE due == row.reserved - row.used
             h == [p \in Pack |-> RefundTo(row.alloc, due, p)]
  <2>1. due \in Nat /\ due <= SumFunction(f) /\ row.reserved \in Nat /\ row.used \in Nat
    BY <1>3 DEF RowSound, Row
  <2>2. SumFunction(h) = due
    BY <1>1, <2>1, RefundAddsUp DEF RowSound
  <2>3. \A p \in Pack : h[p] \in 0..f[p]
    BY <1>1, <2>1, RefundBounds
  <2>4. \A p \in Pack : g[p] = f[p] - h[p]
    BY <1>3 DEF Charged, Terminal
  <2>5. SumFunction(h) = SumFunctionOnSet(h, Pack)
    BY DEF SumFunction
  <2> HIDE DEF h, g, f, due
  <2>6. \A p \in Pack : g[p] \in Int /\ h[p] \in Int /\ f[p] = g[p] + h[p]
    BY <1>1, <2>3, <2>4
  <2>7. SumFunctionOnSet(f, Pack) = SumFunctionOnSet(g, Pack) + SumFunctionOnSet(h, Pack)
    BY <2>6, PacksFinite, SumPlus
  <2>8. SumFunctionOnSet(g, Pack) \in Int
    BY <2>6, PacksFinite, SumType
  <2>9. SumFunction(f) = row.reserved /\ Outstanding(row) = row.used
    BY <1>3 DEF RowSound, Outstanding, f
  <2>10. row.reserved = SumFunction(g) + due
    BY <1>1, <1>2, <2>2, <2>5, <2>7, <2>9
  <2>11. SumFunction(g) = row.used
    BY <1>2, <2>1, <2>8, <2>10 DEF due
  <2> QED
    BY <2>9, <2>11 DEF g
<1>4. CASE row.status \in {"reserved", "review_hold", "refund_pending"}
  <2>1. \A p \in Pack : g[p] = f[p]
    BY <1>4 DEF Charged, Terminal
  <2>2. g = f
    BY <1>1, <2>1
  <2>3. Outstanding(row) = row.reserved
    BY <1>4 DEF Outstanding, Terminal
  <2> QED
    BY <2>2, <2>3 DEF RowSound
<1>5. CASE row.status = "absent"
  <2>1. \A p \in Pack : g[p] = 0
    BY <1>5 DEF Charged, Terminal
  <2>2. {} \in SUBSET Pack /\ Pack \ {} = Pack
    OBVIOUS
  <2> HIDE DEF g
  <2>3. SumFunctionOnSet(g, Pack) = SumFunctionOnSet(g, {})
    BY <2>1, <2>2, PacksFinite, SumOfSupport
  <2>4. Outstanding(row) = 0
    BY <1>5 DEF Outstanding, Terminal, RowSound
  <2> QED
    BY <1>2, <2>3, <2>4, SumEmpty DEF g
<1> QED
  BY <1>3, <1>4, <1>5 DEF Row

(***************************************************************************)
(* SpendingOrder.  The packs Credits are taken from are totally ordered by *)
(* expiry and row id.                                                      *)
(***************************************************************************)
LEMMA SpendingOrder ==
  ASSUME pack \in [Pack -> PackRow]
  PROVE  Orders(Spendable, [p \in Spendable |-> Earlier(p)])
<1> DEFINE before == [p \in Spendable |-> Earlier(p)]
           life == [p \in Pack |-> pack[p].life]
<1>1. life \in [Pack -> Nat]
  BY DEF PackRow
<1>2. Spendable \subseteq Pack /\ Pack \subseteq Int
  BY LedgerAssumption DEF Spendable, Pack
<1>3. before \in [Spendable -> SUBSET Spendable]
  BY DEF Earlier
<1>4. \A x, y \in Spendable : y \in before[x] <=> life[y] < life[x] \/ (life[y] = life[x] /\ y < x)
  BY <1>2 DEF Earlier, SpentBefore
<1> HIDE DEF before, life
<1>5. \A x \in Spendable : life[x] \in Nat /\ x \in Int
  BY <1>1, <1>2
<1>6. \A x \in Spendable : x \notin before[x]
  BY <1>4, <1>5
<1>7. ASSUME NEW x \in Spendable, NEW y \in Spendable, y \in before[x], NEW z \in before[y]
      PROVE  z \in before[x]
  <2>1. z \in Spendable
    BY <1>3, <1>7
  <2>2. /\ life[y] < life[x] \/ (life[y] = life[x] /\ y < x)
        /\ life[z] < life[y] \/ (life[z] = life[y] /\ z < y)
    BY <1>4, <1>7, <2>1
  <2>3. /\ life[x] \in Nat /\ life[y] \in Nat /\ life[z] \in Nat
        /\ x \in Int /\ y \in Int /\ z \in Int
    BY <1>5, <2>1
  <2>4. life[z] < life[x] \/ (life[z] = life[x] /\ z < x)
    BY <2>2, <2>3
  <2> QED
    BY <1>4, <2>1, <2>4
<1>8. ASSUME NEW x \in Spendable, NEW y \in Spendable
      PROVE  x = y \/ x \in before[y] \/ y \in before[x]
  BY <1>4, <1>5
<1>9. \A x, y \in Spendable : y \in before[x] => before[y] \subseteq before[x]
  BY <1>7
<1>10. Orders(Spendable, before)
  BY <1>3, <1>6, <1>8, <1>9 DEF Orders
<1> QED
  BY <1>10 DEF before

(***************************************************************************)
(* AllocationSound.  The allocation of a reservation the account can       *)
(* afford draws exactly the amount asked for, from no pack more than it    *)
(* has left, and numbers its draws in order.                               *)
(***************************************************************************)
LEMMA AllocationSound ==
  ASSUME pack \in [Pack -> PackRow], \A p \in Pack : pack[p].used <= pack[p].total,
         NEW n \in Nat, Affordable(n)
  PROVE  /\ Allocation(n) \in Alloc
         /\ Ranked(Allocation(n))
         /\ SumFunction(Allocation(n).credits) = n
         /\ \A p \in Pack : Taken(p, n) \in 0..Free[p]
<1> DEFINE S == Spendable
           before == [p \in S |-> Earlier(p)]
           g == [p \in Pack |-> Taken(p, n)]
<1>1. Orders(S, before)
  BY SpendingOrder
<1>2. S \in SUBSET Pack /\ IsFiniteSet(S) /\ \A p \in S : Earlier(p) \in SUBSET S /\ before[p] = Earlier(p)
  BY PacksFinite, FS_Subset DEF Spendable, Earlier
<1>3. \A p \in Pack : Free[p] \in Nat
  BY DEF Free, PackRow
<1>4. \A p \in S : IsFiniteSet(Earlier(p)) /\ SumFunctionOnSet(Free, Earlier(p)) \in Nat
  <2> SUFFICES ASSUME NEW p \in S
               PROVE  IsFiniteSet(Earlier(p)) /\ SumFunctionOnSet(Free, Earlier(p)) \in Nat
    OBVIOUS
  <2>1. IsFiniteSet(Earlier(p)) /\ \A x \in Earlier(p) : Free[x] \in Nat
    BY <1>2, <1>3, FS_Subset
  <2> QED
    BY <2>1, SumNat
<1>5. \A p \in Pack : Taken(p, n) \in 0..Free[p]
  <2> SUFFICES ASSUME NEW p \in Pack PROVE Taken(p, n) \in 0..Free[p]
    OBVIOUS
  <2>1. CASE p \in S
    <3>1. Share(Free, Earlier(p), n, p) \in 0..Free[p]
      BY <1>3, <1>4, <2>1, ShareBounds
    <3> QED
      BY <2>1, <3>1 DEF Taken
  <2>2. CASE p \notin S
    BY <1>3, <2>2 DEF Taken
  <2> QED
    BY <2>1, <2>2
<1>6. Allocation(n) \in Alloc
  <2>1. \A p \in Pack : Taken(p, n) \in Nat /\ (Taken(p, n) > 0 => p \in S)
    <3> SUFFICES ASSUME NEW p \in Pack PROVE Taken(p, n) \in Nat /\ (Taken(p, n) > 0 => p \in S)
      OBVIOUS
    <3>1. Taken(p, n) \in Nat
      BY <1>3, <1>5
    <3>2. p \notin S => Taken(p, n) = 0
      BY DEF Taken
    <3> QED
      BY <3>1, <3>2
  <2>2. \A p \in S : Cardinality(Earlier(p)) \in Nat
    BY <1>4, FS_CardinalityType
  <2> QED
    BY <2>1, <2>2 DEF Allocation, Alloc
<1>7. Ranked(Allocation(n))
  <2> SUFFICES ASSUME NEW p \in Drawn(Allocation(n)), NEW q \in Drawn(Allocation(n)),
                      Allocation(n).priority[p] = Allocation(n).priority[q]
               PROVE  p = q
    BY DEF Ranked
  <2>1. p \in Pack /\ q \in Pack /\ Taken(p, n) > 0 /\ Taken(q, n) > 0
    BY DEF Drawn, Allocation
  <2>2. p \in S /\ q \in S
    BY <2>1 DEF Taken
  <2>3. Cardinality(Earlier(p)) = Cardinality(Earlier(q))
    BY <2>1 DEF Allocation
  <2>4. ASSUME NEW x \in S, NEW y \in S, x \in Earlier(y)
        PROVE  Cardinality(Earlier(x)) # Cardinality(Earlier(y))
    <3>1. Earlier(x) \in SUBSET Earlier(y) /\ x \notin Earlier(x)
      BY <1>1, <1>2, <2>4 DEF Orders
    <3>2. IsFiniteSet(Earlier(y)) /\ Earlier(x) # Earlier(y)
      BY <1>4, <2>4, <3>1
    <3> QED
      BY <3>1, <3>2, FS_Subset
  <2>5. p = q \/ p \in Earlier(q) \/ q \in Earlier(p)
    BY <1>1, <1>2, <2>2 DEF Orders
  <2> QED
    BY <2>2, <2>3, <2>4, <2>5
<1>8. SumFunction(Allocation(n).credits) = n
  <2>1. \A x \in S : g[x] = Share(Free, before[x], n, x)
    BY <1>2 DEF Taken
  <2>2. \A x \in S : Free[x] \in Nat
    BY <1>2, <1>3
  <2>3. \A x \in Pack : g[x] \in Int
    BY <1>3, <1>5
  <2>4. \A x \in Pack \ S : g[x] = 0
    BY DEF Taken
  <2>5. Allocation(n).credits = g /\ SumFunction(g) = SumFunctionOnSet(g, Pack)
    BY DEF Allocation, SumFunction
  <2> HIDE DEF g, before, S
  <2>6. SumFunctionOnSet(g, S) = Min({n, SumFunctionOnSet(Free, S)})
    BY ONLY <1>1, <1>2, <2>1, <2>2, n \in Nat, SharesAddUp
  <2>7. SumFunctionOnSet(Free, S) \in Nat
    BY <1>2, <2>2, SumNat
  <2>8. n <= SumFunctionOnSet(Free, S)
    BY DEF Affordable, S
  <2>9. SumFunctionOnSet(g, Pack) = SumFunctionOnSet(g, S)
    BY <1>2, <2>3, <2>4, PacksFinite, SumOfSupport
  <2>10. Min({n, SumFunctionOnSet(Free, S)}) = n
    BY <2>7, <2>8, MinOfTwo
  <2> QED
    BY <2>5, <2>6, <2>9, <2>10
<1> QED
  BY <1>5, <1>6, <1>7, <1>8

-----------------------------------------------------------------------------
(***************************************************************************)
(* The inductive invariant: typed rows, each sound in itself, and books    *)
(* that balance.                                                           *)
(***************************************************************************)
LedgerInv ==
  /\ resv \in [Reservation -> Row]
  /\ pack \in [Pack -> PackRow]
  /\ spent \in Nat
  /\ sweep \in Seq(Reservation)
  /\ \A r \in Reservation : RowSound(resv[r])
  /\ BooksBalance

(***************************************************************************)
(* PackFacts.  A pack never owes more than it holds.                       *)
(***************************************************************************)
LEMMA PackFacts ==
  ASSUME LedgerInv, NEW p \in Pack
  PROVE  /\ pack[p] \in PackRow
         /\ pack[p].used \in Nat /\ pack[p].total \in Nat /\ pack[p].used <= pack[p].total
<1>1. pack[p] \in PackRow /\ pack[p].used <= pack[p].total
  BY Zenon DEF LedgerInv, BooksBalance
<1> QED
  BY <1>1 DEF PackRow

(***************************************************************************)
(* ProjectShare.  What a row counts against the project is a natural       *)
(* number, at most what it reserved.                                       *)
(***************************************************************************)
LEMMA ProjectShare ==
  ASSUME NEW row \in Row, RowSound(row)
  PROVE  InProject(row) \in 0..row.reserved
BY DEF InProject, Outstanding, Row, RowSound

(***************************************************************************)
(* BooksMove.  The books still balance when one row changes and the packs  *)
(* and the project move by exactly the difference of its charges.          *)
(***************************************************************************)
LEMMA BooksMove ==
  ASSUME LedgerInv, NEW r \in Reservation, NEW new \in Row, RowSound(new),
         resv' = [resv EXCEPT ![r] = new],
         pack' \in [Pack -> PackRow],
         \A p \in Pack : /\ pack'[p].used = pack[p].used - Charged(resv[r], p) + Charged(new, p)
                         /\ pack'[p].used <= pack'[p].total,
         spent' \in Nat, spent' <= ProjectCap,
         spent' = spent - InProject(resv[r]) + InProject(new),
         sweep' \in Seq(Reservation)
  PROVE  LedgerInv'
<1>1. resv \in [Reservation -> Row] /\ \A s \in Reservation : RowSound(resv[s])
  BY DEF LedgerInv
<1>2. /\ resv' \in [Reservation -> Row] /\ resv'[r] = new
      /\ \A s \in Reservation \ {r} : resv'[s] = resv[s]
  BY <1>1
<1>3. \A s \in Reservation : RowSound(resv'[s])
  BY <1>1, <1>2
<1>4. IsFiniteSet(Reservation)
  BY LedgerAssumption
<1>5. ASSUME NEW p \in Pack
      PROVE  pack'[p].used = SumFunction([s \in Reservation |-> Charged(resv'[s], p)])
  <2> DEFINE f == [s \in Reservation |-> Charged(resv[s], p)]
             g == [s \in Reservation |-> Charged(resv'[s], p)]
  <2>1. \A s \in Reservation : f[s] \in Int /\ g[s] \in Int
    <3> SUFFICES ASSUME NEW s \in Reservation PROVE f[s] \in Int /\ g[s] \in Int
      OBVIOUS
    <3>1. resv[s] \in Row /\ resv'[s] \in Row /\ RowSound(resv[s]) /\ RowSound(resv'[s])
      BY <1>1, <1>2, <1>3
    <3>2. Charged(resv[s], p) \in Int /\ Charged(resv'[s], p) \in Int
      BY <3>1, ChargeBounds
    <3> QED
      BY <3>2
  <2>2. \A s \in Reservation \ {r} : f[s] = g[s]
    BY <1>2
  <2>3. f[r] = Charged(resv[r], p) /\ g[r] = Charged(new, p)
    BY <1>2
  <2>4. SumFunction(f) = SumFunctionOnSet(f, Reservation) /\ SumFunction(g) = SumFunctionOnSet(g, Reservation)
    BY DEF SumFunction
  <2>5. pack[p].used = SumFunction(f)
    BY DEF LedgerInv, BooksBalance
  <2> HIDE DEF f, g
  <2>6. SumFunctionOnSet(g, Reservation) = SumFunctionOnSet(f, Reservation) - f[r] + g[r]
    BY ONLY <1>4, <2>1, <2>2, r \in Reservation, SumChange
  <2>7. pack'[p].used = SumFunction(g)
    BY <2>3, <2>4, <2>5, <2>6
  <2> QED
    BY <2>7 DEF g
<1>6. spent' = SumFunction([s \in Reservation |-> InProject(resv'[s])])
  <2> DEFINE f == [s \in Reservation |-> InProject(resv[s])]
             g == [s \in Reservation |-> InProject(resv'[s])]
  <2>1. \A s \in Reservation : f[s] \in Int /\ g[s] \in Int
    <3> SUFFICES ASSUME NEW s \in Reservation PROVE f[s] \in Int /\ g[s] \in Int
      OBVIOUS
    <3>1. resv[s] \in Row /\ resv'[s] \in Row /\ RowSound(resv[s]) /\ RowSound(resv'[s])
      BY <1>1, <1>2, <1>3
    <3>2. InProject(resv[s]) \in Int /\ InProject(resv'[s]) \in Int
      BY <3>1, ProjectShare
    <3> QED
      BY <3>2
  <2>2. \A s \in Reservation \ {r} : f[s] = g[s]
    BY <1>2
  <2>3. f[r] = InProject(resv[r]) /\ g[r] = InProject(new)
    BY <1>2, Zenon
  <2>4. SumFunction(f) = SumFunctionOnSet(f, Reservation) /\ SumFunction(g) = SumFunctionOnSet(g, Reservation)
    BY DEF SumFunction
  <2>5. spent = SumFunction(f)
    BY DEF LedgerInv, BooksBalance, InProject
  <2> HIDE DEF f, g
  <2>6. SumFunctionOnSet(g, Reservation) = SumFunctionOnSet(f, Reservation) - f[r] + g[r]
    BY ONLY <1>4, <2>1, <2>2, r \in Reservation, SumChange
  <2>7. spent' = SumFunction(g)
    BY <2>3, <2>4, <2>5, <2>6, Zenon
  <2> QED
    BY <2>7 DEF g
<1>7. \A s \in Reservation : Outstanding(resv'[s]) = SumFunction([p \in Pack |-> Charged(resv'[s], p)])
  BY <1>2, <1>3, ChargeAddsUp
<1>8. BooksBalance'
  BY <1>5, <1>6, <1>7, Zenon DEF BooksBalance, InProject
<1> QED
  BY <1>2, <1>3, <1>8 DEF LedgerInv

(***************************************************************************)
(* BooksKept.  The books still balance when no row's charges change and    *)
(* no pack's use.                                                          *)
(***************************************************************************)
LEMMA BooksKept ==
  ASSUME LedgerInv, resv' \in [Reservation -> Row],
         \A r \in Reservation : /\ RowSound(resv'[r])
                                /\ \A p \in Pack : Charged(resv'[r], p) = Charged(resv[r], p)
                                /\ InProject(resv'[r]) = InProject(resv[r]),
         pack' \in [Pack -> PackRow],
         \A p \in Pack : pack'[p].used = pack[p].used /\ pack'[p].used <= pack'[p].total,
         spent' = spent,
         sweep' \in Seq(Reservation)
  PROVE  LedgerInv'
<1>1. \A r \in Reservation : resv'[r] \in Row
  OBVIOUS
<1>2. \A r \in Reservation : Outstanding(resv'[r]) = SumFunction([p \in Pack |-> Charged(resv'[r], p)])
  BY <1>1, ChargeAddsUp
<1>3. ASSUME NEW p \in Pack
      PROVE  pack'[p].used = SumFunction([r \in Reservation |-> Charged(resv'[r], p)])
  <2>1. [r \in Reservation |-> Charged(resv'[r], p)] = [r \in Reservation |-> Charged(resv[r], p)]
    OBVIOUS
  <2> QED
    BY <2>1 DEF LedgerInv, BooksBalance
<1>4. spent' = SumFunction([r \in Reservation |-> InProject(resv'[r])]) /\ spent' <= ProjectCap /\ spent' \in Nat
  <2>1. [r \in Reservation |-> InProject(resv'[r])] = [r \in Reservation |-> InProject(resv[r])]
    OBVIOUS
  <2>2. spent = SumFunction([r \in Reservation |-> InProject(resv[r])]) /\ spent <= ProjectCap /\ spent \in Nat
    BY DEF LedgerInv, BooksBalance, InProject
  <2> QED
    BY <2>1, <2>2
<1>5. BooksBalance'
  BY <1>2, <1>3, <1>4 DEF BooksBalance, InProject
<1> QED
  BY <1>4, <1>5 DEF LedgerInv

(***************************************************************************)
(* BackoffType.  The time to the next refund attempt is a natural number.  *)
(***************************************************************************)
LEMMA BackoffType ==
  ASSUME NEW tries
  PROVE  Backoff(tries) \in Nat
<1> DEFINE e == 2 ^ (tries - 1)
           S == {n \in 1..60 : n = 1 \/ n <= e}
<1>1. Backoff(tries) = Max(S)
  BY DEF Backoff
<1> HIDE DEF e
<1>2. 1 \in S /\ S \in SUBSET (1..60) /\ \A x \in S : x \in Nat
  OBVIOUS
<1>3. IsFiniteSet(1..60)
  <2> DEFINE hour == 60
  <2>1. hour \in Int
    OBVIOUS
  <2> HIDE DEF hour
  <2>2. IsFiniteSet(1..hour)
    BY <2>1, FS_Interval
  <2> QED
    BY <2>2 DEF hour
<1>4. IsFiniteSet(S)
  BY <1>2, <1>3, FS_Subset
<1>5. S \subseteq Int /\ S # {}
  BY <1>2
<1> HIDE DEF S
<1>6. Max(S) \in S
  BY <1>4, <1>5, GreatestNumber, Zenon
<1> QED
  BY <1>1, <1>2, <1>6, Zenon

(***************************************************************************)
(* EndedSound.  The terminal write of a live row, with a charge within the *)
(* reservation, gives a sound row.                                         *)
(***************************************************************************)
LEMMA EndedSound ==
  ASSUME NEW row \in Row, RowSound(row), NEW status \in Terminal,
         NEW used \in Nat, used <= row.reserved
  PROVE  /\ Ended(row, status, used) \in Row
         /\ RowSound(Ended(row, status, used))
         /\ \A p \in Pack : Charged(Ended(row, status, used), p)
                              = row.alloc.credits[p] - RefundTo(row.alloc, row.reserved - used, p)
         /\ InProject(Ended(row, status, used)) = IF row.project THEN used ELSE 0
<1> DEFINE new == Ended(row, status, used)
<1>1. /\ new.status = status /\ new.used = used /\ new.alloc = row.alloc
      /\ new.reserved = row.reserved /\ new.project = row.project
      /\ new \in Row
  BY Zenon DEF Ended, Row, NoTarget
<1> HIDE DEF new
<1>2. new.status # "absent" /\ new.status # "refund_pending"
  BY <1>1 DEF Terminal
<1>3. RowSound(new)
  BY <1>1, <1>2 DEF RowSound
<1>4. \A p \in Pack : Charged(new, p) = row.alloc.credits[p] - RefundTo(row.alloc, row.reserved - used, p)
  BY <1>1 DEF Charged, Terminal
<1>5. InProject(new) = IF row.project THEN used ELSE 0
  BY <1>1 DEF InProject, Outstanding
<1> QED
  BY <1>1, <1>3, <1>4, <1>5 DEF new

Live == {"reserved", "review_hold", "refund_pending"}

(***************************************************************************)
(* LiveCharge.  Until it ends, a row charges all it drew.                  *)
(***************************************************************************)
LEMMA LiveCharge ==
  ASSUME NEW row \in Row, row.status \in Live
  PROVE  /\ \A p \in Pack : Charged(row, p) = row.alloc.credits[p]
         /\ InProject(row) = IF row.project THEN row.reserved ELSE 0
BY DEF Live, Charged, Terminal, InProject, Outstanding

(***************************************************************************)
(* LiveMove.  A row may change in any other respect while it stays live.   *)
(***************************************************************************)
LEMMA LiveMove ==
  ASSUME LedgerInv, NEW r \in Reservation, NEW new \in Row, RowSound(new),
         resv[r].status \in Live, new.status \in Live,
         new.alloc = resv[r].alloc, new.project = resv[r].project, new.reserved = resv[r].reserved,
         resv' = [resv EXCEPT ![r] = new],
         UNCHANGED <<pack, spent>>, sweep' \in Seq(Reservation)
  PROVE  LedgerInv'
<1>1. resv[r] \in Row
  BY DEF LedgerInv
<1>2. \A p \in Pack : Charged(new, p) = Charged(resv[r], p) /\ Charged(new, p) \in Int
  <2> SUFFICES ASSUME NEW p \in Pack
               PROVE  Charged(new, p) = Charged(resv[r], p) /\ Charged(new, p) \in Int
    OBVIOUS
  <2>1. Charged(new, p) = new.alloc.credits[p] /\ Charged(resv[r], p) = resv[r].alloc.credits[p]
    BY <1>1, LiveCharge
  <2>2. Charged(new, p) \in Int
    BY ChargeBounds
  <2> QED
    BY <2>1, <2>2
<1>3. InProject(new) = InProject(resv[r]) /\ InProject(new) \in Int
  BY <1>1, LiveCharge, ProjectShare
<1>4. pack' = pack /\ spent' = spent /\ spent \in Nat /\ spent <= ProjectCap
  BY DEF LedgerInv, BooksBalance
<1>5. \A p \in Pack : /\ pack'[p].used = pack[p].used - Charged(resv[r], p) + Charged(new, p)
                      /\ pack'[p].used <= pack'[p].total
  BY <1>2, <1>4, PackFacts
<1>6. spent' = spent - InProject(resv[r]) + InProject(new)
  BY <1>3, <1>4
<1>7. pack' \in [Pack -> PackRow]
  BY <1>4 DEF LedgerInv
<1> QED
  BY <1>4, <1>5, <1>6, <1>7, BooksMove, Zenon

(***************************************************************************)
(* ChargeOver.  A live row may end, with a charge within its reservation,  *)
(* if the packs and the project get back what it does not charge.          *)
(***************************************************************************)
LEMMA ChargeOver ==
  ASSUME LedgerInv, NEW r \in Reservation, NEW row \in Row, RowSound(row), row.status \in Live,
         resv[r].status \in Live, row.alloc = resv[r].alloc,
         row.project = resv[r].project, row.reserved = resv[r].reserved,
         NEW status \in Terminal, NEW used \in Nat, used <= row.reserved,
         \A p \in Drawn(row.alloc) : row.alloc.credits[p] <= pack[p].used,
         row.project => row.reserved - used <= spent,
         resv' = [resv EXCEPT ![r] = Ended(row, status, used)],
         pack' = [p \in Pack |->
                    [pack[p] EXCEPT !.used = @ - RefundTo(row.alloc, row.reserved - used, p)]],
         spent' = IF row.project THEN spent - (row.reserved - used) ELSE spent,
         sweep' \in Seq(Reservation)
  PROVE  LedgerInv'
<1> DEFINE new == Ended(row, status, used)
           due == row.reserved - used
<1>1. new \in Row /\ RowSound(new)
  BY EndedSound
<1>2. /\ \A p \in Pack : Charged(new, p) = row.alloc.credits[p] - RefundTo(row.alloc, due, p)
      /\ InProject(new) = IF row.project THEN used ELSE 0
  BY EndedSound
<1>3. resv[r] \in Row
  BY DEF LedgerInv
<1>4. \A p \in Pack : Charged(resv[r], p) = row.alloc.credits[p]
  BY <1>3, LiveCharge
<1>5. InProject(resv[r]) = IF row.project THEN row.reserved ELSE 0
  BY <1>3, LiveCharge
<1>6. due \in Nat /\ row.alloc \in Alloc /\ row.reserved \in Nat /\ row.project \in BOOLEAN
  BY DEF Row
<1>7. resv' = [resv EXCEPT ![r] = new]
  OBVIOUS
<1> HIDE DEF new
<1>8. ASSUME NEW p \in Pack
      PROVE  /\ pack'[p] \in PackRow
             /\ pack'[p].used = pack[p].used - Charged(resv[r], p) + Charged(new, p)
             /\ pack'[p].used <= pack'[p].total
  <2> DEFINE back == RefundTo(row.alloc, due, p)
             drawn == row.alloc.credits[p]
  <2>1. back \in 0..drawn /\ drawn \in Nat
    BY <1>6, RefundBounds, Zenon DEF Alloc
  <2>2. /\ pack[p] \in PackRow
        /\ pack[p].used \in Nat /\ pack[p].total \in Nat /\ pack[p].used <= pack[p].total
    BY PackFacts
  <2>3. drawn <= pack[p].used
    <3>1. CASE p \in Drawn(row.alloc)
      BY <3>1
    <3>2. CASE p \notin Drawn(row.alloc)
      BY <2>1, <2>2, <3>2 DEF Drawn
    <3> QED
      BY <3>1, <3>2
  <2>4. pack'[p] = [pack[p] EXCEPT !.used = @ - back]
    OBVIOUS
  <2>5. Charged(resv[r], p) = drawn /\ Charged(new, p) = drawn - back
    BY <1>2, <1>4
  <2> HIDE DEF back, drawn, due
  <2>6. pack[p].used - back \in Nat /\ pack[p].used - back <= pack[p].total
    BY <2>1, <2>2, <2>3
  <2>7. pack'[p] \in PackRow /\ pack'[p].used = pack[p].used - back /\ pack'[p].total = pack[p].total
    BY <2>2, <2>4, <2>6 DEF PackRow
  <2>8. pack[p].used - back = pack[p].used - drawn + (drawn - back)
    BY <2>1, <2>2
  <2> QED
    BY <2>5, <2>6, <2>7, <2>8
<1>9. spent \in Nat /\ spent <= ProjectCap /\ ProjectCap \in Nat
  BY LedgerAssumption DEF LedgerInv, BooksBalance
<1>10. /\ spent' \in Nat /\ spent' <= ProjectCap
       /\ spent' = spent - InProject(resv[r]) + InProject(new)
  <2>1. CASE row.project
    <3>1. /\ InProject(resv[r]) = row.reserved /\ InProject(new) = used
          /\ spent' = spent - (row.reserved - used) /\ row.reserved - used <= spent
      BY <1>2, <1>5, <2>1
    <3>2. used \in Nat /\ used <= row.reserved /\ row.reserved \in Nat
      BY <1>6
    <3> QED
      BY ONLY <1>9, <3>1, <3>2
  <2>2. CASE ~row.project
    <3>1. InProject(resv[r]) = 0 /\ InProject(new) = 0 /\ spent' = spent
      BY <1>2, <1>5, <2>2
    <3> QED
      BY ONLY <1>9, <3>1
  <2> QED
    BY <1>6, <2>1, <2>2
<1>11. pack' \in [Pack -> PackRow]
  <2>1. \A p \in Pack : pack'[p] \in PackRow
    BY <1>8
  <2>2. pack' = [p \in Pack |-> pack'[p]]
    OBVIOUS
  <2> QED
    BY ONLY <2>1, <2>2
<1>12. \A p \in Pack : /\ pack'[p].used = pack[p].used - Charged(resv[r], p) + Charged(new, p)
                       /\ pack'[p].used <= pack'[p].total
  BY <1>8
<1> QED
  BY <1>1, <1>7, <1>10, <1>11, <1>12, BooksMove, Zenon

(***************************************************************************)
(* AttemptSound.  A refund attempt keeps the books, whether it returns the *)
(* Credits and ends the row or leaves only the intent behind.              *)
(***************************************************************************)
LEMMA AttemptSound ==
  ASSUME LedgerInv, NEW r \in Reservation, NEW row \in Row, RowSound(row),
         row.status = "refund_pending", resv[r].status \in Live, row.alloc = resv[r].alloc,
         row.project = resv[r].project, row.reserved = resv[r].reserved,
         AttemptRefund(r, row), sweep' \in Seq(Reservation)
  PROVE  LedgerInv'
<1>1. row.target \in Terminal /\ row.targetUsed \in Nat /\ row.targetUsed <= row.reserved /\ row.status \in Live
  BY DEF RowSound, Row, Live
<1>2. CASE /\ RefundFits(row)
           /\ pack' = [p \in Pack |->
                        [pack[p] EXCEPT !.used = @ - RefundTo(row.alloc, Due(row), p)]]
           /\ spent' = ProjectAfter(row)
           /\ resv' = [resv EXCEPT ![r] = Ended(row, row.target, row.targetUsed)]
  <2>1. \A p \in Drawn(row.alloc) : row.alloc.credits[p] <= pack[p].used
    BY <1>2 DEF RefundFits
  <2>2. row.project => row.reserved - row.targetUsed <= spent
    BY <1>2 DEF RefundFits, Due
  <2>3. spent' = IF row.project THEN spent - (row.reserved - row.targetUsed) ELSE spent
    BY <1>2 DEF ProjectAfter, Due
  <2>4. pack' = [p \in Pack |->
                  [pack[p] EXCEPT !.used = @ - RefundTo(row.alloc, row.reserved - row.targetUsed, p)]]
    BY <1>2 DEF Due
  <2> QED
    BY <1>1, <1>2, <2>1, <2>2, <2>3, <2>4, ChargeOver, Zenon
<1>3. CASE /\ resv' = [resv EXCEPT ![r] = [row EXCEPT !.tries = @ + 1, !.wait = Backoff(row.tries + 1)]]
           /\ UNCHANGED <<pack, spent>>
  <2> DEFINE w == Backoff(row.tries + 1)
             n == row.tries + 1
             new == [row EXCEPT !.tries = n, !.wait = w]
  <2>1. w \in Nat /\ n \in Nat
    BY BackoffType DEF Row
  <2>2. resv' = [resv EXCEPT ![r] = new]
    BY <1>3
  <2> HIDE DEF w, n
  <2>3. /\ new \in Row /\ new.status = row.status /\ new.alloc = row.alloc /\ new.project = row.project
        /\ new.reserved = row.reserved /\ new.target = row.target /\ new.targetUsed = row.targetUsed
    BY <2>1, Zenon DEF Row
  <2> HIDE DEF new
  <2>4. RowSound(new)
    BY <2>3 DEF RowSound, Terminal
  <2> QED
    BY <1>1, <1>3, <2>2, <2>3, <2>4, LiveMove, Zenon
<1> QED
  BY <1>2, <1>3 DEF AttemptRefund

(***************************************************************************)
(* QueuedSound.  Queueing a refund leaves a sound row that charges what it *)
(* charged before.                                                         *)
(***************************************************************************)
LEMMA QueuedSound ==
  ASSUME NEW row \in Row, RowSound(row), NEW target \in Terminal, NEW used \in Nat, used <= row.reserved
  PROVE  LET new == Queued(row, target, used)
         IN  /\ new \in Row /\ RowSound(new) /\ new.status = "refund_pending"
             /\ new.alloc = row.alloc /\ new.project = row.project /\ new.reserved = row.reserved
<1> DEFINE new == Queued(row, target, used)
<1>1. /\ new \in Row /\ new.status = "refund_pending" /\ new.target = target /\ new.targetUsed = used
      /\ new.alloc = row.alloc /\ new.project = row.project /\ new.reserved = row.reserved
  BY Zenon DEF Queued, Row
<1> HIDE DEF new
<1>2. RowSound(new)
  BY <1>1 DEF RowSound, Terminal
<1> QED
  BY <1>1, <1>2 DEF new

(***************************************************************************)
(* EndSound.  A live row whose charge is all it reserved ends without a    *)
(* refund.                                                                 *)
(***************************************************************************)
LEMMA EndSound ==
  ASSUME LedgerInv, NEW r \in Reservation, resv[r].status \in Live, NEW status \in Terminal,
         resv' = [resv EXCEPT ![r] = Ended(resv[r], status, resv[r].reserved)],
         UNCHANGED <<pack, spent>>, sweep' \in Seq(Reservation)
  PROVE  LedgerInv'
<1> DEFINE row == resv[r]
           new == Ended(row, status, row.reserved)
<1>1. row \in Row /\ RowSound(row) /\ row.reserved \in Nat /\ row.alloc \in Alloc /\ row.status \in Live
  BY DEF LedgerInv, Row
<1>2. resv' = [resv EXCEPT ![r] = new]
  OBVIOUS
<1> HIDE DEF row
<1>3. /\ new \in Row /\ RowSound(new)
      /\ \A p \in Pack : Charged(new, p) = row.alloc.credits[p] - RefundTo(row.alloc, row.reserved - row.reserved, p)
      /\ InProject(new) = IF row.project THEN row.reserved ELSE 0
  <2>1. row.reserved <= row.reserved
    BY <1>1
  <2> QED
    BY <1>1, <2>1, EndedSound
<1>4. row.reserved - row.reserved = 0
  BY <1>1
<1> HIDE DEF new
<1>5. \A p \in Pack : Charged(new, p) = Charged(row, p) /\ Charged(row, p) \in Int
  <2> SUFFICES ASSUME NEW p \in Pack
               PROVE  Charged(new, p) = Charged(row, p) /\ Charged(row, p) \in Int
    OBVIOUS
  <2>1. Charged(row, p) = row.alloc.credits[p] /\ row.alloc.credits[p] \in Nat
    BY <1>1, LiveCharge DEF Alloc
  <2>2. RefundTo(row.alloc, 0, p) = 0
    BY <1>1, RefundBounds
  <2>3. Charged(new, p) = row.alloc.credits[p] - 0
    BY <1>3, <1>4, <2>2, Zenon
  <2> QED
    BY <2>1, <2>3
<1>6. InProject(new) = InProject(row) /\ InProject(row) \in Int
  BY <1>1, <1>3, LiveCharge, ProjectShare
<1>7. pack' = pack /\ spent' = spent /\ spent \in Nat /\ spent <= ProjectCap /\ pack' \in [Pack -> PackRow]
  BY DEF LedgerInv, BooksBalance
<1>8. \A p \in Pack : /\ pack'[p].used = pack[p].used - Charged(row, p) + Charged(new, p)
                      /\ pack'[p].used <= pack'[p].total
  BY <1>5, <1>7, PackFacts
<1>9. spent' = spent - InProject(row) + InProject(new)
  BY <1>6, <1>7
<1> QED
  BY <1>2, <1>3, <1>7, <1>8, <1>9, BooksMove, Zenon DEF row

(***************************************************************************)
(* SettleSound.  Finalize and Release, replayed, retried or first made,    *)
(* keep the books.                                                         *)
(***************************************************************************)
LEMMA SettleSound ==
  ASSUME LedgerInv, NEW r \in Reservation, NEW target \in Terminal, NEW used \in Nat,
         used <= resv[r].reserved, Settle(r, target, used), sweep' \in Seq(Reservation)
  PROVE  LedgerInv'
<1> DEFINE row == resv[r]
<1>1. row \in Row /\ RowSound(row) /\ row.reserved \in Nat
  BY DEF LedgerInv, Row
<1>2. CASE UNCHANGED ledger
  BY <1>2, Zenon DEF ledger, LedgerInv, BooksBalance
<1>3. CASE row.status = "refund_pending" /\ AttemptRefund(r, row)
  <2>1. row.status \in Live
    BY <1>3 DEF Live
  <2> QED
    BY <1>1, <1>3, <2>1, AttemptSound, Zenon
<1>4. CASE row.status \in {"reserved", "review_hold"} /\ used = row.reserved
           /\ resv' = [resv EXCEPT ![r] = Ended(row, target, used)] /\ UNCHANGED <<pack, spent>>
  <2>1. row.status \in Live
    BY <1>4, Zenon DEF Live
  <2> QED
    BY <1>4, <2>1, EndSound, Zenon
<1>5. CASE row.status \in {"reserved", "review_hold"} /\ AttemptRefund(r, Queued(row, target, used))
  <2>1. row.status \in Live
    BY <1>5, Zenon DEF Live
  <2> DEFINE new == Queued(row, target, used)
  <2>2. /\ new \in Row /\ RowSound(new) /\ new.status = "refund_pending"
        /\ new.alloc = row.alloc /\ new.project = row.project /\ new.reserved = row.reserved
    BY <1>1, QueuedSound
  <2>3. AttemptRefund(r, new)
    BY <1>5
  <2> HIDE DEF new
  <2> QED
    BY <2>1, <2>2, <2>3, AttemptSound, Zenon
<1> QED
  BY <1>2, <1>3, <1>4, <1>5 DEF Settle

(***************************************************************************)
(* ReserveSound.  A new reservation charges the packs and the project what *)
(* its row says.                                                           *)
(***************************************************************************)
LEMMA ReserveSound ==
  ASSUME LedgerInv, NEW r \in Reservation, NEW n \in Nat, NEW inProject \in BOOLEAN, NEW ttl \in Int,
         Reserve(r, n, inProject, ttl), sweep' \in Seq(Reservation)
  PROVE  LedgerInv'
<1> DEFINE old == resv[r]
           alloc == Allocation(n)
           new == [NoRow EXCEPT !.status = "reserved", !.reserved = n, !.ttl = ttl,
                                !.project = inProject, !.alloc = alloc]
<1>1. old \in Row /\ RowSound(old) /\ old.status = "absent"
  BY DEF LedgerInv, Reserve
<1>2. pack \in [Pack -> PackRow] /\ Affordable(n) /\ \A p \in Pack : pack[p].used <= pack[p].total
  BY PackFacts DEF LedgerInv, Reserve
<1>3. alloc \in Alloc /\ Ranked(alloc) /\ SumFunction(alloc.credits) = n
  BY <1>2, AllocationSound
<1>4. \A p \in Pack : Taken(p, n) \in 0..Free[p] /\ alloc.credits[p] = Taken(p, n)
  BY <1>2, AllocationSound, Zenon DEF Allocation
<1>5. resv' = [resv EXCEPT ![r] = new]
  BY DEF Reserve, NewRow
<1> HIDE DEF alloc
<1>6. /\ new \in Row /\ new.status = "reserved" /\ new.reserved = n /\ new.alloc = alloc
      /\ new.project = inProject
  BY <1>3, Zenon DEF NoRow, Row, NoTarget
<1> HIDE DEF new, old
<1>7. RowSound(new)
  BY <1>3, <1>6 DEF RowSound, Terminal
<1>8. \A p \in Pack : Charged(new, p) = Taken(p, n) /\ Charged(old, p) = 0
  <2> SUFFICES ASSUME NEW p \in Pack PROVE Charged(new, p) = Taken(p, n) /\ Charged(old, p) = 0
    OBVIOUS
  <2>1. Charged(new, p) = alloc.credits[p]
    BY <1>6, LiveCharge DEF Live
  <2>2. Charged(old, p) = 0
    BY <1>1 DEF Charged, Terminal
  <2> QED
    BY <1>4, <2>1, <2>2
<1>9. InProject(new) = (IF inProject THEN n ELSE 0) /\ InProject(old) = 0
  BY <1>1, <1>6 DEF InProject, Outstanding, Terminal, RowSound
<1>10. ASSUME NEW p \in Pack
       PROVE  /\ pack'[p] \in PackRow
              /\ pack'[p].used = pack[p].used - Charged(old, p) + Charged(new, p)
              /\ pack'[p].used <= pack'[p].total
  <2> DEFINE take == Taken(p, n)
  <2>1. pack'[p] = [pack[p] EXCEPT !.used = @ + take]
    BY DEF Reserve
  <2>2. /\ pack[p] \in PackRow
        /\ pack[p].used \in Nat /\ pack[p].total \in Nat /\ pack[p].used <= pack[p].total
    BY PackFacts
  <2>3. take \in 0..(pack[p].total - pack[p].used)
    BY <1>4 DEF Free
  <2>4. Charged(new, p) = take /\ Charged(old, p) = 0
    BY <1>8
  <2> HIDE DEF take
  <2>5. take \in Nat /\ pack[p].used + take \in Nat /\ pack[p].used + take <= pack[p].total
    BY <2>2, <2>3
  <2>6. pack'[p] \in PackRow /\ pack'[p].used = pack[p].used + take /\ pack'[p].total = pack[p].total
    BY <2>1, <2>2, <2>5, Zenon DEF PackRow
  <2> QED
    BY <2>2, <2>4, <2>5, <2>6
<1>11. pack' \in [Pack -> PackRow]
  <2>1. \A p \in Pack : pack'[p] \in PackRow
    BY <1>10
  <2>2. pack' = [p \in Pack |-> pack'[p]]
    BY DEF Reserve
  <2> QED
    BY ONLY <2>1, <2>2
<1>12. \A p \in Pack : /\ pack'[p].used = pack[p].used - Charged(old, p) + Charged(new, p)
                       /\ pack'[p].used <= pack'[p].total
  BY <1>10
<1>13. /\ spent' \in Nat /\ spent' <= ProjectCap
       /\ spent' = spent - InProject(old) + InProject(new)
  <2>1. /\ spent \in Nat /\ spent <= ProjectCap
        /\ spent' = IF inProject THEN spent + n ELSE spent
        /\ inProject => spent + n <= ProjectCap
    BY DEF LedgerInv, BooksBalance, Reserve
  <2> QED
    BY <1>9, <2>1
<1> QED
  BY <1>5, <1>6, <1>7, <1>11, <1>12, <1>13, BooksMove, Zenon DEF old

(***************************************************************************)
(* HoldSound.  Freezing a reservation for a Review moves no Credits.       *)
(***************************************************************************)
LEMMA HoldSound ==
  ASSUME LedgerInv, NEW r \in Reservation, NEW unexpired, HoldForReview(r, unexpired),
         sweep' \in Seq(Reservation)
  PROVE  LedgerInv'
<1> DEFINE row == resv[r]
           new == [row EXCEPT !.status = "review_hold", !.held = TRUE]
<1>1. row \in Row /\ RowSound(row) /\ row.status = "reserved" /\ resv \in [Reservation -> Row]
  BY DEF LedgerInv, HoldForReview
<1>2. resv' = [resv EXCEPT ![r] = new]
  BY <1>1, Zenon DEF HoldForReview
<1> HIDE DEF row
<1>3. /\ new \in Row /\ new.status = "review_hold" /\ new.alloc = row.alloc
      /\ new.project = row.project /\ new.reserved = row.reserved
  BY <1>1, Zenon DEF Row
<1> HIDE DEF new
<1>4. RowSound(new)
  BY <1>1, <1>3 DEF RowSound, Terminal
<1>5. row.status \in Live /\ new.status \in Live
  BY <1>1, <1>3 DEF Live
<1> QED
  BY <1>2, <1>3, <1>4, <1>5, LiveMove, Zenon DEF row, HoldForReview

(***************************************************************************)
(* ExtendSound.  Nor does extending one that is still in use.              *)
(***************************************************************************)
LEMMA ExtendSound ==
  ASSUME LedgerInv, NEW r \in Reservation, resv[r].status = "reserved",
         resv' = [resv EXCEPT ![r].ttl = TaskExtension],
         UNCHANGED <<pack, spent>>, sweep' \in Seq(Reservation)
  PROVE  LedgerInv'
<1> DEFINE row == resv[r]
           new == [row EXCEPT !.ttl = TaskExtension]
<1>1. row \in Row /\ RowSound(row) /\ row.status = "reserved" /\ resv \in [Reservation -> Row]
  BY DEF LedgerInv
<1>2. resv' = [resv EXCEPT ![r] = new]
  BY <1>1
<1> HIDE DEF row
<1>3. /\ new \in Row /\ new.status = "reserved" /\ new.alloc = row.alloc
      /\ new.project = row.project /\ new.reserved = row.reserved
  <2>1. TaskExtension \in Int
    BY LedgerAssumption
  <2> QED
    BY <1>1, <2>1, Zenon DEF Row
<1> HIDE DEF new
<1>4. RowSound(new)
  BY <1>1, <1>3 DEF RowSound, Terminal
<1>5. row.status \in Live /\ new.status \in Live
  BY <1>1, <1>3 DEF Live
<1> QED
  BY <1>2, <1>3, <1>4, <1>5, LiveMove, Zenon DEF row

(***************************************************************************)
(* AgedSound.  A row whose deadlines move stays sound and charges the same.*)
(***************************************************************************)
LEMMA AgedSound ==
  ASSUME NEW row \in Row, RowSound(row), NEW t \in Int, NEW w \in Nat
  PROVE  LET new == [row EXCEPT !.ttl = t, !.wait = w]
         IN  /\ new \in Row /\ RowSound(new)
             /\ \A p \in Pack : Charged(new, p) = Charged(row, p)
             /\ InProject(new) = InProject(row)
<1> DEFINE new == [row EXCEPT !.ttl = t, !.wait = w]
<1>1. /\ new \in Row /\ new.status = row.status /\ new.alloc = row.alloc /\ new.project = row.project
      /\ new.reserved = row.reserved /\ new.used = row.used
      /\ new.target = row.target /\ new.targetUsed = row.targetUsed
  BY Zenon DEF Row
<1> HIDE DEF new
<1>2. RowSound(new)
  BY <1>1 DEF RowSound
<1>3. \A p \in Pack : Charged(new, p) = Charged(row, p)
  BY <1>1 DEF Charged
<1>4. InProject(new) = InProject(row)
  BY <1>1, Zenon DEF InProject, Outstanding
<1> QED
  BY <1>1, <1>2, <1>3, <1>4 DEF new

(***************************************************************************)
(* TickSound.  The passing of time moves no Credits.                       *)
(***************************************************************************)
LEMMA TickSound ==
  ASSUME LedgerInv, LedgerTick
  PROVE  LedgerInv'
<1>1. SweepMargin \in Nat /\ -SweepMargin - 1 \in Int
  BY LedgerAssumption
<1>2. ASSUME NEW r \in Reservation
      PROVE  /\ resv'[r] \in Row /\ RowSound(resv'[r])
             /\ \A p \in Pack : Charged(resv'[r], p) = Charged(resv[r], p)
             /\ InProject(resv'[r]) = InProject(resv[r])
  <2> DEFINE row == resv[r]
             t == IF row.status = "absent" THEN row.ttl ELSE Max({row.ttl - 1, -SweepMargin - 1})
             w == Max({row.wait - 1, 0})
  <2>1. row \in Row /\ RowSound(row) /\ row.ttl \in Int /\ row.wait \in Nat
    BY DEF LedgerInv, Row
  <2>2. resv'[r] = [row EXCEPT !.ttl = t, !.wait = w]
    BY Zenon DEF LedgerTick
  <2> HIDE DEF row
  <2>3. row.ttl - 1 \in Int /\ row.wait - 1 \in Int
    BY <2>1
  <2>4. t \in Int
    BY <1>1, <2>1, <2>3, MaxOfTwo
  <2>5. w \in Nat
    BY <2>1, <2>3, MaxOfTwo
  <2> HIDE DEF t, w
  <2>6. LET new == [row EXCEPT !.ttl = t, !.wait = w]
        IN  /\ new \in Row /\ RowSound(new)
            /\ \A p \in Pack : Charged(new, p) = Charged(row, p)
            /\ InProject(new) = InProject(row)
    BY <2>1, <2>4, <2>5, AgedSound, Zenon
  <2> QED
    BY <2>2, <2>6 DEF row
<1>3. resv' \in [Reservation -> Row]
  <2>1. resv' = [r \in Reservation |-> resv'[r]]
    BY Zenon DEF LedgerTick
  <2>2. \A r \in Reservation : resv'[r] \in Row
    BY <1>2
  <2> QED
    BY ONLY <2>1, <2>2
<1>4. ASSUME NEW p \in Pack
      PROVE  pack'[p] \in PackRow /\ pack'[p].used = pack[p].used /\ pack'[p].used <= pack'[p].total
  <2> DEFINE l == IF pack[p].life \in {0, Forever} THEN pack[p].life ELSE pack[p].life - 1
  <2>1. pack[p] \in PackRow /\ pack[p].used <= pack[p].total
    BY PackFacts
  <2>2. pack'[p] = [pack[p] EXCEPT !.life = l]
    BY Zenon DEF LedgerTick
  <2>3. l \in Nat
    BY <2>1 DEF PackRow
  <2> HIDE DEF l
  <2> QED
    BY <2>1, <2>2, <2>3 DEF PackRow
<1>5. pack' \in [Pack -> PackRow]
  <2>1. pack' = [p \in Pack |-> pack'[p]]
    BY Zenon DEF LedgerTick
  <2>2. \A p \in Pack : pack'[p] \in PackRow
    BY <1>4
  <2> QED
    BY ONLY <2>1, <2>2
<1>6. spent' = spent /\ sweep' \in Seq(Reservation)
  BY Zenon DEF LedgerTick, LedgerInv
<1> QED
  BY <1>2, <1>3, <1>4, <1>5, <1>6, BooksKept

(***************************************************************************)
(* RevokeSound.  Revoking an order's pack leaves it exactly what is        *)
(* charged to it.                                                          *)
(***************************************************************************)
LEMMA RevokeSound ==
  ASSUME LedgerInv, NEW p \in Pack, RevokePack(p)
  PROVE  LedgerInv'
<1>1. pack \in [Pack -> PackRow] /\ resv' = resv /\ spent' = spent /\ sweep' = sweep
  BY DEF LedgerInv, RevokePack
<1>2. pack[p] \in PackRow /\ pack[p].used \in Nat
  BY PackFacts
<1>3. ASSUME NEW q \in Pack
      PROVE  pack'[q] \in PackRow /\ pack'[q].used = pack[q].used /\ pack'[q].used <= pack'[q].total
  <2>1. CASE q = p
    <3> DEFINE old == pack[p]
               new == pack'[p]
               u == old.used
    <3>1. old \in PackRow /\ new = [old EXCEPT !.total = u, !.life = 0] /\ u = old.used /\ u \in Nat
      BY <1>1, <1>2 DEF RevokePack
    <3> HIDE DEF u, old, new
    <3>2. new \in PackRow
      BY <3>1, Zenon DEF PackRow
    <3>3. new.used = u /\ new.total = u
      BY <3>1 DEF PackRow
    <3>4. new.used <= new.total
      BY <3>1, <3>3
    <3> QED
      BY <2>1, <3>1, <3>2, <3>3, <3>4 DEF old, new
  <2>2. CASE q # p
    <3>1. pack'[q] = pack[q]
      BY <1>1, <2>2 DEF RevokePack
    <3> QED
      BY <3>1, PackFacts
  <2> QED
    BY <2>1, <2>2
<1>4. pack' \in [Pack -> PackRow]
  <2>1. pack' = [q \in Pack |-> pack'[q]]
    BY <1>1, Zenon DEF RevokePack
  <2>2. \A q \in Pack : pack'[q] \in PackRow
    BY <1>3
  <2> QED
    BY ONLY <2>1, <2>2
<1>5. /\ resv' \in [Reservation -> Row] /\ sweep' \in Seq(Reservation)
      /\ \A r \in Reservation : RowSound(resv'[r])
  BY <1>1 DEF LedgerInv
<1> QED
  BY <1>1, <1>3, <1>4, <1>5, BooksKept

(***************************************************************************)
(* SweepSound.  One reservation taken up by the sweeper.                   *)
(***************************************************************************)
LEMMA SweepSound ==
  ASSUME LedgerInv, NEW active \in BOOLEAN, SweepOne(active)
  PROVE  LedgerInv'
<1> DEFINE r == Head(sweep)
           row == resv[r]
<1>1. r \in Reservation /\ sweep' \in Seq(Reservation)
  BY DEF LedgerInv, SweepOne
<1>2. row \in Row /\ RowSound(row) /\ row.reserved \in Nat
  BY <1>1 DEF LedgerInv, Row
<1>3. CASE RefundDue(row) /\ AttemptRefund(r, row)
  <2>1. row.status = "refund_pending" /\ row.status \in Live
    BY <1>3 DEF RefundDue, Live
  <2> QED
    BY <1>1, <1>2, <1>3, <2>1, AttemptSound
<1>4. CASE Abandoned(row) /\ resv' = [resv EXCEPT ![r].ttl = TaskExtension] /\ UNCHANGED <<pack, spent>>
  BY <1>1, <1>4, ExtendSound, Zenon DEF Abandoned
<1>5. CASE /\ Abandoned(row) /\ row.reserved = 0
           /\ resv' = [resv EXCEPT ![r] = Ended(row, "expired", 0)] /\ UNCHANGED <<pack, spent>>
  <2>1. row.status \in Live /\ "expired" \in Terminal
    BY <1>5 DEF Abandoned, Live, Terminal
  <2>2. resv' = [resv EXCEPT ![r] = Ended(row, "expired", row.reserved)]
    BY <1>5, Zenon
  <2> QED
    BY <1>1, <1>5, <2>1, <2>2, EndSound, Zenon
<1>6. CASE Abandoned(row) /\ AttemptRefund(r, Queued(row, "expired", 0))
  <2> DEFINE new == Queued(row, "expired", 0)
  <2>1. row.status \in Live /\ "expired" \in Terminal /\ 0 <= row.reserved
    BY <1>2, <1>6 DEF Abandoned, Live, Terminal
  <2>2. /\ new \in Row /\ RowSound(new) /\ new.status = "refund_pending"
        /\ new.alloc = row.alloc /\ new.project = row.project /\ new.reserved = row.reserved
    BY <1>2, <2>1, QueuedSound
  <2>3. AttemptRefund(r, new)
    BY <1>6
  <2> HIDE DEF new
  <2> QED
    BY <1>1, <2>1, <2>2, <2>3, AttemptSound
<1>7. CASE UNCHANGED ledger
  BY <1>1, <1>7 DEF ledger, LedgerInv, BooksBalance
<1>8. \/ RefundDue(row) /\ AttemptRefund(r, row)
      \/ Abandoned(row) /\ resv' = [resv EXCEPT ![r].ttl = TaskExtension] /\ UNCHANGED <<pack, spent>>
      \/ /\ Abandoned(row) /\ row.reserved = 0
         /\ resv' = [resv EXCEPT ![r] = Ended(row, "expired", 0)] /\ UNCHANGED <<pack, spent>>
      \/ Abandoned(row) /\ AttemptRefund(r, Queued(row, "expired", 0))
      \/ UNCHANGED ledger
  BY <1>2 DEF SweepOne
<1> QED
  BY <1>3, <1>4, <1>5, <1>6, <1>7, <1>8

-----------------------------------------------------------------------------
(***************************************************************************)
(* The ledger under arbitrary callers: any operation on any reservation,   *)
(* with any arguments, the sweeper told anything about who owns what, and  *)
(* a process that may lose the sweeper's page at any time.                 *)
(***************************************************************************)
CallerStep(r) ==
  /\ \/ \E n \in Nat, inProject \in BOOLEAN, ttl \in Nat : Reserve(r, n, inProject, ttl)
     \/ \E used \in Nat, hold \in BOOLEAN, unexpired \in BOOLEAN : Finalize(r, used, hold, unexpired)
     \/ \E hold \in BOOLEAN : Release(r, hold)
     \/ \E unexpired \in BOOLEAN : HoldForReview(r, unexpired)
  /\ UNCHANGED sweep

LosePage == sweep' = <<>> /\ UNCHANGED ledger

LedgerNext ==
  \/ \E r \in Reservation : CallerStep(r)
  \/ \E Owned \in SUBSET Reservation : ScanReservations(Owned)
  \/ \E active \in BOOLEAN : SweepOne(active)
  \/ \E p \in Pack : RevokePack(p)
  \/ LedgerTick
  \/ LosePage

LedgerSpec == LedgerInit /\ [][LedgerNext]_ledgerVars

(***************************************************************************)
(* EmptyBooks.  Before the first reservation the books balance.            *)
(***************************************************************************)
LEMMA EmptyBooks ==
  ASSUME LedgerInit
  PROVE  LedgerInv
<1>1. NoRow \in Row /\ NoRow.status = "absent" /\ NoRow.alloc = NoAllocation
      /\ NoRow.reserved = 0 /\ ~NoRow.project
  BY DEF NoRow, NoAllocation, Row, Alloc, NoTarget
<1>2. RowSound(NoRow)
  <2> DEFINE f == NoAllocation.credits
  <2>1. f \in [Pack -> Nat] /\ (\A p \in Pack : f[p] = 0) /\ SumFunction(f) = SumFunctionOnSet(f, Pack)
    BY DEF NoAllocation, SumFunction
  <2>2. {} \in SUBSET Pack /\ \A p \in Pack \ {} : f[p] = 0
    BY <2>1
  <2>3. \A p \in Pack : f[p] \in Int
    BY <2>1
  <2> HIDE DEF f
  <2>4. SumFunctionOnSet(f, Pack) = SumFunctionOnSet(f, {})
    BY <2>2, <2>3, PacksFinite, SumOfSupport
  <2>5. SumFunction(NoAllocation.credits) = 0
    BY <2>1, <2>4, SumEmpty DEF f
  <2>6. Drawn(NoAllocation) = {}
    BY <2>1 DEF Drawn, f
  <2> QED
    BY <1>1, <2>5, <2>6 DEF RowSound, Ranked, Terminal
<1>3. \A p \in Pack : Charged(NoRow, p) = 0
  BY <1>1 DEF Charged, Terminal
<1>4. InProject(NoRow) = 0
  BY <1>1 DEF InProject
<1>5. resv = [r \in Reservation |-> NoRow] /\ resv \in [Reservation -> Row] /\ \A r \in Reservation : RowSound(resv[r])
  BY <1>1, <1>2 DEF LedgerInit
<1>6. /\ pack \in [Pack -> PackRow] /\ \A p \in Pack : pack[p].used = 0 /\ pack[p].used <= pack[p].total
  <2> SUFFICES ASSUME NEW p \in Pack PROVE pack[p] \in PackRow /\ pack[p].used = 0 /\ pack[p].used <= pack[p].total
    BY DEF LedgerInit
  <2>1. Grant \in Nat /\ PackLife[p] \in Nat
    BY LedgerAssumption DEF Pack
  <2>2. pack[p] = [total |-> Grant, used |-> 0, life |-> PackLife[p]]
    BY DEF LedgerInit
  <2> QED
    BY <2>1, <2>2 DEF PackRow
<1>7. ASSUME NEW f, f \in [Reservation -> Int], \A r \in Reservation : f[r] = 0 PROVE SumFunction(f) = 0
  <2>1. SumFunction(f) = SumFunctionOnSet(f, Reservation) /\ IsFiniteSet(Reservation)
    BY <1>7, LedgerAssumption DEF SumFunction
  <2>2. {} \in SUBSET Reservation /\ \A r \in Reservation \ {} : f[r] = 0
    BY <1>7
  <2>3. \A r \in Reservation : f[r] \in Int
    BY <1>7
  <2>4. SumFunctionOnSet(f, Reservation) = SumFunctionOnSet(f, {})
    BY <2>1, <2>2, <2>3, SumOfSupport
  <2> QED
    BY <2>1, <2>4, SumEmpty
<1>8. ASSUME NEW p \in Pack
      PROVE  pack[p].used = SumFunction([r \in Reservation |-> Charged(resv[r], p)])
  <2> DEFINE f == [r \in Reservation |-> Charged(resv[r], p)]
  <2>1. f \in [Reservation -> Int] /\ \A r \in Reservation : f[r] = 0
    BY <1>3, <1>5
  <2> HIDE DEF f
  <2>2. SumFunction(f) = 0
    BY <1>7, <2>1
  <2> QED
    BY <1>6, <2>2 DEF f
<1>9. spent = SumFunction([r \in Reservation |-> InProject(resv[r])])
  <2> DEFINE f == [r \in Reservation |-> InProject(resv[r])]
  <2>1. f \in [Reservation -> Int] /\ \A r \in Reservation : f[r] = 0
    BY <1>4, <1>5
  <2> HIDE DEF f
  <2>2. SumFunction(f) = 0
    BY <1>7, <2>1
  <2> QED
    BY <2>2 DEF f, LedgerInit
<1>10. \A r \in Reservation : Outstanding(resv[r]) = SumFunction([p \in Pack |-> Charged(resv[r], p)])
  BY <1>5, ChargeAddsUp
<1>11. spent = 0 /\ sweep \in Seq(Reservation) /\ spent <= ProjectCap
  BY LedgerAssumption DEF LedgerInit
<1>12. BooksBalance
  BY <1>6, <1>8, <1>9, <1>10, <1>11, Zenon DEF BooksBalance, InProject
<1> QED
  BY <1>5, <1>6, <1>11, <1>12, Zenon DEF LedgerInv

(***************************************************************************)
(* ScanSound.  The sweeper's page is a sequence of reservations.           *)
(***************************************************************************)
LEMMA ScanSound ==
  ASSUME LedgerInv, NEW Owned, ScanReservations(Owned)
  PROVE  LedgerInv'
<1> DEFINE C == Candidates(Owned)
           n == Cardinality(C)
<1>1. C \in SUBSET Reservation
  BY DEF Candidates
<1>2. n \in Nat
  BY <1>1, LedgerAssumption, FS_Subset, FS_CardinalityType
<1>3. sweep' \in [1..n -> C]
  BY DEF ScanReservations, Bijection, Injection, Surjection
<1> HIDE DEF n, C
<1>4. sweep' \in Seq(Reservation)
  BY <1>1, <1>2, <1>3
<1>5. resv' = resv /\ pack' = pack /\ spent' = spent
  BY DEF ScanReservations, ledger
<1> QED
  BY <1>4, <1>5 DEF LedgerInv, BooksBalance

(***************************************************************************)
(* CallerSound.  Whatever a caller does to a reservation.                  *)
(***************************************************************************)
LEMMA CallerSound ==
  ASSUME LedgerInv, NEW r \in Reservation, CallerStep(r)
  PROVE  LedgerInv'
<1>1. sweep' \in Seq(Reservation) /\ "finalized" \in Terminal /\ "released" \in Terminal /\ 0 <= resv[r].reserved
  <2>1. resv[r].reserved \in Nat
    BY DEF LedgerInv, Row
  <2> QED
    BY <2>1 DEF CallerStep, LedgerInv, Terminal
<1>2. ASSUME NEW n \in Nat, NEW inProject \in BOOLEAN, NEW ttl \in Nat, Reserve(r, n, inProject, ttl)
      PROVE  LedgerInv'
  <2>1. ttl \in Int
    OBVIOUS
  <2> QED
    BY <1>1, <1>2, <2>1, ReserveSound
<1>3. ASSUME NEW used \in Nat, NEW hold \in BOOLEAN, NEW unexpired \in BOOLEAN,
             Finalize(r, used, hold, unexpired)
      PROVE  LedgerInv'
  <2>1. used <= resv[r].reserved /\ Settle(r, "finalized", used)
    BY <1>3 DEF Finalize, FinalizeAccepts
  <2> QED
    BY <1>1, <2>1, SettleSound
<1>4. ASSUME NEW hold \in BOOLEAN, Release(r, hold) PROVE LedgerInv'
  <2>1. Settle(r, "released", 0)
    BY <1>4 DEF Release
  <2> QED
    BY <1>1, <2>1, SettleSound
<1>5. ASSUME NEW unexpired \in BOOLEAN, HoldForReview(r, unexpired) PROVE LedgerInv'
  BY <1>1, <1>5, HoldSound
<1> QED
  BY <1>2, <1>3, <1>4, <1>5 DEF CallerStep

(***************************************************************************)
(* LedgerStep. Every step of the ledger keeps the invariant.               *)
(***************************************************************************)
LEMMA LedgerStep ==
  LedgerInv /\ [LedgerNext]_ledgerVars => LedgerInv'
<1> SUFFICES ASSUME LedgerInv, [LedgerNext]_ledgerVars PROVE LedgerInv'
  OBVIOUS
<1>1. CASE \E r \in Reservation : CallerStep(r)
  BY <1>1, CallerSound
<1>2. CASE \E Owned \in SUBSET Reservation : ScanReservations(Owned)
  BY <1>2, ScanSound
<1>3. CASE \E active \in BOOLEAN : SweepOne(active)
  BY <1>3, SweepSound
<1>4. CASE \E p \in Pack : RevokePack(p)
  BY <1>4, RevokeSound
<1>5. CASE LedgerTick
  BY <1>5, TickSound, Zenon
<1>6. CASE LosePage
  <2>1. sweep' \in Seq(Reservation) /\ resv' = resv /\ pack' = pack /\ spent' = spent
    BY <1>6 DEF LosePage, ledger
  <2> QED
    BY <2>1 DEF LedgerInv, BooksBalance
<1>7. CASE UNCHANGED ledgerVars
  BY <1>7 DEF ledgerVars, LedgerInv, BooksBalance
<1> QED
  BY <1>1, <1>2, <1>3, <1>4, <1>5, <1>6, <1>7 DEF LedgerNext

(***************************************************************************)
(* LedgerInvariant. Whatever its callers do, in whatever order: every row  *)
(* of the ledger is sound and the books balance.                           *)
(***************************************************************************)
THEOREM LedgerInvariant == LedgerSpec => []LedgerInv
<1>1. LedgerInit => LedgerInv
  BY EmptyBooks
<1>2. LedgerInv /\ [LedgerNext]_ledgerVars => LedgerInv'
  BY LedgerStep
<1> QED
  BY <1>1, <1>2, PTL DEF LedgerSpec

(***************************************************************************)
(* BooksAlwaysBalance.  No Credits are charged twice, refunded twice or    *)
(* lost, for any packs, amounts and callers.                               *)
(***************************************************************************)
THEOREM BooksAlwaysBalance == LedgerSpec => []BooksBalance
<1>1. LedgerInv => BooksBalance
  BY Zenon DEF LedgerInv
<1> QED
  BY <1>1, LedgerInvariant, PTL

-----------------------------------------------------------------------------
(***************************************************************************)
(* What the order of spending rests on: of two packs that are both alive,  *)
(* the one created to expire sooner still does, and a reservation drew on  *)
(* its packs in the order they were created to expire.                     *)
(***************************************************************************)
LivesInOrder ==
  /\ \A p \in Pack : pack[p].life <= Forever
  /\ \A p, q \in Pack :
       PackLife[p] < PackLife[q] /\ pack[p].life > 0 /\ pack[q].life > 0
         => pack[p].life < pack[q].life

DrawnInOrder(alloc) ==
  \A p, q \in Drawn(alloc) : PackLife[p] < PackLife[q] => alloc.priority[p] < alloc.priority[q]

OrderInv == LivesInOrder /\ \A r \in Reservation : DrawnInOrder(resv[r].alloc)

KeepsOrder == OrderInv' /\ SpendsSoonest /\ ReturnsLatest

(***************************************************************************)
(* IdlePacks.  A step that moves no Credits and makes no reservation keeps *)
(* the order.                                                              *)
(***************************************************************************)
LEMMA IdlePacks ==
  ASSUME LedgerInv, OrderInv, LivesInOrder',
         \A p \in Pack : pack'[p].used = pack[p].used,
         \A r \in Reservation : resv'[r].alloc = resv[r].alloc
  PROVE  KeepsOrder
<1>1. \A p \in Pack : pack[p].used \in Nat
  BY PackFacts
<1>2. \A p \in Pack : ~(pack'[p].used > pack[p].used) /\ ~(pack'[p].used < pack[p].used)
  BY <1>1
<1>3. \A r \in Reservation : DrawnInOrder(resv'[r].alloc)
  BY Zenon DEF OrderInv
<1> QED
  BY <1>2, <1>3, Zenon DEF KeepsOrder, OrderInv, SpendsSoonest, ReturnsLatest

(***************************************************************************)
(* IdleLives.  Packs that are not written stay in order.                   *)
(***************************************************************************)
LEMMA IdleLives ==
  ASSUME OrderInv, pack' = pack
  PROVE  LivesInOrder' /\ \A p \in Pack : pack'[p].used = pack[p].used
BY Zenon DEF OrderInv, LivesInOrder

(***************************************************************************)
(* WrittenRow.  One row is written and the packs are not: a reservation    *)
(* that keeps its allocations keeps the order.                             *)
(***************************************************************************)
LEMMA WrittenRow ==
  ASSUME LedgerInv, OrderInv, pack' = pack, NEW r \in Reservation, NEW new,
         resv' = [resv EXCEPT ![r] = new], new.alloc = resv[r].alloc
  PROVE  KeepsOrder
<1>1. resv \in [Reservation -> Row]
  BY DEF LedgerInv
<1>2. \A s \in Reservation : resv'[s].alloc = resv[s].alloc
  BY <1>1
<1> QED
  BY <1>2, IdleLives, IdlePacks, Zenon

(***************************************************************************)
(* ReservesInOrder.  A new reservation charges a pack only when every live *)
(* pack that expires sooner is used up, and ranks its draws accordingly.   *)
(***************************************************************************)
LEMMA ReservesInOrder ==
  ASSUME LedgerInv, OrderInv, NEW r \in Reservation, NEW n \in Nat, NEW inProject, NEW ttl,
         Reserve(r, n, inProject, ttl)
  PROVE  KeepsOrder
<1> DEFINE alloc == Allocation(n)
<1>1. /\ pack \in [Pack -> PackRow] /\ resv \in [Reservation -> Row]
      /\ Affordable(n) /\ \A p \in Pack : pack[p].used <= pack[p].total
  BY PackFacts DEF LedgerInv, Reserve
<1>2. \A p \in Pack : Taken(p, n) \in 0..Free[p]
  BY <1>1, AllocationSound
<1>3. \A p \in Pack : pack[p] \in PackRow /\ pack[p].used \in Nat /\ pack[p].total \in Nat /\ pack[p].life \in Nat
  BY <1>1 DEF PackRow
<1>4. \A p \in Pack : Free[p] \in Nat /\ Free[p] = pack[p].total - pack[p].used
  BY <1>1, <1>3 DEF Free
<1>5. \A p \in Pack : /\ pack'[p].used = pack[p].used + Taken(p, n)
                      /\ pack'[p].total = pack[p].total /\ pack'[p].life = pack[p].life
  <2> SUFFICES ASSUME NEW p \in Pack
               PROVE  /\ pack'[p].used = pack[p].used + Taken(p, n)
                      /\ pack'[p].total = pack[p].total /\ pack'[p].life = pack[p].life
    OBVIOUS
  <2> DEFINE u == pack[p].used + Taken(p, n)
  <2>1. pack'[p] = [pack[p] EXCEPT !.used = u] /\ pack[p] \in PackRow
    BY <1>3 DEF Reserve
  <2> HIDE DEF u
  <2>2. pack'[p].used = u /\ pack'[p].total = pack[p].total /\ pack'[p].life = pack[p].life
    BY <2>1, Zenon DEF PackRow
  <2> QED
    BY <2>2 DEF u
<1>6. LivesInOrder'
  BY <1>5, Zenon DEF OrderInv, LivesInOrder
<1>7. Spendable \in SUBSET Pack /\ IsFiniteSet(Spendable) /\ \A p \in Spendable : Earlier(p) \in SUBSET Spendable
  BY PacksFinite, FS_Subset DEF Spendable, Earlier
<1>8. ASSUME NEW p \in Spendable, NEW q \in Spendable, PackLife[p] < PackLife[q]
      PROVE  p \in Earlier(q) /\ Earlier(p) \subseteq Earlier(q) /\ p \notin Earlier(p)
  <2>1. pack[p].life < pack[q].life
    BY <1>7, <1>8 DEF OrderInv, LivesInOrder, Spendable
  <2>2. p \in Earlier(q)
    BY <1>8, <2>1 DEF Earlier, SpentBefore
  <2>3. Orders(Spendable, [x \in Spendable |-> Earlier(x)])
    BY <1>1, SpendingOrder
  <2> QED
    BY <1>8, <2>2, <2>3, Zenon DEF Orders
<1>9. \A p \in Pack : Taken(p, n) > 0 => p \in Spendable
  BY DEF Taken
<1>10. SpendsSoonest
  <2> SUFFICES ASSUME NEW p \in Pack, NEW q \in Pack, PackLife[p] < PackLife[q],
                      pack'[q].used > pack[q].used, pack[p].life > 0
               PROVE  pack'[p].used = pack'[p].total
    BY DEF SpendsSoonest
  <2>1. Taken(q, n) \in Nat /\ Taken(q, n) > 0
    BY <1>2, <1>3, <1>4, <1>5
  <2>2. q \in Spendable /\ Share(Free, Earlier(q), n, q) > 0
    BY <1>9, <2>1 DEF Taken
  <2>3. CASE p \in Spendable
    <3>1. p \in Earlier(q) /\ Earlier(p) \subseteq Earlier(q) /\ p \notin Earlier(p)
      BY <1>8, <2>2, <2>3
    <3>2. \A z \in Spendable : Free[z] \in Nat
      BY <1>4, <1>7
    <3>3. Share(Free, Earlier(p), n, p) = Free[p]
      BY ONLY <1>7, <2>2, <2>3, <3>1, <3>2, n \in Nat, FilledInOrder
    <3>4. Taken(p, n) = Free[p]
      BY <2>3, <3>3 DEF Taken
    <3> QED
      BY <1>3, <1>4, <1>5, <3>4
  <2>4. CASE p \notin Spendable
    <3>1. Free[p] = 0
      BY <1>4, <2>4 DEF Spendable
    <3>2. Taken(p, n) = 0
      BY <2>4 DEF Taken
    <3> QED
      BY <1>3, <1>4, <1>5, <3>1, <3>2
  <2> QED
    BY <2>3, <2>4
<1>11. DrawnInOrder(alloc)
  <2> SUFFICES ASSUME NEW p \in Drawn(alloc), NEW q \in Drawn(alloc), PackLife[p] < PackLife[q]
               PROVE  alloc.priority[p] < alloc.priority[q]
    BY DEF DrawnInOrder
  <2>1. p \in Pack /\ q \in Pack /\ Taken(p, n) > 0 /\ Taken(q, n) > 0
    BY DEF Drawn, Allocation
  <2>2. p \in Spendable /\ q \in Spendable
    BY <1>9, <2>1
  <2>3. p \in Earlier(q) /\ Earlier(p) \in SUBSET Earlier(q) /\ p \notin Earlier(p) /\ Earlier(p) # Earlier(q)
    BY <1>8, <2>2
  <2>4. IsFiniteSet(Earlier(q)) /\ IsFiniteSet(Earlier(p))
    BY <1>7, <2>2, FS_Subset
  <2>5. Cardinality(Earlier(p)) \in Nat /\ Cardinality(Earlier(q)) \in Nat
    BY <2>4, FS_CardinalityType
  <2>6. Cardinality(Earlier(p)) <= Cardinality(Earlier(q)) /\ Cardinality(Earlier(q)) # Cardinality(Earlier(p))
    BY <2>3, <2>4, FS_Subset
  <2>7. alloc.priority[p] = Cardinality(Earlier(p)) /\ alloc.priority[q] = Cardinality(Earlier(q))
    BY <2>1 DEF Allocation
  <2> QED
    BY <2>5, <2>6, <2>7
<1> HIDE DEF alloc
<1>12. NewRow(n, inProject, ttl).alloc = alloc /\ NewRow(n, inProject, ttl).status = "reserved"
  BY Zenon DEF NewRow, NoRow, alloc
<1>13. resv' = [resv EXCEPT ![r] = NewRow(n, inProject, ttl)]
  BY DEF Reserve
<1>14. \A s \in Reservation : resv'[s] = resv[s] \/ (resv'[s].alloc = alloc /\ resv'[s].status = "reserved")
  BY <1>1, <1>12, <1>13
<1>15. \A s \in Reservation : DrawnInOrder(resv'[s].alloc)
  BY <1>11, <1>14, Zenon DEF OrderInv
<1>16. ReturnsLatest
  <2>1. \A s \in Reservation : ~(resv[s].status \notin Terminal /\ resv'[s].status \in Terminal)
    BY <1>14 DEF Terminal
  <2> QED
    BY <2>1, Zenon DEF ReturnsLatest
<1> QED
  BY <1>6, <1>10, <1>15, <1>16, Zenon DEF KeepsOrder, OrderInv

(***************************************************************************)
(* RefundsInOrder.  A refund attempt gives a pack something back only when *)
(* every pack of the reservation that expires later has all of its Credits *)
(* back.                                                                   *)
(***************************************************************************)
LEMMA RefundsInOrder ==
  ASSUME LedgerInv, OrderInv, NEW r \in Reservation, NEW row \in Row, RowSound(row),
         row.status = "refund_pending", row.alloc = resv[r].alloc, AttemptRefund(r, row)
  PROVE  KeepsOrder
<1> DEFINE alloc == row.alloc
           due == Due(row)
           Later(p) == {q \in Drawn(alloc) : alloc.priority[q] > alloc.priority[p]}
<1>1. /\ pack \in [Pack -> PackRow] /\ resv \in [Reservation -> Row]
      /\ alloc \in Alloc /\ due \in Nat /\ DrawnInOrder(alloc)
  BY DEF LedgerInv, Row, RowSound, Due, OrderInv
<1>2. CASE /\ pack' = [p \in Pack |-> [pack[p] EXCEPT !.used = @ - RefundTo(row.alloc, Due(row), p)]]
           /\ resv' = [resv EXCEPT ![r] = Ended(row, row.target, row.targetUsed)]
  <2>1. \A p \in Pack : RefundTo(alloc, due, p) \in 0..alloc.credits[p] /\ alloc.credits[p] \in Nat
    BY <1>1, RefundBounds DEF Alloc
  <2>2. \A p \in Pack : /\ pack[p].used \in Nat
                        /\ pack'[p].used = pack[p].used - RefundTo(alloc, due, p)
                        /\ pack'[p].life = pack[p].life
    <3> SUFFICES ASSUME NEW p \in Pack
                 PROVE  /\ pack[p].used \in Nat
                        /\ pack'[p].used = pack[p].used - RefundTo(alloc, due, p)
                        /\ pack'[p].life = pack[p].life
      OBVIOUS
    <3> DEFINE u == pack[p].used - RefundTo(alloc, due, p)
    <3>1. pack'[p] = [pack[p] EXCEPT !.used = u]
      BY <1>2
    <3>2. pack[p] \in PackRow /\ pack[p].used \in Nat
      BY PackFacts
    <3> HIDE DEF u
    <3>3. pack'[p].used = u /\ pack'[p].life = pack[p].life
      BY <3>1, <3>2, Zenon DEF PackRow
    <3> QED
      BY <3>2, <3>3 DEF u
  <2>3. LivesInOrder'
    BY <2>2, Zenon DEF OrderInv, LivesInOrder
  <2>4. Ended(row, row.target, row.targetUsed).alloc = alloc
    BY Zenon DEF Ended, Row
  <2>5. \A s \in Reservation : resv'[s].alloc = resv[s].alloc /\ (s # r => resv'[s] = resv[s])
    BY <1>1, <1>2, <2>4
  <2>6. \A s \in Reservation : DrawnInOrder(resv'[s].alloc)
    BY <2>5, Zenon DEF OrderInv
  <2>7. SpendsSoonest
    <3>1. \A q \in Pack : ~(pack'[q].used > pack[q].used)
      BY <2>1, <2>2
    <3> QED
      BY <3>1, Zenon DEF SpendsSoonest
  <2>8. ASSUME NEW p \in Pack, NEW q \in Pack, PackLife[p] < PackLife[q], RefundTo(alloc, due, p) > 0
        PROVE  RefundTo(alloc, due, q) = alloc.credits[q]
    <3>1. CASE q \notin Drawn(alloc)
      BY <2>1, <3>1 DEF Drawn
    <3>2. CASE q \in Drawn(alloc)
      <4>1. p \in Drawn(alloc)
        BY <2>1, <2>8 DEF Drawn
      <4>2. alloc.priority[p] < alloc.priority[q] /\ alloc.priority \in [Pack -> Nat]
        BY <1>1, <2>8, <3>2, <4>1 DEF DrawnInOrder, Alloc
      <4>3. /\ Later(p) \in SUBSET Pack /\ Later(q) \in SUBSET Pack
            /\ q \in Later(p) /\ Later(q) \subseteq Later(p) /\ q \notin Later(q)
        BY <3>2, <4>2 DEF Drawn
      <4>4. Share(alloc.credits, Later(p), due, p) > 0
        BY <2>8 DEF RefundTo
      <4>5. \A z \in Pack : alloc.credits[z] \in Nat
        BY <2>1
      <4> HIDE DEF Later
      <4>6. Share(alloc.credits, Later(q), due, q) = alloc.credits[q]
        BY ONLY <1>1, <4>3, <4>4, <4>5, p \in Pack, q \in Pack, PacksFinite, FilledInOrder
      <4> QED
        BY <4>6 DEF RefundTo, Later
    <3> QED
      BY <3>1, <3>2
  <2>9. ReturnsLatest
    <3> SUFFICES ASSUME NEW s \in Reservation, resv[s].status \notin Terminal, resv'[s].status \in Terminal,
                        NEW p \in Pack, NEW q \in Pack, PackLife[p] < PackLife[q],
                        pack'[p].used < pack[p].used
                 PROVE  pack'[q].used = pack[q].used - resv[s].alloc.credits[q]
      BY DEF ReturnsLatest
    <3>1. resv[s].alloc = alloc
      BY <2>5
    <3>2. RefundTo(alloc, due, p) > 0
      BY <2>1, <2>2
    <3> QED
      BY <2>2, <2>8, <3>1, <3>2
  <2> QED
    BY <2>3, <2>6, <2>7, <2>9, Zenon DEF KeepsOrder, OrderInv
<1>3. CASE /\ resv' = [resv EXCEPT ![r] = [row EXCEPT !.tries = @ + 1, !.wait = Backoff(row.tries + 1)]]
           /\ UNCHANGED <<pack, spent>>
  <2>1. [row EXCEPT !.tries = @ + 1, !.wait = Backoff(row.tries + 1)].alloc = row.alloc
    BY Zenon DEF Row
  <2> QED
    BY <1>3, <2>1, WrittenRow, Zenon
<1> QED
  BY <1>2, <1>3 DEF AttemptRefund

(***************************************************************************)
(* SettlesInOrder.  Finalize and Release.                                  *)
(***************************************************************************)
LEMMA SettlesInOrder ==
  ASSUME LedgerInv, OrderInv, NEW r \in Reservation, NEW target \in Terminal, NEW used \in Nat,
         used <= resv[r].reserved, Settle(r, target, used)
  PROVE  KeepsOrder
<1> DEFINE row == resv[r]
<1>1. row \in Row /\ RowSound(row)
  BY DEF LedgerInv
<1>2. CASE UNCHANGED ledger
  BY <1>2, IdleLives, IdlePacks, Zenon DEF ledger
<1>3. CASE row.status = "refund_pending" /\ AttemptRefund(r, row)
  BY <1>1, <1>3, RefundsInOrder
<1>4. CASE resv' = [resv EXCEPT ![r] = Ended(row, target, used)] /\ UNCHANGED <<pack, spent>>
  <2>1. Ended(row, target, used).alloc = row.alloc
    BY <1>1, Zenon DEF Ended, Row
  <2> QED
    BY <1>4, <2>1, WrittenRow, Zenon
<1>5. CASE AttemptRefund(r, Queued(row, target, used))
  <2> DEFINE new == Queued(row, target, used)
  <2>1. new \in Row /\ RowSound(new) /\ new.status = "refund_pending" /\ new.alloc = row.alloc
    BY <1>1, QueuedSound
  <2>2. AttemptRefund(r, new)
    BY <1>5
  <2> HIDE DEF new
  <2> QED
    BY <2>1, <2>2, RefundsInOrder
<1> QED
  BY <1>2, <1>3, <1>4, <1>5 DEF Settle

(***************************************************************************)
(* SweepsInOrder.  One reservation taken up by the sweeper.                *)
(***************************************************************************)
LEMMA SweepsInOrder ==
  ASSUME LedgerInv, OrderInv, NEW active \in BOOLEAN, SweepOne(active)
  PROVE  KeepsOrder
<1> DEFINE r == Head(sweep)
           row == resv[r]
<1>1. r \in Reservation
  BY DEF LedgerInv, SweepOne
<1>2. row \in Row /\ RowSound(row) /\ row.reserved \in Nat /\ "expired" \in Terminal
  BY <1>1 DEF LedgerInv, Row, Terminal
<1>3. CASE RefundDue(row) /\ AttemptRefund(r, row)
  BY <1>1, <1>2, <1>3, RefundsInOrder DEF RefundDue
<1>4. CASE resv' = [resv EXCEPT ![r].ttl = TaskExtension] /\ UNCHANGED <<pack, spent>>
  <2>1. [row EXCEPT !.ttl = TaskExtension].alloc = row.alloc
    BY <1>2, Zenon DEF Row
  <2>2. resv' = [resv EXCEPT ![r] = [row EXCEPT !.ttl = TaskExtension]]
    BY <1>4
  <2> QED
    BY <1>1, <1>4, <2>1, <2>2, WrittenRow, Zenon
<1>5. CASE resv' = [resv EXCEPT ![r] = Ended(row, "expired", 0)] /\ UNCHANGED <<pack, spent>>
  <2>1. Ended(row, "expired", 0).alloc = row.alloc
    BY <1>2, Zenon DEF Ended, Row
  <2> QED
    BY <1>1, <1>5, <2>1, WrittenRow, Zenon
<1>6. CASE AttemptRefund(r, Queued(row, "expired", 0))
  <2> DEFINE new == Queued(row, "expired", 0)
  <2>1. 0 \in Nat /\ 0 <= row.reserved
    BY <1>2
  <2>2. new \in Row /\ RowSound(new) /\ new.status = "refund_pending" /\ new.alloc = row.alloc
    BY <1>2, <2>1, QueuedSound
  <2>3. AttemptRefund(r, new)
    BY <1>6
  <2> HIDE DEF new
  <2> QED
    BY <1>1, <2>2, <2>3, RefundsInOrder
<1>7. CASE UNCHANGED ledger
  BY <1>7, IdleLives, IdlePacks, Zenon DEF ledger
<1>8. \/ RefundDue(row) /\ AttemptRefund(r, row)
      \/ resv' = [resv EXCEPT ![r].ttl = TaskExtension] /\ UNCHANGED <<pack, spent>>
      \/ resv' = [resv EXCEPT ![r] = Ended(row, "expired", 0)] /\ UNCHANGED <<pack, spent>>
      \/ AttemptRefund(r, Queued(row, "expired", 0))
      \/ UNCHANGED ledger
  BY <1>2 DEF SweepOne
<1> QED
  BY <1>3, <1>4, <1>5, <1>6, <1>7, <1>8

(***************************************************************************)
(* AgesInOrder.  Time passes for all packs that have an expiry alike, and  *)
(* a revoked pack drops out.                                               *)
(***************************************************************************)
LEMMA AgesInOrder ==
  ASSUME LedgerInv, OrderInv, LedgerTick \/ \E p \in Pack : RevokePack(p)
  PROVE  KeepsOrder
<1>1. /\ resv \in [Reservation -> Row] /\ pack \in [Pack -> PackRow] /\ Forever \in Nat
      /\ \A p \in Pack : pack[p] \in PackRow /\ pack[p].life \in Nat /\ pack[p].life <= Forever
  BY LedgerAssumption DEF LedgerInv, PackRow, OrderInv, LivesInOrder
<1>2. CASE LedgerTick
  <2>1. \A p \in Pack :
          /\ pack'[p].used = pack[p].used
          /\ pack'[p].life = IF pack[p].life \in {0, Forever} THEN pack[p].life ELSE pack[p].life - 1
    <3> SUFFICES ASSUME NEW p \in Pack
                 PROVE  /\ pack'[p].used = pack[p].used
                        /\ pack'[p].life = IF pack[p].life \in {0, Forever} THEN pack[p].life ELSE pack[p].life - 1
      OBVIOUS
    <3> DEFINE l == IF pack[p].life \in {0, Forever} THEN pack[p].life ELSE pack[p].life - 1
    <3>1. pack'[p] = [pack[p] EXCEPT !.life = l]
      BY <1>2, Zenon DEF LedgerTick
    <3> HIDE DEF l
    <3>2. pack'[p].used = pack[p].used /\ pack'[p].life = l
      BY <1>1, <3>1, Zenon DEF PackRow
    <3> QED
      BY <3>2 DEF l
  <2>2. LivesInOrder'
    <3>1. \A p \in Pack : pack'[p].life <= Forever
      BY <1>1, <2>1
    <3>2. ASSUME NEW p \in Pack, NEW q \in Pack, PackLife[p] < PackLife[q],
                 pack'[p].life > 0, pack'[q].life > 0
          PROVE  pack'[p].life < pack'[q].life
      <4>1. pack[p].life > 0 /\ pack[q].life > 0
        BY <1>1, <2>1, <3>2
      <4>2. pack[p].life < pack[q].life
        BY <3>2, <4>1 DEF OrderInv, LivesInOrder
      <4> QED
        BY <1>1, <2>1, <4>1, <4>2
    <3> QED
      BY <3>1, <3>2, Zenon DEF LivesInOrder
  <2>3. \A r \in Reservation : resv'[r].alloc = resv[r].alloc
    <3> SUFFICES ASSUME NEW r \in Reservation PROVE resv'[r].alloc = resv[r].alloc
      OBVIOUS
    <3>1. PICK t, w : resv'[r] = [resv[r] EXCEPT !.ttl = t, !.wait = w]
      BY <1>2, Zenon DEF LedgerTick
    <3> QED
      BY <1>1, <3>1 DEF Row
  <2> QED
    BY <2>1, <2>2, <2>3, IdlePacks, Zenon
<1>3. ASSUME NEW p \in Pack, RevokePack(p) PROVE KeepsOrder
  <2> DEFINE old == pack[p]
             new == pack'[p]
             u == old.used
  <2>1. old \in PackRow /\ new = [old EXCEPT !.total = u, !.life = 0] /\ \A q \in Pack \ {p} : pack'[q] = pack[q]
    BY <1>1, <1>3 DEF RevokePack
  <2> HIDE DEF old, new
  <2>2. new.used = old.used /\ new.life = 0
    BY <2>1 DEF PackRow
  <2>3. ASSUME NEW q \in Pack
        PROVE  pack'[q].used = pack[q].used /\ (pack'[q].life = 0 \/ pack'[q].life = pack[q].life)
    <3>1. CASE q = p
      BY <2>2, <3>1, Zenon DEF old, new
    <3>2. CASE q # p
      BY <2>1, <3>2
    <3> QED
      BY <3>1, <3>2
  <2>4. LivesInOrder'
    <3>1. \A q \in Pack : pack'[q].life <= Forever
      BY <1>1, <2>3
    <3>2. \A q \in Pack : pack'[q].life > 0 => pack'[q].life = pack[q].life
      BY <2>3
    <3> QED
      BY <3>1, <3>2, Zenon DEF OrderInv, LivesInOrder
  <2>5. \A r \in Reservation : resv'[r].alloc = resv[r].alloc
    BY <1>3 DEF RevokePack
  <2> QED
    BY <2>3, <2>4, <2>5, IdlePacks, Zenon
<1> QED
  BY <1>2, <1>3

(***************************************************************************)
(* OrderStep.  Every step of the ledger keeps the order.                   *)
(***************************************************************************)
LEMMA OrderStep ==
  LedgerInv /\ OrderInv /\ [LedgerNext]_ledgerVars => KeepsOrder
<1> SUFFICES ASSUME LedgerInv, OrderInv, [LedgerNext]_ledgerVars PROVE KeepsOrder
  OBVIOUS
<1>1. ASSUME NEW r \in Reservation, CallerStep(r) PROVE KeepsOrder
  <2>1. resv[r] \in Row /\ "finalized" \in Terminal /\ "released" \in Terminal /\ 0 <= resv[r].reserved
    BY DEF LedgerInv, Row, Terminal
  <2>2. ASSUME NEW n \in Nat, NEW inProject, NEW ttl, Reserve(r, n, inProject, ttl) PROVE KeepsOrder
    BY <2>2, ReservesInOrder
  <2>3. ASSUME NEW used \in Nat, NEW hold, NEW unexpired, Finalize(r, used, hold, unexpired) PROVE KeepsOrder
    BY <2>1, <2>3, SettlesInOrder, Zenon DEF Finalize, FinalizeAccepts
  <2>4. ASSUME NEW hold, Release(r, hold) PROVE KeepsOrder
    BY <2>1, <2>4, SettlesInOrder DEF Release
  <2>5. ASSUME NEW unexpired, HoldForReview(r, unexpired) PROVE KeepsOrder
    <3>1. /\ resv' = [resv EXCEPT ![r] = [resv[r] EXCEPT !.status = "review_hold", !.held = TRUE]]
          /\ pack' = pack
      BY <2>5, Zenon DEF HoldForReview, LedgerInv
    <3>2. [resv[r] EXCEPT !.status = "review_hold", !.held = TRUE].alloc = resv[r].alloc
      BY <2>1, Zenon DEF Row
    <3> QED
      BY <3>1, <3>2, WrittenRow, Zenon
  <2> QED
    BY <1>1, <2>2, <2>3, <2>4, <2>5, Zenon DEF CallerStep
<1>2. CASE \E active \in BOOLEAN : SweepOne(active)
  BY <1>2, SweepsInOrder
<1>3. CASE LedgerTick \/ \E p \in Pack : RevokePack(p)
  BY <1>3, AgesInOrder
<1>4. CASE \/ \E Owned \in SUBSET Reservation : ScanReservations(Owned)
           \/ LosePage
           \/ UNCHANGED ledgerVars
  <2>1. resv' = resv /\ pack' = pack
    BY <1>4, Zenon DEF ScanReservations, LosePage, ledger, ledgerVars
  <2> QED
    BY <2>1, IdleLives, IdlePacks, Zenon
<1> QED
  BY <1>1, <1>2, <1>3, <1>4 DEF LedgerNext

(***************************************************************************)
(* SoonestAlwaysFirst.  For any packs, expiry dates, amounts and callers,  *)
(* and however time passes and orders are revoked: Credits that expire     *)
(* sooner are spent first, and those that expire later come back first.    *)
(***************************************************************************)
THEOREM SoonestAlwaysFirst == LedgerSpec => SoonestFirst
<1>1. LedgerInit => OrderInv
  <2> SUFFICES ASSUME LedgerInit PROVE OrderInv
    OBVIOUS
  <2>1. \A p \in Pack : pack[p].life = PackLife[p] /\ PackLife[p] \in 1..Forever
    BY LedgerAssumption DEF LedgerInit, Pack
  <2>2. LivesInOrder
    BY <2>1, LedgerAssumption DEF LivesInOrder
  <2>3. NoRow.alloc = NoAllocation /\ Drawn(NoAllocation) = {}
    BY DEF NoRow, NoAllocation, Drawn
  <2>4. \A r \in Reservation : Drawn(resv[r].alloc) = {}
    BY <2>3 DEF LedgerInit
  <2> QED
    BY <2>2, <2>4, Zenon DEF OrderInv, DrawnInOrder
<1>2. LedgerInv /\ OrderInv /\ [LedgerNext]_ledgerVars => OrderInv' /\ [SpendsSoonest /\ ReturnsLatest]_ledgerVars
  BY OrderStep, Zenon DEF KeepsOrder
<1> QED
  BY <1>1, <1>2, LedgerInvariant, PTL DEF LedgerSpec, SoonestFirst

(***************************************************************************)
(* OthersKeep.  The other rows keep their decisions when one is written.   *)
(***************************************************************************)
LEMMA OthersKeep ==
  ASSUME resv \in [Reservation -> Row], NEW r \in Reservation, NEW new,
         resv' = [resv EXCEPT ![r] = new], KeepsDecision(r)
  PROVE  \A s \in Reservation : KeepsDecision(s)
<1> SUFFICES ASSUME NEW s \in Reservation, s # r PROVE KeepsDecision(s)
  OBVIOUS
<1>1. resv'[s] = resv[s]
  OBVIOUS
<1> QED
  BY <1>1 DEF KeepsDecision

(***************************************************************************)
(* UndecidedKeeps.  A row that is neither ended nor queued has decided     *)
(* nothing.                                                                *)
(***************************************************************************)
LEMMA UndecidedKeeps ==
  ASSUME NEW r, resv[r].status \in {"absent", "reserved", "review_hold"}
  PROVE  KeepsDecision(r)
BY DEF KeepsDecision, Terminal

(***************************************************************************)
(* AttemptKeeps.  A refund attempt carries out the decision of the row it  *)
(* is made for, or leaves it queued.                                       *)
(***************************************************************************)
LEMMA AttemptKeeps ==
  ASSUME resv \in [Reservation -> Row], NEW r \in Reservation, NEW row \in Row, AttemptRefund(r, row),
         \/ row = resv[r] /\ row.status = "refund_pending"
         \/ resv[r].status \in {"absent", "reserved", "review_hold"}
  PROVE  \A s \in Reservation : KeepsDecision(s)
<1>1. PICK new : /\ resv' = [resv EXCEPT ![r] = new]
                 /\ \/ new = Ended(row, row.target, row.targetUsed)
                    \/ new = [row EXCEPT !.tries = @ + 1, !.wait = Backoff(row.tries + 1)]
  BY DEF AttemptRefund
<1>2. resv'[r] = new
  BY <1>1
<1>3. CASE row = resv[r] /\ row.status = "refund_pending"
  <2>1. CASE new = Ended(row, row.target, row.targetUsed)
    <3>1. new.status = row.target /\ new.used = row.targetUsed
      BY <2>1 DEF Ended, Row
    <3>2. KeepsDecision(r)
      BY <1>2, <1>3, <3>1, Zenon DEF KeepsDecision, Terminal
    <3> QED
      BY <1>1, <3>2, OthersKeep, Zenon
  <2>2. CASE new = [row EXCEPT !.tries = @ + 1, !.wait = Backoff(row.tries + 1)]
    <3>1. new.status = row.status /\ new.target = row.target /\ new.targetUsed = row.targetUsed
      BY <2>2, Zenon DEF Row
    <3>2. KeepsDecision(r)
      BY <1>2, <1>3, <3>1, Zenon DEF KeepsDecision, Terminal
    <3> QED
      BY <1>1, <3>2, OthersKeep, Zenon
  <2> QED
    BY <1>1, <2>1, <2>2
<1>4. CASE resv[r].status \in {"absent", "reserved", "review_hold"}
  <2>1. KeepsDecision(r)
    BY <1>4, UndecidedKeeps
  <2> QED
    BY <1>1, <2>1, OthersKeep, Zenon
<1> QED
  BY <1>3, <1>4

(***************************************************************************)
(* SettleKeeps.  Finalize and Release replay, retry, or decide for the     *)
(* first time.                                                             *)
(***************************************************************************)
LEMMA SettleKeeps ==
  ASSUME LedgerInv, NEW r \in Reservation, NEW target \in Terminal, NEW used \in Nat,
         used <= resv[r].reserved, Settle(r, target, used)
  PROVE  \A s \in Reservation : KeepsDecision(s)
<1> DEFINE row == resv[r]
<1>1. resv \in [Reservation -> Row] /\ row \in Row /\ RowSound(row)
  BY DEF LedgerInv
<1>2. CASE UNCHANGED ledger
  BY <1>2 DEF ledger, KeepsDecision
<1>3. CASE row.status = "refund_pending" /\ AttemptRefund(r, row)
  BY <1>1, <1>3, AttemptKeeps
<1>4. CASE /\ row.status \in {"reserved", "review_hold"}
           /\ resv' = [resv EXCEPT ![r] = Ended(row, target, used)]
  <2>1. KeepsDecision(r)
    BY <1>4, UndecidedKeeps
  <2> QED
    BY <1>1, <1>4, <2>1, OthersKeep, Zenon
<1>5. CASE row.status \in {"reserved", "review_hold"} /\ AttemptRefund(r, Queued(row, target, used))
  <2>1. Queued(row, target, used) \in Row
    BY <1>1, QueuedSound
  <2> QED
    BY <1>1, <1>5, <2>1, AttemptKeeps
<1> QED
  BY <1>2, <1>3, <1>4, <1>5 DEF Settle

(***************************************************************************)
(* SweepKeeps.  The sweeper looks at the row again before it decides.      *)
(***************************************************************************)
LEMMA SweepKeeps ==
  ASSUME LedgerInv, NEW active \in BOOLEAN, SweepOne(active)
  PROVE  \A s \in Reservation : KeepsDecision(s)
<1> DEFINE r == Head(sweep)
           row == resv[r]
<1>1. r \in Reservation /\ resv \in [Reservation -> Row]
  BY DEF LedgerInv, SweepOne
<1>2. row \in Row /\ RowSound(row) /\ row.reserved \in Nat
  BY <1>1 DEF LedgerInv, Row
<1>3. \/ RefundDue(row) /\ AttemptRefund(r, row)
      \/ Abandoned(row) /\ \E new : resv' = [resv EXCEPT ![r] = new]
      \/ Abandoned(row) /\ AttemptRefund(r, Queued(row, "expired", 0))
      \/ UNCHANGED ledger
  BY <1>2, Zenon DEF SweepOne
<1>4. CASE RefundDue(row) /\ AttemptRefund(r, row)
  BY <1>1, <1>2, <1>4, AttemptKeeps DEF RefundDue
<1>5. CASE Abandoned(row) /\ \E new : resv' = [resv EXCEPT ![r] = new]
  <2>1. PICK new : resv' = [resv EXCEPT ![r] = new]
    BY <1>5, Zenon
  <2>2. KeepsDecision(r)
    BY <1>5, UndecidedKeeps DEF Abandoned
  <2> QED
    BY <1>1, <2>1, <2>2, OthersKeep, Zenon
<1>6. CASE Abandoned(row) /\ AttemptRefund(r, Queued(row, "expired", 0))
  <2>1. "expired" \in Terminal /\ 0 <= row.reserved /\ row.status = "reserved"
    BY <1>2, <1>6 DEF Terminal, Abandoned
  <2>2. Queued(row, "expired", 0) \in Row
    BY <1>2, <2>1, QueuedSound, Zenon
  <2> QED
    BY <1>1, <1>6, <2>1, <2>2, AttemptKeeps, Zenon
<1>7. CASE UNCHANGED ledger
  BY <1>7 DEF ledger, KeepsDecision
<1> QED
  BY <1>3, <1>4, <1>5, <1>6, <1>7

(***************************************************************************)
(* DecisionStep.  No step of the ledger revises a decision.                *)
(***************************************************************************)
LEMMA DecisionStep ==
  LedgerInv /\ [LedgerNext]_ledgerVars => [\A r \in Reservation : KeepsDecision(r)]_ledgerVars
<1> SUFFICES ASSUME LedgerInv, LedgerNext PROVE \A r \in Reservation : KeepsDecision(r)
  OBVIOUS
<1>0. resv \in [Reservation -> Row]
  BY DEF LedgerInv
<1>1. ASSUME NEW r \in Reservation, CallerStep(r) PROVE \A s \in Reservation : KeepsDecision(s)
  <2>1. "finalized" \in Terminal /\ "released" \in Terminal /\ 0 <= resv[r].reserved
    <3>1. resv[r].reserved \in Nat
      BY DEF LedgerInv, Row
    <3> QED
      BY <3>1 DEF Terminal
  <2>2. ASSUME NEW n, NEW inProject, NEW ttl, Reserve(r, n, inProject, ttl)
        PROVE  \A s \in Reservation : KeepsDecision(s)
    <3>1. KeepsDecision(r) /\ resv' = [resv EXCEPT ![r] = NewRow(n, inProject, ttl)]
      BY <2>2, UndecidedKeeps DEF Reserve
    <3> QED
      BY <1>0, <3>1, OthersKeep, Zenon
  <2>3. ASSUME NEW used \in Nat, NEW hold, NEW unexpired, Finalize(r, used, hold, unexpired)
        PROVE  \A s \in Reservation : KeepsDecision(s)
    BY <2>1, <2>3, SettleKeeps, Zenon DEF Finalize, FinalizeAccepts
  <2>4. ASSUME NEW hold, Release(r, hold) PROVE \A s \in Reservation : KeepsDecision(s)
    BY <2>1, <2>4, SettleKeeps DEF Release
  <2>5. ASSUME NEW unexpired, HoldForReview(r, unexpired) PROVE \A s \in Reservation : KeepsDecision(s)
    <3>1. KeepsDecision(r)
      BY <2>5, UndecidedKeeps DEF HoldForReview
    <3>2. resv' = [resv EXCEPT ![r] = [resv[r] EXCEPT !.status = "review_hold", !.held = TRUE]]
      BY <1>0, <2>5, Zenon DEF HoldForReview
    <3> QED
      BY <1>0, <3>1, <3>2, OthersKeep, Zenon
  <2> QED
    BY <1>1, <2>2, <2>3, <2>4, <2>5 DEF CallerStep
<1>2. CASE \E active \in BOOLEAN : SweepOne(active)
  BY <1>2, SweepKeeps
<1>3. CASE \/ \E Owned \in SUBSET Reservation : ScanReservations(Owned)
           \/ \E p \in Pack : RevokePack(p)
           \/ LosePage
  <2>1. resv' = resv
    BY <1>3, Zenon DEF ScanReservations, RevokePack, LosePage, ledger
  <2> QED
    BY <2>1 DEF KeepsDecision
<1>4. CASE LedgerTick
  <2> SUFFICES ASSUME NEW r \in Reservation PROVE KeepsDecision(r)
    OBVIOUS
  <2>1. resv[r] \in Row
    BY <1>0
  <2>2. PICK t, w : resv'[r] = [resv[r] EXCEPT !.ttl = t, !.wait = w]
    BY <1>4, Zenon DEF LedgerTick
  <2>3. /\ resv'[r].status = resv[r].status /\ resv'[r].used = resv[r].used
        /\ resv'[r].target = resv[r].target /\ resv'[r].targetUsed = resv[r].targetUsed
    BY <2>1, <2>2 DEF Row
  <2> QED
    BY <2>3 DEF KeepsDecision
<1> QED
  BY <1>1, <1>2, <1>3, <1>4 DEF LedgerNext

(***************************************************************************)
(* DecisionsAlwaysStand.  A settlement decision is never reversed or       *)
(* revised, however many refund attempts fail and whoever retries.         *)
(***************************************************************************)
THEOREM DecisionsAlwaysStand == LedgerSpec => DecisionsStand
BY LedgerInvariant, DecisionStep, PTL DEF LedgerSpec, DecisionsStand

-----------------------------------------------------------------------------
(***************************************************************************)
(* DecisionsKept.  DecisionStep, stuttering steps included.                *)
(***************************************************************************)
LEMMA DecisionsKept ==
  ASSUME LedgerInv, [LedgerNext]_ledgerVars
  PROVE  \A r \in Reservation : KeepsDecision(r)
<1>1. CASE UNCHANGED ledgerVars
  BY <1>1 DEF ledgerVars, KeepsDecision
<1>2. CASE ~UNCHANGED ledgerVars
  BY <1>2, DecisionStep
<1> QED
  BY <1>1, <1>2, Zenon

(***************************************************************************)
(* The row has ended as target, charging used, or is queued to end so.     *)
(***************************************************************************)
Decided(row, target, used) ==
  \/ row.status = target /\ row.used = used
  \/ IntentMatches(row, target, used)

(***************************************************************************)
(* AttemptDecides.  A refund attempt ends the row as its intent says, or   *)
(* leaves the intent queued, and changes no other row.                     *)
(***************************************************************************)
LEMMA AttemptDecides ==
  ASSUME LedgerInv, NEW r \in Reservation, NEW row \in Row, AttemptRefund(r, row)
  PROVE  /\ row.status = "refund_pending" => Decided(resv'[r], row.target, row.targetUsed)
         /\ \A s \in Reservation \ {r} : resv'[s] = resv[s]
<1>1. PICK new : /\ resv' = [resv EXCEPT ![r] = new]
                 /\ \/ new = Ended(row, row.target, row.targetUsed)
                    \/ new = [row EXCEPT !.tries = @ + 1, !.wait = Backoff(row.tries + 1)]
  BY Zenon DEF AttemptRefund
<1>2. resv'[r] = new /\ \A s \in Reservation \ {r} : resv'[s] = resv[s]
  BY <1>1 DEF LedgerInv
<1>3. CASE new = Ended(row, row.target, row.targetUsed)
  <2>1. new.status = row.target /\ new.used = row.targetUsed
    BY <1>3, Zenon DEF Ended, Row
  <2> QED
    BY <1>2, <2>1 DEF Decided
<1>4. CASE new = [row EXCEPT !.tries = @ + 1, !.wait = Backoff(row.tries + 1)]
  <2>1. new.status = row.status /\ new.target = row.target /\ new.targetUsed = row.targetUsed
    BY <1>4, Zenon DEF Row
  <2> QED
    BY <1>2, <2>1 DEF Decided, IntentMatches
<1> QED
  BY <1>1, <1>3, <1>4

(***************************************************************************)
(* SettleDecides.  What a settlement leaves behind: a live row is decided  *)
(* as the caller asked, a queued one as it was queued, an ended row and    *)
(* every other row are as they were.                                       *)
(***************************************************************************)
LEMMA SettleDecides ==
  ASSUME LedgerInv, NEW r \in Reservation, NEW target \in Terminal, NEW used \in Nat,
         used <= resv[r].reserved, Settle(r, target, used)
  PROVE  /\ \A s \in Reservation \ {r} : resv'[s] = resv[s]
         /\ resv[r].status \in {"reserved", "review_hold"} => Decided(resv'[r], target, used)
         /\ resv[r].status = "refund_pending" => Decided(resv'[r], resv[r].target, resv[r].targetUsed)
         /\ resv[r].status \notin Live => resv' = resv
<1> DEFINE row == resv[r]
           queued == Queued(row, target, used)
<1>1. resv \in [Reservation -> Row] /\ row \in Row /\ RowSound(row)
  BY DEF LedgerInv
<1>2. CASE UNCHANGED ledger /\ (row.status = target \/ row.status = "refund_pending")
  BY <1>2 DEF ledger, Decided, IntentMatches, Terminal
<1>3. CASE row.status = "refund_pending" /\ AttemptRefund(r, row)
  BY <1>1, <1>3, AttemptDecides, Zenon DEF Live
<1>4. CASE /\ row.status \in {"reserved", "review_hold"}
           /\ resv' = [resv EXCEPT ![r] = Ended(row, target, used)]
  <2>1. Ended(row, target, used).status = target /\ Ended(row, target, used).used = used
    BY <1>1 DEF Ended, Row
  <2>2. resv'[r] = Ended(row, target, used) /\ \A s \in Reservation \ {r} : resv'[s] = resv[s]
    BY <1>1, <1>4, Zenon
  <2> QED
    BY <1>4, <2>1, <2>2 DEF Decided, Live
<1>5. CASE row.status \in {"reserved", "review_hold"} /\ AttemptRefund(r, queued)
  <2>1. queued \in Row
    BY <1>1, QueuedSound
  <2>2. queued.status = "refund_pending" /\ queued.target = target /\ queued.targetUsed = used
    BY <1>1, Zenon DEF Queued, Row
  <2> HIDE DEF queued
  <2>3. Decided(resv'[r], target, used) /\ \A s \in Reservation \ {r} : resv'[s] = resv[s]
    BY <1>5, <2>1, <2>2, AttemptDecides
  <2> QED
    BY <1>5, <2>3 DEF Live
<1> QED
  BY <1>2, <1>3, <1>4, <1>5, Zenon DEF Settle

(***************************************************************************)
(* TimePasses.  A tick changes nothing of a row but its two clocks.        *)
(***************************************************************************)
LEMMA TimePasses ==
  ASSUME LedgerInv, LedgerTick, NEW r \in Reservation
  PROVE  \E ttl, wait : resv'[r] = [resv[r] EXCEPT !.ttl = ttl, !.wait = wait]
BY Zenon DEF LedgerTick

(***************************************************************************)
(* SweepOthers.  The sweeper changes no row but the one it has come to.    *)
(***************************************************************************)
LEMMA SweepOthers ==
  ASSUME LedgerInv, NEW active \in BOOLEAN, SweepOne(active), NEW s \in Reservation \ {Head(sweep)}
  PROVE  resv'[s] = resv[s]
<1> DEFINE r == Head(sweep)
           row == resv[r]
<1>1. r \in Reservation /\ resv \in [Reservation -> Row]
  BY DEF LedgerInv, SweepOne
<1>2. row \in Row /\ RowSound(row) /\ row.reserved \in Nat
  BY <1>1, Zenon DEF LedgerInv, Row
<1>3. \/ AttemptRefund(r, row)
      \/ AttemptRefund(r, Queued(row, "expired", 0))
      \/ \E new : resv' = [resv EXCEPT ![r] = new]
      \/ UNCHANGED ledger
  BY <1>2, Zenon DEF SweepOne
<1>4. CASE AttemptRefund(r, row)
  BY <1>1, <1>2, <1>4, AttemptDecides, Zenon
<1>5. CASE AttemptRefund(r, Queued(row, "expired", 0))
  <2>1. "expired" \in Terminal /\ 0 <= row.reserved
    BY <1>2 DEF Terminal
  <2>2. Queued(row, "expired", 0) \in Row
    BY <1>2, <2>1, QueuedSound
  <2> QED
    BY <1>1, <1>5, <2>2, AttemptDecides, Zenon
<1>6. CASE \E new : resv' = [resv EXCEPT ![r] = new]
  <2>1. PICK new : resv' = [resv EXCEPT ![r] = new]
    BY <1>6, Zenon
  <2> QED
    BY <1>1, <2>1
<1>7. CASE UNCHANGED ledger
  BY <1>7 DEF ledger
<1> QED
  BY <1>3, <1>4, <1>5, <1>6, <1>7

=============================================================================
